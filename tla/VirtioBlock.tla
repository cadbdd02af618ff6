---------------------------- MODULE VirtioBlock ----------------------------
(***************************************************************************)
(* VirtioBlock::process_queue (virtio/block.rs).  Every descriptor of a    *)
(* chain is a request of its own: its first four bytes are the type, its   *)
(* first eight bytes the sector, the bytes from 16 on the data.  So the    *)
(* sector is the type word and the reserved word of a virtio header, and   *)
(* the sector field of the header, at byte 8, is never read: that field is *)
(* `asked`, which only a property looks at.                                *)
(*                                                                         *)
(* Disk positions are counted in sectors: an offset of 2^64 bytes is       *)
(* OffsetLimit sectors, the reserved word weighs WordLimit (2^32).         *)
(* Transfers are of one sector or of none; a request lies wholly inside or *)
(* wholly outside guest memory.                                            *)
(***************************************************************************)
EXTENDS Virtqueue, Integers

CONSTANTS
  Layouts,       \* the descriptor chains the driver may publish
  DiskSectors,   \* length of the disk image when it is opened
  WordLimit,     \* 2^32, scaled
  OffsetLimit    \* sectors in 2^64 bytes, scaled

Types == {"IN", "OUT", "FLUSH", "other"}

Descriptor == [type : Types, reserved : Nat, asked : Nat, hasData : BOOLEAN,
               inRam : BOOLEAN]

\* The largest file offset, off_t being signed.
MaxOffset == OffsetLimit \div 2

ASSUME BlockAssumption ==
  /\ Layouts \subseteq Seq(Descriptor)
  /\ {DiskSectors, WordLimit, OffsetLimit} \subseteq Nat \ {0, 1}
  /\ DiskSectors <= MaxOffset

Ids == 1 .. MaxChains
S_OK == 0
S_IOERR == 1
S_UNSUPP == 2

VARIABLES
  layout,           \* the descriptors of each chain
  read_only,        \* how the image was opened
  overflow_checks,  \* the build: debug panics on overflow, release wraps
  interrupt_evt,    \* whether the eventfd could be created
  pc,               \* where the handler is
  di,               \* the descriptor it is at
  status,           \* its local variable
  disk,             \* contents of the image, by sector
  file_len,         \* length of the image
  cursor,           \* the file position of the image
  log,              \* history: the requests attempted
  failed,           \* history: the last call returned an error
  announced         \* history: length of the used ring when evt was written

fixed == <<layout, read_only, overflow_checks, interrupt_evt>>
diskVars == <<disk, file_len, cursor, log>>
vars == <<queueVars, fixed, pc, di, status, diskVars, failed, announced>>

TypeOK ==
  /\ QueueTypeOK
  /\ pc \in {"idle", "loop", "desc", "use", "signal", "dead"}
  /\ di \in Nat
  /\ status \in {S_OK, S_IOERR, S_UNSUPP}
  /\ file_len \in 0 .. OffsetLimit
  /\ cursor \in 0 .. OffsetLimit
  /\ \A s \in 0 .. OffsetLimit : s >= file_len => disk[s] = 0
  /\ failed \in BOOLEAN
  /\ announced \in 0 .. Len(used)

\* What the image holds at first; past its end, zeros.
InitialData(s) == IF s < DiskSectors THEN 100 + s ELSE 0

\* What the driver put in the data bytes of descriptor d of chain c.
WriteData(c, d) == 10 * c + d

\* VirtioBlock::new.
Init ==
  /\ QueueInit
  /\ layout \in [Ids -> Layouts]
  /\ read_only \in BOOLEAN
  /\ overflow_checks \in BOOLEAN
  /\ interrupt_evt \in BOOLEAN
  /\ pc = "idle" /\ di = 0 /\ status = S_OK
  /\ disk = [s \in 0 .. OffsetLimit |-> InitialData(s)]
  /\ file_len = DiskSectors
  /\ cursor = 0
  /\ log = <<>>
  /\ failed = FALSE /\ announced = 0

\* The driver sets the queue up and publishes chains.
Driver ==
  /\ SetUp \/ Offer
  /\ UNCHANGED <<fixed, pc, di, status, diskVars, failed, announced>>

\* process_queue(0); another index is an error that changes nothing.
process_queue ==
  /\ pc = "idle"
  /\ pc' = "loop"
  /\ UNCHANGED <<queueVars, fixed, di, status, diskVars, failed, announced>>

\* The head of the while loop.
Loop ==
  /\ pc = "loop"
  /\ \/ IterFails /\ pc' = "idle" /\ failed' = TRUE
        /\ UNCHANGED <<queueVars, di, status>>
     \/ NoChain /\ pc' = (IF interrupt_evt THEN "signal" ELSE "idle")
        /\ failed' = FALSE /\ UNCHANGED <<queueVars, di, status>>
     \/ Pop /\ pc' = "desc" /\ di' = 1 /\ status' = S_OK /\ UNCHANGED failed
  /\ UNCHANGED <<fixed, diskVars, announced>>

head_index == next_avail
desc == layout[head_index][di]

\* The u64 that the first eight bytes of a request make.
sector(r) == (IF r.type = "OUT" THEN 1 ELSE 0) + WordLimit * r.reserved

\* `sector * block_size` does not fit in 64 bits.
Overflows(r) == r.type \in {"IN", "OUT"} /\ sector(r) >= OffsetLimit

\* lseek takes a signed offset: from 2^63 on it fails, the error is dropped
\* and the file position stays.
Seekable(r) == sector(r) % OffsetLimit < MaxOffset

seek(r) == IF Seekable(r) THEN sector(r) % OffsetLimit ELSE cursor

\* A request that was attempted, as the history keeps it; whether its data
\* were transferred.
Entry(at, data, took) ==
  [chain |-> head_index, desc |-> di, at |-> at, data |-> data, took |-> took]

MutDoIn ==
  LET data == IF cursor < file_len THEN disk[cursor] ELSE 0
  IN /\ desc.type = "IN"
     /\ cursor' = cursor + 1
     /\ log' = Append(log, Entry(cursor, data, TRUE))
     /\ UNCHANGED <<disk, file_len>>

\* VIRTIO_BLK_T_IN: read_exact into a zeroed buffer, errors dropped.
DoIn ==
  LET at == seek(desc)
      hit == desc.hasData /\ at < file_len
  IN /\ desc.type = "IN"
     /\ cursor' = IF hit THEN at + 1 ELSE at
     /\ log' = Append(log, Entry(at, IF hit THEN disk[at] ELSE 0, hit))
     /\ UNCHANGED <<disk, file_len>>

\* VIRTIO_BLK_T_OUT on a writable image: write_all, which the file system may
\* refuse, and does where a file cannot be longer; the error is dropped.
DoOut ==
  LET at == seek(desc)
      data == WriteData(head_index, di)
  IN /\ desc.type = "OUT" /\ ~read_only
     /\ \/ /\ desc.hasData /\ at < MaxOffset
           /\ disk' = [disk EXCEPT ![at] = data]
           /\ file_len' = IF at < file_len THEN file_len ELSE at + 1
           /\ cursor' = at + 1
           /\ log' = Append(log, Entry(at, data, TRUE))
        \/ /\ cursor' = at
           /\ log' = Append(log, Entry(at, data, FALSE))
           /\ UNCHANGED <<disk, file_len>>

\* VIRTIO_BLK_T_FLUSH.
DoFlush ==
  /\ desc.type = "FLUSH"
  /\ log' = Append(log, Entry(0, 0, FALSE))
  /\ UNCHANGED <<disk, file_len, cursor>>

AtDescriptor == pc = "desc" /\ di <= Len(layout[head_index])

\* The type of the request cannot be read: out through `?`.
BadAddress ==
  /\ AtDescriptor /\ ~desc.inRam
  /\ pc' = "idle" /\ failed' = TRUE
  /\ UNCHANGED <<queueVars, fixed, di, status, diskVars, announced>>

\* A debug build panics on the overflow, with the disk locked.
Panic ==
  /\ AtDescriptor /\ desc.inRam
  /\ Overflows(desc) /\ overflow_checks /\ ~(desc.type = "OUT" /\ read_only)
  /\ pc' = "dead"
  /\ UNCHANGED <<queueVars, fixed, di, status, diskVars, failed, announced>>

Attempt ==
  /\ AtDescriptor /\ desc.inRam
  /\ ~(Overflows(desc) /\ overflow_checks)
  /\ DoIn \/ DoOut \/ DoFlush
  /\ di' = di + 1
  /\ UNCHANGED <<queueVars, fixed, pc, status, failed, announced>>

MutRefuse ==
  /\ AtDescriptor /\ desc.inRam
  /\ status' = (IF desc.type = "other" THEN S_UNSUPP ELSE S_IOERR)
  /\ desc.type = "other" \/ (desc.type = "OUT" /\ read_only)
  /\ di' = di + 1
  /\ UNCHANGED <<queueVars, fixed, pc, diskVars, failed, announced>>

\* A write to a read-only image and an unknown type: the status is set and
\* the rest of the chain is skipped.
Refuse ==
  /\ AtDescriptor /\ desc.inRam
  /\ \/ desc.type = "OUT" /\ read_only /\ status' = S_IOERR
     \/ desc.type = "other" /\ status' = S_UNSUPP
  /\ pc' = "use"
  /\ UNCHANGED <<queueVars, fixed, di, diskVars, failed, announced>>

\* The end of the chain.
ChainEnd ==
  /\ pc = "desc" /\ di > Len(layout[head_index])
  /\ pc' = "use"
  /\ UNCHANGED <<queueVars, fixed, di, status, diskVars, failed, announced>>

MutUse ==
  /\ pc = "use"
  /\ IF status = S_UNSUPP THEN UNCHANGED queueVars
                          ELSE AddUsed(head_index, status)
  /\ pc' = "loop"
  /\ UNCHANGED <<fixed, di, status, diskVars, failed, announced>>

MutUseNext ==
  /\ pc = "use"
  /\ AddUsed(head_index + 1, status)
  /\ pc' = "loop"
  /\ UNCHANGED <<fixed, di, status, diskVars, failed, announced>>

\* queue.add_used(mem, head_index, status as u32).
Use ==
  /\ pc = "use"
  /\ AddUsed(head_index, status)
  /\ pc' = "loop"
  /\ UNCHANGED <<fixed, di, status, diskVars, failed, announced>>

MutSignal ==
  /\ pc = "signal"
  /\ announced' = IF status = S_OK THEN Len(used) ELSE announced
  /\ pc' = "idle"
  /\ UNCHANGED <<queueVars, fixed, di, status, diskVars, failed>>

\* interrupt_evt.write(1).
Signal ==
  /\ pc = "signal"
  /\ announced' = Len(used)
  /\ pc' = "idle"
  /\ UNCHANGED <<queueVars, fixed, di, status, diskVars, failed>>

Handler == Loop \/ BadAddress \/ Panic \/ Attempt \/ Refuse \/ ChainEnd
             \/ Use \/ Signal

Next == Driver \/ process_queue \/ Handler

Spec == Init /\ [][Next]_vars

-----------------------------------------------------------------------------
(* What the run checks.                                                     *)

Request(e) == layout[e.chain][e.desc]

\* A sector whose offset a file position can be.
Addressable(r) == sector(r) < MaxOffset

IsWrite(e) == Request(e).type = "OUT" /\ e.took

\* What sector s holds when the first n requests of the history have been
\* attempted, if each write went where it said.
Held(s, n) ==
  LET writes == {j \in 1 .. n : IsWrite(log[j]) /\ sector(Request(log[j])) = s}
  IN IF writes = {} THEN InitialData(s)
     ELSE log[CHOOSE j \in writes : \A k \in writes : k <= j].data

\* By the code's own sector number, the first eight bytes of a request, the
\* image is a disk: as long as no write with an offset past every file
\* position has taken place, each sector holds what the last write that names
\* it left, and a read of an addressable sector finds that, whatever position
\* a failed seek, a short read or a refused write left the file at.  The
\* number is not the one the driver asks for: see DiskReadsBack.
DiskFollowsRequests ==
  (\A i \in DOMAIN log : IsWrite(log[i]) => Addressable(Request(log[i]))) =>
    /\ \A s \in 0 .. OffsetLimit : disk[s] = Held(s, Len(log))
    /\ \A i \in DOMAIN log :
         LET r == Request(log[i]) IN
         r.type = "IN" /\ r.hasData /\ Addressable(r)
           => log[i].data = Held(sector(r), i - 1)

\* A driver that writes a sector of the disk and reads the same sector gets
\* what it wrote: the "virtual disk" that "reads/writes sectors from a host
\* file" of README.md.  Only writes that took are looked at.
DiskReadsBack ==
  \A i, j \in DOMAIN log :
    LET w == Request(log[i])
        r == Request(log[j])
    IN /\ i < j /\ IsWrite(log[i]) /\ r.type = "IN" /\ r.hasData
       /\ w.asked = r.asked
       /\ \A k \in i + 1 .. j - 1 :
            IsWrite(log[k]) => Request(log[k]).asked # r.asked
       => log[j].data = log[i].data

\* A request that the handler answers with an error status.
Refused(r) == r.type = "other" \/ (r.type = "OUT" /\ read_only)

\* The status a chain is handed back with names its first refused request, if
\* it has one: every request before that was attempted and none after it, and
\* S_OK means that the chain has no refused request.  It means no more: the
\* failures of seek, read_exact and write_all are dropped, and the status
\* goes into the length of the used ring, not to the driver's status byte.
StatusTellsRefusal ==
  \A k \in DOMAIN used :
    LET c == used[k].id
        tried == {log[i].desc : i \in {j \in DOMAIN log : log[j].chain = c}}
        refused == {d \in DOMAIN layout[c] : Refused(layout[c][d])}
    IN \/ used[k].len = S_OK /\ refused = {} /\ tried = DOMAIN layout[c]
       \/ \E d \in refused :
            /\ \A b \in refused : d <= b
            /\ tried = 1 .. d - 1
            /\ used[k].len = IF layout[c][d].type = "OUT" THEN S_IOERR
                                                         ELSE S_UNSUPP

\* A chain handed back stays unannounced, once the handler has returned, only
\* if that call returned an error.
UnannouncedOnlyOnError ==
  pc = "idle" /\ interrupt_evt /\ ~failed => announced = Len(used)

\* The contract's view of the handler.
Dealt == IF pc \in {"desc", "use"} THEN next_avail - 1 ELSE next_avail
Active == pc \in {"loop", "desc", "use"}
Unreadable == {c \in Ids : \E d \in DOMAIN layout[c] :
                 \/ ~layout[c][d].inRam
                 \/ overflow_checks /\ Overflows(layout[c][d])}

Contract == INSTANCE QueueContract WITH
  offered <- Visible, dealt <- Dealt, done <- HandedBack, active <- Active,
  unreadable <- Unreadable

\* The handler implements the contract of a virtqueue: it keeps only the
\* chains with a request outside guest memory, and in a debug build the ones
\* whose offset overflows.
ServesQueue == Contract!ContractSpec

=============================================================================

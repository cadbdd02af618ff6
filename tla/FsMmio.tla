------------------------------- MODULE FsMmio -------------------------------
(***************************************************************************)
(* The MMIO buffer of FsState (virtio/fs.rs) behind its RwLock: an access  *)
(* holds the lock throughout and is one step.                              *)
(***************************************************************************)
EXTENDS Naturals

CONSTANTS
  MmioSize,     \* length of the buffer
  UsizeLimit,   \* 2^64, scaled
  MaxLen        \* bound: length of an access

ASSUME FsMmioAssumption ==
  /\ {MmioSize, UsizeLimit, MaxLen} \subseteq Nat
  /\ MmioSize < UsizeLimit /\ MaxLen < UsizeLimit

VARIABLES
  mmio_data,        \* the buffer
  poisoned,         \* the lock, after a panic of a writer
  overflow_checks,  \* the build: debug panics on overflow, release wraps
  last              \* the last access and its result

bufferVars == <<mmio_data, poisoned, overflow_checks, last>>

Offsets == 0 .. UsizeLimit - 1
Access == [op : {"none", "read", "write"}, offset : Offsets,
           len : 0 .. MaxLen, result : {"ok", "err", "panic"}]

BufferTypeOK ==
  /\ mmio_data \in [0 .. MmioSize - 1 -> 0 .. 2]
  /\ poisoned \in BOOLEAN
  /\ overflow_checks \in BOOLEAN
  /\ last \in Access

\* FsState::new: a zeroed buffer.
BufferInit ==
  /\ mmio_data = [b \in 0 .. MmioSize - 1 |-> 0]
  /\ poisoned = FALSE
  /\ overflow_checks \in BOOLEAN
  /\ last = [op |-> "none", offset |-> 0, len |-> 0, result |-> "ok"]

MutStartOnly(offset, len) ==
  LET wraps == offset + len >= UsizeLimit
      end == (offset + len) % UsizeLimit
  IN IF poisoned THEN "panic"
     ELSE IF offset > MmioSize THEN "err"
     ELSE IF wraps /\ overflow_checks THEN "panic"
     ELSE IF end > MmioSize \/ offset > end THEN "panic"
     ELSE "ok"

\* The lock's unwrap, `offset + data.len()`, the comparison and the slice.
Result(offset, len) ==
  LET wraps == offset + len >= UsizeLimit
      end == (offset + len) % UsizeLimit
  IN IF poisoned \/ (wraps /\ overflow_checks) THEN "panic"
     ELSE IF end > MmioSize THEN "err"
     ELSE IF offset > end THEN "panic"
     ELSE "ok"

\* A panicking reader does not poison the lock.
mmio_read(offset, len) ==
  /\ last' = [op |-> "read", offset |-> offset, len |-> len,
              result |-> Result(offset, len)]
  /\ UNCHANGED <<mmio_data, poisoned, overflow_checks>>

\* All bytes written are `v`; a panicking writer poisons the lock.
mmio_write(offset, len, v) ==
  LET result == Result(offset, len)
  IN /\ last' = [op |-> "write", offset |-> offset, len |-> len,
                 result |-> result]
     /\ mmio_data' = [b \in DOMAIN mmio_data |->
                        IF result = "ok" /\ b \in offset .. offset + len - 1
                          THEN v ELSE mmio_data[b]]
     /\ poisoned' = (poisoned \/ result = "panic")
     /\ UNCHANGED overflow_checks

BufferNext ==
  \E offset \in Offsets, len \in 0 .. MaxLen :
    mmio_read(offset, len) \/ \E v \in 1 .. 2 : mmio_write(offset, len, v)

BufferSpec == BufferInit /\ [][BufferNext]_bufferVars

-----------------------------------------------------------------------------
(* Both are proved; the run checks the first on a small buffer.            *)

\* While the lock is usable, an MMIO access inside the buffer succeeds, and
\* one past its end gets an Err, as test_mmio_out_of_bounds expects it, changes
\* no byte and leaves the lock usable for the next.  The exception is an end
\* that wraps: there the code may panic, and a writer's panic poisons the lock,
\* but it never takes the access for one inside the buffer.
PastEndIsErr ==
  [][last' # last /\ ~poisoned =>
       LET end == last'.offset + last'.len IN
       /\ end <= MmioSize => last'.result = "ok" /\ ~poisoned'
       /\ end > MmioSize => /\ last'.result # "ok" /\ mmio_data' = mmio_data
                            /\ end < UsizeLimit =>
                                 last'.result = "err" /\ ~poisoned'
    ]_bufferVars

\* After a writer has panicked no access gets through.
PoisonIsFinal ==
  [][poisoned => /\ poisoned'
                 /\ last' # last => last'.result = "panic"]_bufferVars

=============================================================================

----------------------------- MODULE VirtioFs ------------------------------
(***************************************************************************)
(* VirtioFs::handle_event (virtio/fs.rs): the vhost-user side of the       *)
(* filesystem device, called when the queue's eventfd is readable.  Only   *)
(* the first descriptor of a chain is looked at, as a 9P message; no       *)
(* message type is implemented yet.                                        *)
(***************************************************************************)
EXTENDS Virtqueue

CONSTANT Messages   \* what the driver may publish: the first descriptor

\* `some`: the chain has a descriptor; `len`: its length in bytes.
Message == [some : BOOLEAN, inRam : BOOLEAN, len : Nat]

ASSUME MessagesAssumption == Messages \subseteq Message

Ids == 1 .. MaxChains

VARIABLES
  message,     \* the message of each chain
  pc,          \* where the handler is
  announced    \* history: length of the used ring when irq_trigger was written

vars == <<queueVars, message, pc, announced>>

TypeOK ==
  /\ QueueTypeOK
  /\ message \in [Ids -> Messages]
  /\ pc \in {"idle", "loop", "read", "use", "irq", "dead"}
  /\ announced \in 0 .. Len(used)

Init ==
  /\ QueueInit
  /\ message \in [Ids -> Messages]
  /\ pc = "idle"
  /\ announced = 0

\* The vhost-user front end sets the vring up, the driver publishes chains.
Driver ==
  /\ SetUp \/ Offer
  /\ UNCHANGED <<message, pc, announced>>

\* handle_event for event 0 with IN set; any other event changes nothing.
handle_event ==
  /\ pc = "idle"
  /\ pc' = "loop"
  /\ UNCHANGED <<queueVars, message, announced>>

MutLoop ==
  /\ pc = "loop"
  /\ \/ IterFails /\ pc' = "idle" /\ UNCHANGED queueVars
     \/ NoChain /\ pc' = "idle" /\ UNCHANGED queueVars
     \/ Pop /\ pc' = "read"
  /\ UNCHANGED <<message, announced>>

\* The head of the while loop.
Loop ==
  /\ pc = "loop"
  /\ \/ IterFails /\ pc' = "idle" /\ UNCHANGED queueVars
     \/ NoChain /\ pc' = "irq" /\ UNCHANGED queueVars
     \/ Pop /\ pc' = "read"
  /\ UNCHANGED <<message, announced>>

msg == message[next_avail]

\* desc_chain.next() and read_slice: a chain without a descriptor, or one
\* that cannot be read, is left behind by `continue`.
Skip ==
  /\ pc = "read"
  /\ ~msg.some \/ ~msg.inRam
  /\ pc' = "loop"
  /\ UNCHANGED <<queueVars, message, announced>>

MutProcess9p ==
  /\ pc = "read" /\ msg.some /\ msg.inRam
  /\ pc' = IF msg.len < 4 THEN "loop"
           ELSE IF msg.len = 4 THEN "dead" ELSE "use"
  /\ UNCHANGED <<queueVars, message, announced>>

\* process_9p: under four bytes an error, four bytes an index out of bounds
\* (a panic), more bytes an unsupported operation.  Errors are dropped.
process_9p ==
  /\ pc = "read" /\ msg.some /\ msg.inRam
  /\ pc' = IF msg.len = 4 THEN "dead" ELSE "use"
  /\ UNCHANGED <<queueVars, message, announced>>

\* queue.add_used(mem, head_index, len).
Use ==
  /\ pc = "use"
  /\ AddUsed(next_avail, msg.len)
  /\ pc' = "loop"
  /\ UNCHANGED <<message, announced>>

\* irq_trigger.write(1).
Irq ==
  /\ pc = "irq"
  /\ announced' = Len(used)
  /\ pc' = "idle"
  /\ UNCHANGED <<queueVars, message>>

Next == Driver \/ handle_event \/ Loop \/ Skip \/ process_9p \/ Use \/ Irq

Spec == Init /\ [][Next]_vars

-----------------------------------------------------------------------------
(* What the run checks.                                                    *)

\* Once the handler has returned, every chain it handed back has been
\* announced to the guest, chains it skipped or not.
Announced == pc = "idle" => announced = Len(used)

Dealt == IF pc \in {"read", "use"} THEN next_avail - 1 ELSE next_avail

Active == pc \in {"loop", "read", "use"}

Unreadable == {c \in Ids : \/ ~message[c].some \/ ~message[c].inRam
                           \/ message[c].len = 4}

Contract == INSTANCE QueueContract WITH
  offered <- Visible, dealt <- Dealt, done <- HandedBack, active <- Active,
  unreadable <- Unreadable

\* The handler implements the contract of a virtqueue: it keeps only chains
\* it could not read and those whose message is four bytes long.
ServesQueue == Contract!ContractSpec

=============================================================================

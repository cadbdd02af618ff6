--------------------------- MODULE VirtioConsole ---------------------------
(***************************************************************************)
(* VirtioConsole (virtio/console.rs): process_queue and the transmit queue *)
(* it serves.  The caller holds the device, so handlers do not overlap;    *)
(* the driver goes on publishing chains while one runs.                    *)
(*                                                                         *)
(* A chain is a sequence of descriptors.  Its text is one atom for each    *)
(* descriptor that is read; a descriptor outside guest memory is read as   *)
(* zeros, because the error of read_slice is dropped.                      *)
(***************************************************************************)
EXTENDS Virtqueue

CONSTANT Layouts   \* the descriptor chains the driver may publish

Descriptor == [write_only : BOOLEAN, inRam : BOOLEAN]

ASSUME ConsoleAssumption == Layouts \subseteq Seq(Descriptor)

Ids == 1 .. MaxChains

VARIABLES
  layout,         \* the descriptors of each chain
  interrupt_evt,  \* whether the eventfd could be created
  handler,        \* where the handler is
  used_any,       \* its local variables: a chain was popped,
  di, buf,        \* the descriptor it is at, the text collected
  output,         \* what stdout has taken
  refused,        \* history: chains stdout did not take whole
  announced       \* history: length of the used ring when evt was written

consoleVars == <<queueVars, layout, interrupt_evt, handler, used_any, di, buf,
                 output, refused, announced>>

\* The text of one descriptor, or as many zeros.
Atom == [chain : Ids, desc : Nat, zeros : BOOLEAN]

ConsoleTypeOK ==
  /\ QueueTypeOK
  /\ layout \in [Ids -> Layouts]
  /\ interrupt_evt \in BOOLEAN
  /\ handler \in {"idle", "loop", "desc", "use", "signal"}
  /\ used_any \in BOOLEAN
  /\ di \in Nat
  /\ buf \in Seq(Atom)
  /\ output \in Seq(Atom)
  /\ refused \in SUBSET Ids
  /\ announced \in 0 .. Len(used)

\* VirtioConsole::new: two queues, an eventfd if the host grants one.
ConsoleInit ==
  /\ QueueInit
  /\ layout \in [Ids -> Layouts]
  /\ interrupt_evt \in BOOLEAN
  /\ handler = "idle"
  /\ used_any = FALSE /\ di = 0 /\ buf = <<>>
  /\ output = <<>>
  /\ refused = {}
  /\ announced = 0

\* The driver sets the transmit queue up, and publishes a chain of it.
ConsoleDriver ==
  /\ SetUp \/ Offer
  /\ UNCHANGED <<layout, interrupt_evt, handler, used_any, di, buf, output,
                 refused, announced>>

\* process_queue(1): the transmit queue.  process_queue(0) does nothing yet
\* and another index is an error: neither changes any state.
process_tx ==
  /\ handler = "idle"
  /\ handler' = "loop"
  /\ used_any' = FALSE
  /\ UNCHANGED <<queueVars, layout, interrupt_evt, di, buf, output, refused,
                 announced>>

MutLoop ==
  /\ handler = "loop"
  /\ \/ IterFails /\ handler' = "idle" /\ UNCHANGED <<queueVars, used_any, di>>
     \/ /\ NoChain
        /\ handler' = IF used_any /\ interrupt_evt THEN "signal" ELSE "idle"
        /\ UNCHANGED <<queueVars, used_any, di>>
     \/ Pop /\ used_any' = TRUE /\ di' = 1 /\ handler' = "desc"
  /\ UNCHANGED <<layout, interrupt_evt, buf, output, refused, announced>>

\* The head of the while loop.  An error of iter leaves through `?`, before
\* the interrupt; no chain leaves the loop.
Loop ==
  /\ handler = "loop"
  /\ \/ /\ IterFails /\ handler' = "idle"
        /\ UNCHANGED <<queueVars, used_any, di, buf>>
     \/ /\ NoChain
        /\ handler' = IF used_any /\ interrupt_evt THEN "signal" ELSE "idle"
        /\ UNCHANGED <<queueVars, used_any, di, buf>>
     \/ Pop /\ used_any' = TRUE /\ di' = 1 /\ buf' = <<>> /\ handler' = "desc"
  /\ UNCHANGED <<layout, interrupt_evt, output, refused, announced>>

\* The chain the handler works on, and the text of its descriptor d.
head_index == next_avail

Text(c, d) == [chain |-> c, desc |-> d, zeros |-> ~layout[c][d].inRam]

\* `for desc in desc_chain`: write-only descriptors are left out.
Collect ==
  /\ handler = "desc" /\ di <= Len(layout[head_index])
  /\ buf' = IF layout[head_index][di].write_only THEN buf
            ELSE Append(buf, Text(head_index, di))
  /\ di' = di + 1
  /\ UNCHANGED <<queueVars, layout, interrupt_evt, handler, used_any, output,
                 refused, announced>>

MutWriteAll ==
  /\ handler = "desc" /\ di > Len(layout[head_index])
  /\ \/ handler' = "use" /\ output' = output \o buf /\ UNCHANGED <<di, buf>>
     \/ handler' = "desc" /\ di' = 1 /\ buf' = <<>> /\ UNCHANGED output
  /\ UNCHANGED <<queueVars, layout, interrupt_evt, used_any, refused,
                 announced>>

\* output.write_all(&buf), after the last descriptor; stdout may refuse the
\* rest at any point, and the error is dropped.
WriteAll ==
  /\ handler = "desc" /\ di > Len(layout[head_index])
  /\ handler' = "use"
  /\ \/ output' = output \o buf /\ UNCHANGED refused
     \/ \E n \in 0 .. Len(buf) - 1 :
          /\ output' = output \o SubSeq(buf, 1, n)
          /\ refused' = refused \cup {head_index}
  /\ UNCHANGED <<queueVars, layout, interrupt_evt, used_any, di, buf,
                 announced>>

MutUse ==
  /\ handler = "use"
  /\ IF buf = <<>> THEN UNCHANGED queueVars
                   ELSE AddUsed(head_index, Len(buf))
  /\ handler' = "loop"
  /\ UNCHANGED <<layout, interrupt_evt, used_any, di, buf, output, refused,
                 announced>>

\* queue.add_used(mem, head_index, buf.len()).
Use ==
  /\ handler = "use"
  /\ AddUsed(head_index, Len(buf))
  /\ handler' = "loop"
  /\ UNCHANGED <<layout, interrupt_evt, used_any, di, buf, output, refused,
                 announced>>

\* evt.write(1).
Signal ==
  /\ handler = "signal"
  /\ announced' = Len(used)
  /\ handler' = "idle"
  /\ UNCHANGED <<queueVars, layout, interrupt_evt, used_any, di, buf, output,
                 refused>>

Handler == Loop \/ Collect \/ WriteAll \/ Use \/ Signal

ConsoleNext == ConsoleDriver \/ process_tx \/ Handler

ConsoleSpec == ConsoleInit /\ [][ConsoleNext]_consoleVars

-----------------------------------------------------------------------------
(* What the run checks.                                                    *)

Before(a, b) == a.chain < b.chain \/ (a.chain = b.chain /\ a.desc < b.desc)

\* stdout gets the text of the chains in the order in which the driver
\* published them, each once and whole, whatever calls of the handler and
\* chains published meanwhile they were taken by; a chain that stdout
\* refused in part disturbs no other.
OutputIsText ==
  LET taken == IF handler = "desc" THEN next_avail - 1 ELSE next_avail
      got(c) == {k \in DOMAIN output : output[k].chain = c}
      readable(c) == {d \in DOMAIN layout[c] : ~layout[c][d].write_only}
  IN /\ \A j, k \in DOMAIN output : j < k => Before(output[j], output[k])
     /\ \A k \in DOMAIN output :
          /\ output[k].chain \in 1 .. taken
          /\ output[k].desc \in readable(output[k].chain)
          /\ output[k] = Text(output[k].chain, output[k].desc)
     /\ \A c \in (1 .. taken) \ refused :
          readable(c) \subseteq {output[k].desc : k \in got(c)}

\* The contract's view of the handler.
ConsoleDealt == IF handler \in {"desc", "use"} THEN next_avail - 1
                                               ELSE next_avail
ConsoleActive == handler \in {"loop", "desc", "use"}

ConsoleContract == INSTANCE QueueContract WITH
  offered <- Visible, dealt <- ConsoleDealt, done <- HandedBack,
  active <- ConsoleActive, unreadable <- {}

\* The handler implements the contract of a virtqueue.
ServesQueue == ConsoleContract!ContractSpec

=============================================================================

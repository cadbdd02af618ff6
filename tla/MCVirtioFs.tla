---------------------------- MODULE MCVirtioFs -----------------------------
(* The file-sharing device: its queue handler, the check of a list, the    *)
(* table of lists and the MMIO buffer.  They share no state, so a          *)
(* behaviour moves one of them and leaves the others as they were created. *)
EXTENDS VirtioFs, Acl, FsAcls, FsMmio

M(some, ok, len) == [some |-> some, inRam |-> ok, len |-> len]

\* Messages on both sides of the length checks of process_9p.
MCMessages == {M(FALSE, TRUE, 0), M(TRUE, FALSE, 5), M(TRUE, TRUE, 3),
               M(TRUE, TRUE, 4), M(TRUE, TRUE, 5)}

VARIABLE part   \* which of them moves

FsInit ==
  /\ part \in {"queue", "list", "table", "buffer"}
  /\ Init /\ AclInit /\ TableInit /\ BufferInit
  /\ part # "queue" => message = [c \in Ids |-> M(TRUE, TRUE, 5)]
  /\ part # "list" =>
       acl = CHOOSE a \in [owner : Uids, group : Gids,
                           entries : {<<>>}] : TRUE
  /\ part # "table" => /\ \A p \in Paths : file[p] = NoFile
                       /\ arg = CHOOSE a \in [Threads -> Paths] : TRUE
  /\ part # "buffer" => overflow_checks

\* A full list, and a handler that panicked when nothing more is published.
Rest ==
  \/ part = "queue" /\ pc = "dead" /\ avail_idx = MaxChains
  \/ part = "list" /\ Len(acl.entries) = MaxEntries

FsNext ==
  \/ /\ part = "queue" /\ Next
     /\ UNCHANGED <<part, acl, tableVars, bufferVars>>
  \/ /\ part = "list" /\ AclNext
     /\ UNCHANGED <<part, vars, tableVars, bufferVars>>
  \/ /\ part = "table" /\ TableNext
     /\ UNCHANGED <<part, vars, acl, bufferVars>>
  \/ /\ part = "buffer" /\ BufferNext
     /\ UNCHANGED <<part, vars, acl, tableVars>>
  \/ /\ Rest
     /\ UNCHANGED <<part, vars, acl, tableVars, bufferVars>>

FsSpec == FsInit /\ [][FsNext]_<<part, vars, acl, tableVars, bufferVars>>
=============================================================================

------------------------------- MODULE FsAcls -------------------------------
(***************************************************************************)
(* The table of access control lists of FsState (virtio/fs.rs), behind its *)
(* lock and shared by threads.  create_file takes three steps: open,       *)
(* metadata, and init_acl's insertion under the lock; set_acl holds the    *)
(* lock throughout and is one step.  Others may remove or replace files at *)
(* any moment.                                                             *)
(***************************************************************************)
EXTENDS Naturals

CONSTANTS
  Threads, Paths,
  Users,        \* who owns files
  MaxSets       \* bound: lists given to set_acl

NoFile == "none"

ASSUME UsersAssumption == NoFile \notin Users /\ MaxSets \in Nat

None == [owner |-> NoFile, version |-> 0]

VARIABLES
  file,             \* owner of each file on disk, or NoFile
  acls,             \* the table: None where there is no list
  sets,             \* history: the last list set_acl gave each path
  step, arg, meta,  \* create_file: step, path and metadata of each thread
  created           \* history: paths for which create_file returned Ok

tableVars == <<file, acls, sets, step, arg, meta, created>>

\* A list is told apart by who made it: 0 is init_acl, n the n-th set_acl.
AclValue == [owner : Users \cup {NoFile}, version : 0 .. MaxSets]

TableTypeOK ==
  /\ file \in [Paths -> Users \cup {NoFile}]
  /\ acls \in [Paths -> AclValue]
  /\ sets \in [Paths -> AclValue]
  /\ step \in [Threads -> {"idle", "metadata", "insert"}]
  /\ arg \in [Threads -> Paths]
  /\ meta \in [Threads -> Users \cup {NoFile}]
  /\ created \in SUBSET Paths

\* FsState::new: the lists of other paths come later.
TableInit ==
  /\ file \in [Paths -> Users \cup {NoFile}]
  /\ acls = [p \in Paths |-> None]
  /\ sets = [p \in Paths |-> None]
  /\ step = [t \in Threads |-> "idle"]
  /\ arg \in [Threads -> Paths]
  /\ meta = [t \in Threads |-> NoFile]
  /\ created = {}

\* create_file: open the file, making it if it is not there.
create_file(t, p, u) ==
  /\ step[t] = "idle"
  /\ file[p] # NoFile => u = file[p]
  /\ file' = [file EXCEPT ![p] = u]
  /\ step' = [step EXCEPT ![t] = "metadata"]
  /\ arg' = [arg EXCEPT ![t] = p]
  /\ UNCHANGED <<acls, sets, meta, created>>

\* Someone removes the file, or replaces it by one of another owner.
Replace(p, u) ==
  /\ file' = [file EXCEPT ![p] = u]
  /\ UNCHANGED <<acls, sets, step, arg, meta, created>>

MutMetadata(t) ==
  /\ step[t] = "metadata"
  /\ IF file[arg[t]] = NoFile
       THEN /\ created' = created \cup {arg[t]}
            /\ step' = [step EXCEPT ![t] = "idle"]
            /\ UNCHANGED meta
       ELSE /\ meta' = [meta EXCEPT ![t] = file[arg[t]]]
            /\ step' = [step EXCEPT ![t] = "insert"]
            /\ UNCHANGED created
  /\ UNCHANGED <<file, acls, sets, arg>>

\* init_acl: fs::metadata, before the lock is taken; an error ends
\* create_file with an error.
Metadata(t) ==
  /\ step[t] = "metadata"
  /\ IF file[arg[t]] = NoFile
       THEN step' = [step EXCEPT ![t] = "idle"] /\ UNCHANGED meta
       ELSE /\ meta' = [meta EXCEPT ![t] = file[arg[t]]]
            /\ step' = [step EXCEPT ![t] = "insert"]
  /\ UNCHANGED <<file, acls, sets, arg, created>>

MutInsert(t) ==
  /\ step[t] = "insert"
  /\ acls' = [acls EXCEPT ![arg[t]] = [owner |-> meta[t], version |-> 0]]
  /\ step' = [step EXCEPT ![t] = "idle"]
  /\ created' = created \cup {arg[t]}
  /\ UNCHANGED <<file, sets, arg, meta>>

\* init_acl under the write lock: insert only where there is no list.
Insert(t) ==
  /\ step[t] = "insert"
  /\ acls' = IF acls[arg[t]] # None THEN acls
             ELSE [acls EXCEPT ![arg[t]] = [owner |-> meta[t], version |-> 0]]
  /\ step' = [step EXCEPT ![t] = "idle"]
  /\ created' = created \cup {arg[t]}
  /\ UNCHANGED <<file, sets, arg, meta>>

set_acl(p, a) ==
  /\ a.owner # NoFile
  /\ a.version > 0 /\ \A q \in Paths : sets[q].version < a.version
  /\ acls' = [acls EXCEPT ![p] = a]
  /\ sets' = [sets EXCEPT ![p] = a]
  /\ UNCHANGED <<file, step, arg, meta, created>>

TableNext ==
  \/ \E t \in Threads : \/ \E p \in Paths, u \in Users : create_file(t, p, u)
                        \/ Metadata(t) \/ Insert(t)
  \/ \E p \in Paths, u \in Users \cup {NoFile} : Replace(p, u)
  \/ \E p \in Paths, a \in AclValue : set_acl(p, a)

TableSpec == TableInit /\ [][TableNext]_tableVars

-----------------------------------------------------------------------------
(* What the run checks.                                                    *)

\* A list that set_acl has installed stands until the next set_acl, whatever
\* create_file calls for the same path were under way.
SetAclStands == \A p \in Paths : sets[p] # None => acls[p] = sets[p]

\* A path for which create_file has returned Ok has a list, even if its file
\* was removed or replaced meanwhile.
CreatedHasAcl == \A p \in created : acls[p] # None

=============================================================================

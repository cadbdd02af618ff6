-------------------------------- MODULE Acl --------------------------------
(***************************************************************************)
(* Acl::check_permission (virtio/fs.rs), and an access control list that   *)
(* its administrator builds up entry by entry and hands to set_acl.        *)
(***************************************************************************)
EXTENDS Naturals, Sequences

CONSTANTS
  Uids, Gids,    \* users and groups
  Permissions,   \* the flags of AclPermissions
  MaxEntries     \* bound: entries of a list

AclEntry == [uid : Uids, gid : Gids, permissions : SUBSET Permissions]

AclType == [owner : Uids, group : Gids, entries : Seq(AclEntry)]

VARIABLE acl

MutFirstOwnEntry(a, uid, required) ==
  \E i \in DOMAIN a.entries :
    /\ a.entries[i].uid = uid
    /\ required \subseteq a.entries[i].permissions
    /\ \A j \in DOMAIN a.entries : j > i => a.entries[j].uid # uid

\* iter().find(|e| e.uid == uid) names an entry that contains `required`.
FirstOwnEntry(a, uid, required) ==
  \E i \in DOMAIN a.entries :
    /\ a.entries[i].uid = uid
    /\ required \subseteq a.entries[i].permissions
    /\ \A j \in 1 .. i - 1 : a.entries[j].uid # uid

HasOwnEntry(a, uid) == \E i \in DOMAIN a.entries : a.entries[i].uid = uid

\* The owner: the first entry of theirs, or, without one, nothing or all.
OwnerGranted(a, uid, required) ==
  \/ FirstOwnEntry(a, uid, required)
  \/ ~HasOwnEntry(a, uid) /\ (required = {} \/ required = Permissions)

MutGroupGranted(a, gid, required) ==
  \E i \in DOMAIN a.entries :
    a.entries[i].gid = gid /\ required = a.entries[i].permissions

\* A member of the group: any entry of the group.
GroupGranted(a, gid, required) ==
  \E i \in DOMAIN a.entries :
    a.entries[i].gid = gid /\ required \subseteq a.entries[i].permissions

\* Anyone else: any entry of the user or of the group.
OtherGranted(a, uid, gid, required) ==
  \E i \in DOMAIN a.entries :
    /\ a.entries[i].uid = uid \/ a.entries[i].gid = gid
    /\ required \subseteq a.entries[i].permissions

check_permission(a, uid, gid, required) ==
  IF a.owner = uid THEN OwnerGranted(a, uid, required)
  ELSE IF a.group = gid THEN GroupGranted(a, gid, required)
  ELSE OtherGranted(a, uid, gid, required)

\* init_acl gives a file its owner and group and no entries.
AclInit == acl \in [owner : Uids, group : Gids, entries : {<<>>}]

Grant(e) ==
  /\ Len(acl.entries) < MaxEntries
  /\ acl' = [acl EXCEPT !.entries = Append(@, e)]

AclNext == \E e \in AclEntry : Grant(e)

AclSpec == AclInit /\ [][AclNext]_acl

-----------------------------------------------------------------------------
(* What is proved for every list; the run checks the first and the         *)
(* last on small ones.                                                     *)

\* The list is a list of entries.
AclTypeOK == acl \in AclType

\* Who may do several things may do each of them; the exception is an owner
\* without an entry, who may do everything at once and no single thing.
GrantsAreMonotone ==
  \A uid \in Uids, gid \in Gids, more \in SUBSET Permissions :
    \A less \in SUBSET more :
      /\ check_permission(acl, uid, gid, more)
      /\ acl.owner = uid => HasOwnEntry(acl, uid)
      => check_permission(acl, uid, gid, less)

\* Nobody gets in whom the list does not name: neither owner, nor the uid or
\* the gid of an entry.
StrangersRefused ==
  \A uid \in Uids, gid \in Gids, required \in SUBSET Permissions :
    /\ acl.owner # uid
    /\ \A i \in DOMAIN acl.entries :
         acl.entries[i].uid # uid /\ acl.entries[i].gid # gid
    => ~check_permission(acl, uid, gid, required)

\* An entry more takes nothing away from anyone: except from an owner who had
\* none and whose first entry it is.
EntryTakesNothing ==
  [][\A uid \in Uids, gid \in Gids, required \in SUBSET Permissions :
       /\ check_permission(acl, uid, gid, required)
       /\ acl.owner = uid => HasOwnEntry(acl, uid)
       => check_permission(acl', uid, gid, required)]_acl

=============================================================================

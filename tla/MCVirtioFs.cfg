CONSTANTS
  MaxChains = 4
  Messages <- MCMessages
  Uids = {u1, u2}
  Gids = {g1, g2}
  Permissions = {READ, WRITE}
  MaxEntries = 3
  Threads = {t1, t2}
  Paths = {"f", "g"}
  Users = {"alice"}
  MaxSets = 2
  MmioSize = 2
  UsizeLimit = 8
  MaxLen = 4
SPECIFICATION FsSpec
INVARIANTS
  Announced
  GrantsAreMonotone
  SetAclStands
  CreatedHasAcl
PROPERTIES
  ServesQueue
  EntryTakesNothing
  PastEndIsErr

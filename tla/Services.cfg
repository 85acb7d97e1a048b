\* Two threads in one session; two clients of the audit log; every action, text and URL.
CONSTANTS
  Threads = {t1, t2}
  Lists = {l1, l2, l3}
  Ids = {1, 2, 3, 4}
  Times = {1, 2}
  Limit = 2
  None = None
  Clients = {c1, c2}
  EventIds = {1, 2, 3}
  Instants = {1, 2}
  Limits = {1, 2}
  NoCall = NoCall
  CheckLists <- MCCheckLists
  Absent = Absent
SPECIFICATION ServicesSpec
CHECK_DEADLOCK FALSE
INVARIANTS WithinLimit EvictsOldestFirst PagesComplete SchemaBeforeUse PermissionNeverOverrides
SYMMETRY Symmetric
ACTION_CONSTRAINT Bounded

\* One request at a time, with restarts.
CONSTANTS
  Users = {u1, u2}
  Tasks = {t1}
  Life = 3
  Margin = 1
  Delay = 1
  StateLife = 1
  MaxTime = 4
  MaxGrants = 2
  None = None
SPECIFICATION Spec
INVARIANTS StatusTellsConsent
SYMMETRY Symmetric

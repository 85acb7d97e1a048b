\* Requests of one user interleaving at their awaits.
CONSTANTS
  Users = {u1}
  Tasks = {t1, t2}
  Life = 3
  Margin = 1
  Delay = 1
  StateLife = 2
  MaxTime = 6
  MaxGrants = 3
  None = None
SPECIFICATION Spec
INVARIANTS ConnectedHasToken ConsentShown CallsCarryLiveToken
PROPERTIES RefreshTokenKept StatusStaysTrue
SYMMETRY Symmetric

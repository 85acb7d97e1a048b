\* A disconnect while a refresh is awaited.
CONSTANTS
  Users = {u1}
  Tasks = {t1, t2}
  Life = 3
  Margin = 1
  Delay = 1
  StateLife = 1
  MaxTime = 4
  MaxGrants = 1
  None = None
SPECIFICATION Spec
INVARIANTS StatusTellsConsent
CONSTRAINT ExchangesNotOvertaken
SYMMETRY Symmetric

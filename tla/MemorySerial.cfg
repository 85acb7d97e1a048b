\* One request at a time, current_time never running backwards.
CONSTANTS
  Users = {u1, u2}
  Keys = {k1}
  Values = {v1, v2}
  Secrets = {}
  Ids = {m1, m2}
  Workers = {w1}
  MaxTime = 2
  Skew = 0
  MaxVersion = 3
  Never = Never
  None = None
SPECIFICATION Spec
INVARIANTS UniqueLive
PROPERTIES ForgottenFinal VersionCounts KeepsPromise
SYMMETRY Symmetric

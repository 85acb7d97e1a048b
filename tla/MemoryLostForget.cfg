\* An update and a forget of one memory at a time.
CONSTANTS
  Users = {u1}
  Keys = {k1}
  Values = {v1, v2}
  Secrets = {}
  Ids = {m1, m2}
  Workers = {w1, w2}
  MaxTime = 1
  Skew = 0
  MaxVersion = 2
  Never = Never
  None = None
SPECIFICATION Spec
CONSTRAINT NothingLapses
SYMMETRY Symmetric
PROPERTIES ForgottenFinal

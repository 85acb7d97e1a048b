\* Two requests at a time over one store; current_time may run backwards by one.
CONSTANTS
  Users = {u1, u2}
  Keys = {k1}
  Values = {v1, s1}
  Secrets = {s1}
  Ids = {m1, m2}
  Workers = {w1, w2}
  MaxTime = 1
  Skew = 1
  MaxVersion = 2
  Never = Never
  None = None
SPECIFICATION Spec
INVARIANTS ReplyIsolation ExpiredHasLapsed
PROPERTIES Ownership ForgottenStays
SYMMETRY Symmetric

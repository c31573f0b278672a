CONSTANTS
  Events = {e1, e2, e3}
  Threads = {t1}
  Delays = {0, 1}
  UidModulus = 6
SPECIFICATION Spec
INVARIANT
  ExpiredExact

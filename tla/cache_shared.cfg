\* Two processes under one key; a minute of two seconds, a day of three; a result
\* is valid as long as its age rounds to no minute: after one second it still is,
\* after two it is not, after three it is again.
SPECIFICATION Spec
CONSTANTS
  Proc = {p1, p2}
  ValidFor = 0
  Second = 1
  Minute = 2
  Day = 3
  MaxTime = 3
  Empty = {1}
  MaxLate = 1
  Faults = {"refused", "raised"}
  Nothing = Nothing
INVARIANTS
  PairNeedsCause
PROPERTIES
  HitIsRecent
SYMMETRY Symmetry
CHECK_DEADLOCK FALSE

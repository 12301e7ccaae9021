\* Two commands, two labfiles, two workflows, two aliases, two wfids; up to two
\* entries are there at the start and one is changed while commands run.
SPECIFICATION Spec
CONSTANTS
  Alias = {x1, x2}
  Id = {i1, i2}
  Def = {d1, d2}
  Cmd = {c1, c2}
  File = {labfile, other}
  Default = labfile
  MaxCommands = 3
  MaxEdits = 1
  Faults = {"stop", "timeout", "error"}
  NoId = NoId
  Nobody = Nobody
INVARIANTS
  IdsAgree
  StrandedNeedsCause
SYMMETRY Symmetry
CHECK_DEADLOCK FALSE

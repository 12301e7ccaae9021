\* Two runs of two workflows on one day, every fault.
SPECIFICATION Spec
CONSTANTS
  Exec = {e1, e2}
  Workflow = {w1, w2}
  LastDay = 0
  Faults = {"post", "docker", "worker"}
  NoCtx = NoCtx
  NoExec = NoExec
INVARIANTS
  RowsTellTheTruth
  ContainerGone
  OutcomeRecorded
PROPERTIES
  OnlyPeriodicOverwrites
SYMMETRY IdSymmetry
CHECK_DEADLOCK FALSE

\* One run over a midnight, every fault: the runs share no more than the names in
\* the store, and each one is its two processes and the server.
SPECIFICATION FairSpec
CONSTANTS
  Exec = {e1}
  Workflow = {w1, w2}
  LastDay = 1
  Faults = {"post", "docker", "worker"}
  NoCtx = NoCtx
  NoExec = NoExec
PROPERTIES
  ImplementsHistory
  EveryRunEnds
CHECK_DEADLOCK FALSE

\* One agent with one worker or two, two executions of a workflow; times in minutes:
\* a heartbeat lives 4 and is checked every 5.
SPECIFICATION Spec
CONSTANTS
  Agent = {a1}
  Slot = {0, 1}
  Workflow = {w1}
  Exec = {e1, e2}
  Ttl = 4
  Check = 5
  Prefixed = {w1}
  Faults = {"agent", "redis"}
  NoFlow = NoFlow
INVARIANTS
  HeartbeatBound
  UnlistedWorkers
  OrphanNeedsCrossing
CHECK_DEADLOCK FALSE

\* Two concurrent requests of every kind on two workflows, through two projects that
\* compete for three aliases.
CONSTANTS
  p1 = p1  w1 = w1  w2 = w2  a1 = a1  a2 = a2  a3 = a3  t1 = t1  t2 = t2
  Request = {r1, r2}
  Wfid = {w1, w2, w3}
  Project = {p1, p2}
  Row <- Mixed
  Operations = {"create", "update", "delete", "run"}
  Existing = {w1, w2}
  MayFail = TRUE
  Boot = boot
  NoRow = NoRow
  NoJob = NoJob
  NoCall = NoCall
SPECIFICATION MCSpec
INVARIANTS
  ScheduledRowHasJob
  JobMatchesRow
  OrphanJobHasCause
PROPERTIES
  RowChangesAreAnswered
  ImplementsTable
  EveryRequestAnswered
  ScheduledWorkflowRuns
CHECK_DEADLOCK FALSE

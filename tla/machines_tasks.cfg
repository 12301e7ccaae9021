\* Two tasks, every fault, a provider that takes a name twice, names enough for
\* every attempt.
SPECIFICATION FairSpec
CONSTANTS
  Job = {j1, j2}
  Cluster = {c1, c2}
  Aliased = {a}
  Drawn = {d1, d2, d3, d4}
  Overwrites = TRUE
  Faults = {"provider", "redis", "ssh", "timeout"}
  NoName = NoName
INVARIANTS
  RegistryMatchesCloud
  DrawnCrossedByDestroys
  StaleNameHasCause
PROPERTIES
  EveryJobEnds
CHECK_DEADLOCK FALSE

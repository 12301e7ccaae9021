\* Two commands, two versions, every fault.
SPECIFICATION BuildSpec
CONSTANTS
  Cmd = {c1, c2}
  Version = {v1, v2}
  BuildFaults = {"client", "docker", "worker"}
  NoCmd = NoCmd
  NoZip = NoZip
INVARIANTS
  BrokenNeedsFailure
  MixedNeedsOverlap
  SecretsHaveCause
CHECK_DEADLOCK FALSE

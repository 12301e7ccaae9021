\* A session, two commands, two rows under one name or an agent's.
SPECIFICATION AccountsSpec
CONSTANTS
  Name = {u1}
  AgentName = {g1}
  Password = {p1, p2}
  Lists <- MCLists
  Needs <- MCNeeds
  Request = {r1}
  Command = {c1, c2}
  MaxRows = 2
  NoPassword = NoPassword
INVARIANTS
  CommandsStick
  StaleClaims
  ValidateIsAllowed
PROPERTIES
  GrantReflectsRow
SYMMETRY Symmetry
CHECK_DEADLOCK FALSE

\* Three processes of a user or of an agent, every fault, five tokens.
SPECIFICATION Spec
CONSTANTS
  t1 = t1
  Token = {t1, t2, t3, t4, t5}
  Client = {c1, c2, c3}
  Home = {user, agent}
  Agent = {agent}
  First <- MCFirst
  Faults = {"server", "network"}
  NoToken = NoToken
  NoHome = NoHome
INVARIANTS
  OnlySharersSpend
  SpentIsReplaced
PROPERTIES
  ImplementsSessions
SYMMETRY Symmetry
CHECK_DEADLOCK FALSE

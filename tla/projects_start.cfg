\* Two folders of one person, two names, two requests, every fault.
SPECIFICATION Spec
CONSTANTS
  Folder = {f1, f2}
  User = {ana}
  UserOf <- MCUserOf
  Agent = {a1, a2}
  Name = {n1, n2}
  Id = {i1, i2, i3, i4}
  Req = {r1, r2}
  Admin = {d1}
  Faults = {"server", "client"}
  NoOne = NoOne
  NoId = NoId
  NoReq = NoReq
INVARIANTS
  SecretsReadable
PROPERTIES
  ImplementsRegistry
  AppearsWhole
SYMMETRY Symmetry
CHECK_DEADLOCK FALSE

SPECIFICATION Spec
CONSTANTS
  Handlers = {h1, h2}
  Persons = {p1, p2}
  Usernames = {n1, n2}
  Numbers = {100005, 223456}
  DeviceKeys = {k1, k2}
  MaxAttempts = 2
  MaxRows = 2
  None = None
INVARIANTS TypeOK UniqueRows RegisteredIsComplete TokensOnlyToOwner KeepsADevice
PROPERTIES RequestsEnd
CHECK_DEADLOCK FALSE
SYMMETRY Symmetry

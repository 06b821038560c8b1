SPECIFICATION Spec
CONSTANTS
  MaxRows = 2
  Handlers = {h1, h2}
  Users <- MCUsers
  Number <- MCNumber
  None = None
SYMMETRY Symmetry
INVARIANTS
  TypeOK
  ContactIsWhoWasTyped
  OneEntryPerPerson
  AnswersShowTheContact
PROPERTY EntriesKeepTheirPerson
CHECK_DEADLOCK FALSE

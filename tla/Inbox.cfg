SPECIFICATION Spec
CONSTANTS
  Me = me
  Others = {bob}
  Pollers = {p1, p2}
  Limit = 2
  Sizes = {600, 65533, 65536}
  PlainSize = 770
  MaxMessages = 3
INVARIANTS
  TypeOK
PROPERTIES
  
  EveryMessageTaken
CHECK_DEADLOCK FALSE

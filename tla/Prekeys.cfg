SPECIFICATION Spec
CONSTANTS
  MaxRows = 2
  Users = {u1, u2}
  OtpKeys = {11, 12}
  Nobody = Nobody
INVARIANTS
  BundleIsOfOneDevice
PROPERTIES
  OtpsMoveOneWay
CHECK_DEADLOCK FALSE

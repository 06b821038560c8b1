SPECIFICATION Spec
CONSTANTS
  MaxRows = 2
  Users = {1, 2}
  OtpKeys = {11, 12}
  Nobody = Nobody
INVARIANT OtpGivenOnce
CHECK_DEADLOCK FALSE

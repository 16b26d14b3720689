SPECIFICATION Spec
CONSTANTS
  NDevs = 2
  Ring = 3
  MaxControls = 2
  MaxReports = 2
CHECK_DEADLOCK FALSE
INVARIANTS
  ResultIsOwn
  CallbackPerRequest
  NeverHangsSilently
  NoEventForgotten
PROPERTIES
  EnumerationEnds

SPECIFICATION Spec
CONSTANTS
  Ports = 2
  Plugged <- MCPlugged
  NoDevice = NoDevice
  QH = {q1, q2, q3}
  T = T
  ROUNDS = 3
  MaxReports = 2
  MaxDescriptors = 1
  Padding = 111
  USB_DEVICE_MAX_INTERFACES = 2
  USB_DEVICE_MAX_ENDPOINTS = 2
CHECK_DEADLOCK FALSE
PROPERTY
  ShortIsError

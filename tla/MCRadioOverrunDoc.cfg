SPECIFICATION Spec
CONSTANTS
  PreambleMillis = 2
  PayloadMillis = 3
  PreambleTime = 2
  PayloadTime = 3
  ScanEnabled = FALSE
PROPERTY ReturnsWhatArrived

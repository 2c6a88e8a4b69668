SPECIFICATION FairSpec
CONSTANTS
  PreambleMillis = 2
  PayloadMillis = 3
  PreambleTime = 2
  PayloadTime = 3
  ScanEnabled = TRUE
INVARIANTS TypeOK HearsWhenInRx ReadsWhatArrived SentMeansSent PacketsAreKept
PROPERTIES ListensAgain FlagsExpire

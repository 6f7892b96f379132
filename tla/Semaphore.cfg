SPECIFICATION MCSpec
CONSTANTS
  Threads = {t1, t2, t3, t4}
  InitCount = 0
  MaxCount = 3
  CvConfigs <- CvConfigSet
INVARIANTS NoLostWakeup WaitersWoken
PROPERTY UnitsAreTaken
CHECK_DEADLOCK FALSE

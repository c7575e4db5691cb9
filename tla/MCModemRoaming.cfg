SPECIFICATION FairSpec
CHECK_DEADLOCK FALSE
CONSTANTS
  HasPin = FALSE PinLimit = 1 WantData = TRUE RoamingData = FALSE DailyCheck = TRUE
  RetryLimit = 2 FailLimit = 2 DeregLimit = 2 DataRetries = 1 Settings = {"notify", "storage"}
  MaxEvents = 1 MaxFaults = 0
PROPERTY RoamingStops

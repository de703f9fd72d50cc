SPECIFICATION FairSpec
CONSTANTS
  MaxDelivery = 2
  Payloads = 1
  BestEffort <- MCBestEffort
  OnError <- MCOnError
  Scans = {s1}
  MaxRetries = 1
  MaxCrashes = 1
PROPERTIES
  EveryEntryLeaves
CHECK_DEADLOCK FALSE

\* The clock runs on and nobody starts another verification.
CONSTANTS
  Players = {alice}
  Codes = {c1}
  Modes <- BothModes
  CodeTtlMs <- ShortTtls
  MsPerSecond = 2
  TokenTtlSeconds = 1
  MaxTime = 4
  MaxVerifications = 1
  MaxRestarts = 0
SPECIFICATION FairSpec
PROPERTIES
  ExpiredSessionsCleaned

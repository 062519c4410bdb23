\* Two players, three verifications of either mode, a restart.
CONSTANTS
  Players = {alice, bob}
  Codes = {c1, c2}
  Modes <- BothModes
  CodeTtlMs <- ShortTtls
  MsPerSecond = 2
  TokenTtlSeconds = 1
  MaxTime = 3
  MaxVerifications = 3
  MaxRestarts = 1
SPECIFICATION Spec
SYMMETRY Symmetry
INVARIANTS
  TypeOK
  LookupsAgree
  OneTokenPerVerification
  TokensEarned
  TokenVerdicts
PROPERTIES
  OnlyLatestGrants
  ImplementsBook

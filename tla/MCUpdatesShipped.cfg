SPECIFICATION FairSpec
CONSTANTS
  old = old
  build = build
  rebuild = rebuild
  Setups = {old, build}
  Product <- ProductOf
  Size <- SizeOf
  NoSetup = none
  First = old
  Publishers = {1}
  Helpers = {1}
  AutoDeploy = TRUE
  ReadsSignature = FALSE
  PowerShell7 = TRUE
  MaxStagings = 1
  MaxFaults = 0
CHECK_DEADLOCK FALSE
PROPERTY ReleasesAreInstalled

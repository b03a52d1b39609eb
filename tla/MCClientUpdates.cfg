SPECIFICATION FairSpec
CONSTANTS
  old = old
  build = build
  rebuild = rebuild
  Setups = {old, build, rebuild}
  Product <- ProductOf
  Size <- SizeOf
  NoSetup = none
  First = old
  Publishers = {1}
  Helpers = {1, 2}
  AutoDeploy = TRUE
  ReadsSignature = TRUE
  PowerShell7 = TRUE
  MaxStagings = 2
  MaxFaults = 1
INVARIANTS
  PublicationIsWhole
  InstalledWasPublished
  CompletedWasInstalled
CHECK_DEADLOCK FALSE
PROPERTY DeviceConverges

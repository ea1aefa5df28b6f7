SPECIFICATION FairSpec
CONSTANTS
  Families = {"v4", "v6"}
  Gatings = {{"vm", "lxc"}}
  MaxEnv = 3
  MaxFaults = 0
  MaxCrashes = 1
  MaxManual = 1

PROPERTY PrimaryReturnsWhenReady

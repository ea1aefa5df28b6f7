SPECIFICATION FairSpec
CONSTANTS
  Families = {"v4", "v6"}
  Gatings = {{"vm", "lxc"}, {"vm"}, {}}
  MaxEnv = 2
  MaxFaults = 1
  MaxCrashes = 1
  MaxManual = 1
INVARIANTS TypeOK WithdrawLeavesBackup
PROPERTIES AnnouncementsJustified UnreadyIsWithdrawn 

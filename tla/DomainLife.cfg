SPECIFICATION FairSpec
CONSTANTS
  Xl = {x1, x2}
  User = u
  MaxDom = 2
  MaxMinute = 0
  MaxCommand = 1
  Options = {"create"}
  Reasons = {"reboot", "watchdog"}
  OnPoweroff = "destroy"
  OnReboot = "restart"
  OnCrash = "rename_restart"
  OnWatchdog = "rename_restart"
INVARIANTS OneInstance NamesUnique NoOrphans
PROPERTIES SuspendedKept DeathNoticed LockObtained

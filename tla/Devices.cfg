SPECIFICATION FairSpec
CONSTANTS
  Consoles = {"console"}
  Disks = {1}
  Nets = {"vif", "vif2"}
  MaxNic = 1
  Specs = {"", "phy", "file", "tap:vhd", "tap:preservation", "tap:qcow"}
  BootSpec = ""
  BlktapEnabled = TRUE
  MaxCommand = 3
INVARIANTS BackendMatches OpenedAsNamed
PROPERTIES ConnectedIsTold CommandEnds DevicesFreed
CHECK_DEADLOCK FALSE

SPECIFICATION BootSpec
CONSTANTS
  FogServers = {"url", "bare", ""}
  FogActions = {"", "debug", "register", "deploy", "wipe"}
  MaxBoots = 3
  NIC = {1, 2, 3}
  MACs = {"m1", "m2", "m3"}
  Deadline = 2
  Disks = {d1, d2, d3}
  NoDisk = NoDisk
  Numbers = {0, 2, 10}
  Sizes = {31, 32, 1000, 1023, 1024, 1075}
  Base = 32
  MaxDiskBoots = 2
  Keys = {"fog_server", "fog_action", "quiet"}
  Fields = {"fog_server", "fog_action"}
  Values = {"", "a", "b"}
  Empty = ""
  MaxLen = 4
INVARIANT BootTypes
INVARIANT OffMeansRegistered
INVARIANT PrimaryLeads
INVARIANT OnePrimary
INVARIANT NearlyLargest
INVARIANT SameDiskAgain
INVARIANT LastTokenWins
PROPERTY Settles
CHECK_DEADLOCK FALSE

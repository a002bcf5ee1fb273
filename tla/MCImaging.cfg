SPECIFICATION ImagingSpec
CONSTANTS
  Devices = 3
  Types = {"ntfs", "ext4", "btrfs", "xfs", "f2fs", "vfat"}
  Runs = 2
  Full = 2
  MaxDev = 3
  MaxCaptures = 2
INVARIANT ImagingTypes
INVARIANT CopiesUnmounted
INVARIANT ShrunkIsSmall
INVARIANT OwnStatus
INVARIANT DeploysLastCapture
PROPERTY ResizesItsOwn
PROPERTY PollersStop
CHECK_DEADLOCK FALSE

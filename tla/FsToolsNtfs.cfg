SPECIFICATION Spec
CONSTANTS
  Devices = 1
  Types = {"ntfs"}
INVARIANT OnlyHardFailures
CHECK_DEADLOCK FALSE

------------------------------ MODULE FsTools ------------------------------
(***************************************************************************)
(* The filesystem tools that the tasks of a resizable image run around     *)
(* partclone: CleanNTFS, Shrink and Expand.  Each is a script of commands  *)
(* of which the first that fails ends it.  A filesystem that was mounted   *)
(* is unmounted by a deferred command whose exit status is ignored and     *)
(* which, like every command, is not started once the context is done.     *)
(* Each filesystem type has one mount point for all partitions.            *)
(***************************************************************************)
EXTENDS Naturals, Sequences, SequencesExt

CONSTANTS
  Devices,  \* number of partitions
  Types     \* filesystem types that occur

KnownTypes == {"ntfs", "ext4", "btrfs", "xfs", "f2fs", "vfat"}

ToolsAssumption == Devices \in Nat \ {0} /\ Types \subseteq KnownTypes

Device == 1..Devices

VARIABLES
  task,      \* "capture" or "deploy"
  type,      \* device |-> type of its filesystem
  device,    \* the partition the task is at
  ops,       \* what is still to be done with it: the operation in progress first
  rest,      \* the commands of that operation still to be run
  error,     \* has one of them failed?
  umount,    \* is its deferred umount still to come?
  mounts,    \* type |-> devices on its mount point, the visible one last
  damaged,   \* devices with errors that e2fsck can correct
  extent,    \* device |-> size of its filesystem: "old", "min", "max" or "torn"
  shrunk,    \* device |-> what Shrink returned: "none", "true" or "error"
  faulty,    \* devices for which a command failed for no reason given here
  stuck,     \* devices for which umount was started and failed
  cancelled  \* is the context done?

inputs == <<task, type>>
place  == <<device, ops, rest, error>>
faults == <<faulty, stuck>>
vars == <<inputs, place, umount, mounts, damaged, extent, shrunk, faults, cancelled>>

TypePlace ==
  /\ device \in 1..Devices + 1
  /\ ops \in Seq({"clean", "shrink", "copy", "expand"})
  /\ rest \in Seq({"probe", "fsck", "mount", "remove", "resize"})
  /\ error \in BOOLEAN /\ umount \in BOOLEAN

TypeDisk ==
  /\ mounts \in [Types -> Seq(Device)]
  /\ {damaged, faulty, stuck} \subseteq SUBSET Device
  /\ extent \in [Device -> {"old", "min", "max", "torn"}]
  /\ shrunk \in [Device -> {"none", "true", "error"}]

TypeOK ==
  /\ task \in {"capture", "deploy"} /\ type \in [Device -> Types]
  /\ cancelled \in BOOLEAN
  /\ TypePlace /\ TypeDisk

Init ==
  /\ task \in {"capture", "deploy"} /\ type \in [Device -> Types]
  /\ device = 1 /\ ops = <<>> /\ rest = <<>> /\ error = FALSE /\ umount = FALSE
  /\ mounts = [t \in Types |-> <<>>]
  /\ damaged \in SUBSET {d \in Device : type[d] = "ext4"}
  /\ extent = [d \in Device |-> "old"]
  /\ shrunk = [d \in Device |-> "none"] /\ faulty = {} /\ stuck = {}
  /\ cancelled = FALSE

-----------------------------------------------------------------------------
fs == type[device]
op == Head(ops)

CanShrink == fs \in {"ext4", "ntfs", "btrfs"}

(* What a task does with a partition, in order.                            *)
Operations ==
  IF task = "deploy" THEN <<"copy", "expand">>
  ELSE IF fs = "ntfs" THEN <<"clean", "shrink", "copy">>
  ELSE IF CanShrink THEN <<"shrink", "copy">>
  ELSE <<"copy">>

Clean == <<"mount", "remove">>

Shrink == CASE fs = "ntfs"  -> <<"probe", "resize">>
            [] fs = "btrfs" -> <<"mount", "resize">>
            [] OTHER        -> <<"fsck", "resize">>

Expand == CASE fs \in {"btrfs", "xfs"}         -> <<"mount", "resize">>
            [] fs \in {"ntfs", "ext4", "f2fs"} -> <<"resize">>
            [] OTHER                           -> <<>>

Script(o) == CASE o = "clean"  -> Clean
               [] o = "shrink" -> Shrink
               [] o = "expand" -> Expand
               [] OTHER        -> <<>>

(* The operations todo are left for the partition.                         *)
Continue(todo) ==
  /\ ops' = todo /\ error' = FALSE
  /\ rest' = IF todo = <<>> THEN <<>> ELSE Script(Head(todo))
  /\ device' = IF todo = <<>> THEN device + 1 ELSE device

Begin ==
  /\ ops = <<>> /\ device \in Device
  /\ Continue(Operations)
  /\ UNCHANGED <<inputs, umount, mounts, damaged, extent, shrunk, faults, cancelled>>

(* partclone copies the partition; the task ends if it fails, as it does   *)
(* when the context is done.                                               *)
Copy ==
  /\ ops # <<>> /\ op = "copy"
  /\ \/ ~cancelled /\ Continue(Tail(ops))
     \/ ops' = <<>> /\ device' = Devices + 1 /\ UNCHANGED <<rest, error>>
  /\ UNCHANGED <<inputs, umount, mounts, damaged, extent, shrunk, faults, cancelled>>

-----------------------------------------------------------------------------
Comes(command) == ops # <<>> /\ rest # <<>> /\ Head(rest) = command

(* A command is started and works.                                         *)
Run(command) ==
  /\ Comes(command) /\ ~cancelled
  /\ rest' = Tail(rest)
  /\ UNCHANGED <<inputs, device, ops, error, damaged, shrunk, faults, cancelled>>

MountOnce ==
  /\ Run("mount")
  /\ mounts' = IF mounts[fs] = <<>> THEN [mounts EXCEPT ![fs] = <<device>>] ELSE mounts
  /\ umount' = TRUE
  /\ UNCHANGED extent

Mount ==
  /\ Run("mount")
  /\ mounts' = [mounts EXCEPT ![fs] = Append(@, device)] /\ umount' = TRUE
  /\ UNCHANGED extent

(* A resize by mount point acts on what is visible there.                  *)
Target == IF umount THEN Last(mounts[fs]) ELSE device

Resize ==
  /\ Run("resize")
  /\ extent' = [extent EXCEPT ![Target] = IF op = "shrink" THEN "min" ELSE "max"]
  /\ UNCHANGED <<umount, mounts>>

(* e2fsck finds nothing to correct.                                        *)
Check ==
  /\ Run("fsck") /\ device \notin damaged
  /\ UNCHANGED <<umount, mounts, extent>>

(* The page, hibernation and swap files are removed, by no command.        *)
RemoveFiles ==
  /\ Comes("remove")
  /\ rest' = Tail(rest)
  /\ UNCHANGED <<inputs, device, ops, error, umount, mounts, damaged, extent,
                 shrunk, faults, cancelled>>

(* The operation ends with an error, before its deferred umount.           *)
Abort == /\ rest' = <<>> /\ error' = TRUE
         /\ UNCHANGED <<inputs, device, ops, shrunk, cancelled>>

(* e2fsck exits with 1 when it has corrected the filesystem; ntfsresize    *)
(* -fns <device> takes the device for the size that -s asks for.           *)
Refuse ==
  /\ \/ Comes("fsck") /\ device \in damaged
     \/ Comes("probe")
  /\ ~cancelled
  /\ damaged' = damaged \ {device}
  /\ Abort
  /\ UNCHANGED <<umount, mounts, extent, faults>>

(* A command fails, is killed half way, or is not started.                 *)
Fail ==
  /\ ops # <<>> /\ rest # <<>> /\ Head(rest) # "remove"
  /\ Abort
  /\ extent' \in {extent} \union
       IF Head(rest) = "resize" THEN {[extent EXCEPT ![Target] = "torn"]} ELSE {}
  /\ faulty' = faulty \union {device}
  /\ UNCHANGED <<umount, mounts, damaged, stuck>>

UnmountAfterSuccess ==
  /\ umount /\ rest = <<>> /\ umount' = FALSE
  /\ mounts' = IF cancelled \/ error THEN mounts ELSE [mounts EXCEPT ![fs] = Front(@)]
  /\ UNCHANGED <<inputs, place, damaged, extent, shrunk, faults, cancelled>>

(* The deferred umount takes the visible mount away.                       *)
Unmount ==
  /\ umount /\ rest = <<>> /\ umount' = FALSE
  /\ \/ ~cancelled /\ mounts' = [mounts EXCEPT ![fs] = Front(@)] /\ UNCHANGED stuck
     \/ ~cancelled /\ stuck' = stuck \union {device} /\ UNCHANGED mounts
     \/ cancelled /\ UNCHANGED <<mounts, stuck>>
  /\ UNCHANGED <<inputs, place, damaged, extent, shrunk, faulty, cancelled>>

ReturnTrue ==
  /\ ops # <<>> /\ op # "copy" /\ rest = <<>> /\ ~umount
  /\ shrunk' = IF op = "shrink" THEN [shrunk EXCEPT ![device] = "true"] ELSE shrunk
  /\ Continue(Tail(ops))
  /\ UNCHANGED <<inputs, umount, mounts, damaged, extent, faults, cancelled>>

(* The operation returns; its caller logs an error and goes on.            *)
Return ==
  /\ ops # <<>> /\ op # "copy" /\ rest = <<>> /\ ~umount
  /\ shrunk' = IF op = "shrink"
                 THEN [shrunk EXCEPT ![device] = IF error THEN "error" ELSE "true"]
                 ELSE shrunk
  /\ Continue(Tail(ops))
  /\ UNCHANGED <<inputs, umount, mounts, damaged, extent, faults, cancelled>>

Cancel ==
  /\ ~cancelled /\ cancelled' = TRUE
  /\ UNCHANGED <<inputs, place, umount, mounts, damaged, extent, shrunk, faults>>

Operation == Mount \/ Resize \/ Check \/ RemoveFiles \/ Refuse \/ Fail \/ Unmount \/ Return

Next == Begin \/ Copy \/ Operation \/ Cancel

Spec == Init /\ [][Next]_vars

-----------------------------------------------------------------------------
(* partclone never starts on a partition that a tool has left mounted, if  *)
(* its umount did not fail: a context that ends before the deferred umount *)
(* also keeps partclone from starting.  (imaging.go:305-307,411-415)       *)
CopiesUnmounted ==
  ops # <<>> /\ op = "copy" /\ ~cancelled =>
    device \in stuck \/ \A t \in Types : \A i \in 1..Len(mounts[t]) : mounts[t][i] # device

(* A resize never touches another partition than its own, although it      *)
(* names the mount point all partitions of a type share and an earlier     *)
(* one may still be mounted there.  (imaging.go:302-309,320-326)           *)
ResizesItsOwn ==
  [][\A d \in Device : extent'[d] # extent[d] => d = device]_vars

(* "Returns (true, nil) if the filesystem was shrunk", and it still is     *)
(* when the partition is copied.  (imaging.go:187-190)                     *)
ShrunkIsSmall == \A d \in Device : shrunk[d] = "true" => extent[d] = "min"

(* "(false, err) on a hard failure": without one a filesystem that can be  *)
(* shrunk is shrunk.  (imaging.go:189-190)                                 *)
OnlyHardFailures ==
  \A d \in Device : shrunk[d] = "error" => d \in faulty
=============================================================================

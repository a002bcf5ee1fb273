----------------------------- MODULE ImageCycle -----------------------------
(***************************************************************************)
(* Captures and deploys of one image, one after the other: what a deploy   *)
(* gets from the captures before it.                                       *)
(*                                                                         *)
(* An image has three parts that are written one by one: the partition     *)
(* table, the parts, and the metadata.  A capture that stops half way      *)
(* leaves those of different captures behind.  Capture and Deploy, and the *)
(* life of one task, have modules of their own; here each upload and each  *)
(* download is a step.  fog-next is external: it keeps what it receives,   *)
(* and runs no two tasks of an image at a time.  The metadata is sent with *)
(* retries, so that it may reach fog-next late and more than once, also    *)
(* when the agent has given up on it; a part is sent once.                 *)
(***************************************************************************)
EXTENDS Naturals, FiniteSets

CONSTANTS
  MaxDev,       \* bound on partition numbers
  MaxCaptures   \* bound on the captures of one behaviour

ImageCycleAssumption ==
  MaxDev \in Nat /\ MaxCaptures \in Nat \ {0}

DevNumbers == 1..MaxDev
Captures   == 1..MaxCaptures
Parts      == 0..MaxDev   \* 0 is the table
None       == 0           \* no capture

VARIABLES
  pc,       \* "idle", "capture", "meta", "complete", "captured", "deploy" or
            \* "deployed"
  part,     \* the part the running task is at
  version,  \* the captures so far
  devs,     \* capture |-> the partitions its disk had
  stored,   \* part |-> the capture it comes from
  count,    \* PartCount of the metadata
  meta,     \* the capture the metadata comes from
  sent,     \* the captures that have sent their metadata
  good,     \* the last capture, if it has sent a success, else None
  partCount, told,  \* count and meta when the running deploy got them
  disk      \* part |-> the capture whose data the target disk holds there

image  == <<stored, count, meta>>
deploy == <<partCount, told, disk>>
vars   == <<pc, part, version, devs, image, sent, good, deploy>>

TypeOK ==
  /\ pc \in {"idle", "capture", "meta", "complete", "captured", "deploy", "deployed"}
  /\ part \in 0..(MaxDev + 1) /\ version \in 0..MaxCaptures
  /\ devs \in [Captures -> SUBSET DevNumbers]
  /\ stored \in [Parts -> Captures \union {None}]
  /\ {count, partCount} \subseteq 0..MaxDev /\ sent \subseteq Captures
  /\ {meta, good, told} \subseteq Captures \union {None}
  /\ disk \in [Parts -> Captures \union {None}]

Init ==
  /\ pc = "idle" /\ part = 0 /\ version = 0
  /\ devs \in [Captures -> SUBSET DevNumbers]
  /\ stored = [p \in Parts |-> None] /\ count = 0 /\ meta = None
  /\ sent = {} /\ good = None
  /\ partCount = 0 /\ told = None /\ disk = [p \in Parts |-> None]

-----------------------------------------------------------------------------
(* A capture numbers the partitions it finds from 1, without a gap.        *)
PartCount(v) == Cardinality(devs[v])

StartCapture ==
  /\ pc \in {"idle", "captured", "deployed"} /\ version < MaxCaptures
  /\ pc' = "capture" /\ part' = 0 /\ version' = version + 1
  /\ good' = None
  /\ UNCHANGED <<devs, image, sent, deploy>>

UploadAhead ==
  /\ pc = "capture"
  /\ stored' = [stored EXCEPT ![part] = version]
  /\ part' = part + 1
  /\ pc' = IF part + 1 < PartCount(version) THEN pc ELSE "meta"
  /\ UNCHANGED <<version, devs, count, meta, sent, good, deploy>>

(* The table, then one part after the other.                               *)
Upload ==
  /\ pc = "capture"
  /\ stored' = [stored EXCEPT ![part] = version]
  /\ part' = part + 1
  /\ pc' = IF part < PartCount(version) THEN pc ELSE "meta"
  /\ UNCHANGED <<version, devs, count, meta, sent, good, deploy>>

PartAsCount ==
  /\ pc = "meta" /\ pc' = "complete"
  /\ sent' = sent \union {version}
  /\ count' = part /\ meta' = version
  /\ UNCHANGED <<part, version, devs, stored, good, deploy>>

(* SetImageMeta, whose failure is not fatal: the metadata may have reached *)
(* fog-next or not.                                                        *)
SetMeta ==
  /\ pc = "meta" /\ pc' = "complete"
  /\ sent' = sent \union {version}
  /\ \/ count' = PartCount(version) /\ meta' = version
     \/ UNCHANGED <<count, meta>>
  /\ UNCHANGED <<part, version, devs, stored, good, deploy>>

(* Complete sends the success; what becomes of it, and of the task, does   *)
(* not touch the image.                                                    *)
Complete ==
  /\ pc = "complete" /\ pc' = "captured"
  /\ good' = version
  /\ UNCHANGED <<part, version, devs, image, sent, deploy>>

(* Metadata that was on its way reaches fog-next, perhaps once more.       *)
Arrive(v) ==
  /\ v \in sent
  /\ count' = PartCount(v) /\ meta' = v
  /\ UNCHANGED <<pc, part, version, devs, stored, sent, good, deploy>>

-----------------------------------------------------------------------------
(* The handshake hands out the metadata; then the table is restored.       *)
StartDeploy ==
  /\ pc \in {"idle", "captured", "deployed"} /\ stored[0] # None
  /\ disk' = [disk EXCEPT ![0] = stored[0]]
  /\ partCount' = count /\ told' = meta
  /\ part' = 1
  /\ pc' = IF count = 0 THEN "deployed" ELSE "deploy"
  /\ UNCHANGED <<version, devs, image, sent, good>>

(* Part p goes to partition p of the table: it must have a device.         *)
Download ==
  /\ pc = "deploy" /\ stored[part] # None /\ part \in devs[disk[0]]
  /\ disk' = [disk EXCEPT ![part] = stored[part]]
  /\ part' = part + 1
  /\ pc' = IF part < partCount THEN pc ELSE "deployed"
  /\ UNCHANGED <<version, devs, image, sent, good, partCount, told>>

(* A task fails, at any point.  The disk of a deploy is left as it is, and *)
(* so is the image of a capture.                                           *)
Fail ==
  /\ pc \in {"capture", "meta", "complete", "deploy"} /\ pc' = "idle"
  /\ UNCHANGED <<part, version, devs, image, sent, good, deploy>>

Next ==
  \/ StartCapture \/ Upload \/ SetMeta \/ Complete
  \/ StartDeploy \/ Download \/ Fail
  \/ \E v \in Captures : Arrive(v)

Spec == Init /\ [][Next]_vars

-----------------------------------------------------------------------------
Holds(v) == disk[0] = v /\ \A d \in devs[v] : disk[d] = v

(* A deploy that succeeds after a successful capture whose metadata it was *)
(* given has put that capture on the disk, table and every partition of    *)
(* it, whatever captures, whole or not, and deploys came before, and       *)
(* whatever metadata arrives late: the number of a part and the number of  *)
(* a partition may differ, but then the deploy fails.                      *)
(* (actions.go:113-115, 227-230, 307-313)                                  *)
DeploysLastCapture ==
  pc = "deployed" /\ good # None /\ told = good => Holds(good)
=============================================================================

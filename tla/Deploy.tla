------------------------------- MODULE Deploy -------------------------------
(***************************************************************************)
(* The deploy action of fos-agent: restore an image to the primary disk.   *)
(*                                                                         *)
(* One behaviour is the life of one deploy task: the agent restores the    *)
(* partition table, expands its last entry for resizable images, restores  *)
(* every partition with up to three attempts, and reports a verdict.  Any  *)
(* download, subprocess or API call may fail; SIGTERM may cancel the       *)
(* context; the machine may lose power, boot again and be handed the same  *)
(* task, because fog-next has no verdict for it yet; and a verdict may     *)
(* reach fog-next at any time after it was sent, in a later boot too.      *)
(*                                                                         *)
(* The disk is abstracted to what the properties tell apart: which table   *)
(* it carries, how large each table entry is, whether each partition holds *)
(* its image, and how far its filesystem extends.                          *)
(***************************************************************************)
EXTENDS Naturals

CONSTANTS
  MaxPart,      \* bound on partition numbers
  Kinds,        \* the part streams an image may hold
  MaxCrashes    \* bound on the power losses of one behaviour

(* The streams the server can return for a partition.  "ext4" stands for   *)
(* every filesystem with a case in Expand besides NTFS, "vfat" for those   *)
(* without one; "swap" is the JSON sentinel of a swap partition; "brace"   *)
(* is any other stream whose first byte is an opening brace.               *)
AllKinds == {"ntfs", "ext4", "vfat", "swap", "brace"}

ASSUME ConstantsAssumption ==
  /\ MaxPart \in Nat
  /\ Kinds \subseteq AllKinds
  /\ MaxCrashes \in Nat

PartNumbers == 1..MaxPart
MaxAttempts == 3
Sizes == {"captured", "orig", "full"}

Responses == [parts: 0..MaxPart, resizable: BOOLEAN, fixed: SUBSET PartNumbers]

(* Part 0 of an image and its other parts: the format of the table blob,   *)
(* the partitions it describes, and the stream kind of each part.          *)
Images == [blob: {"gpt", "mbr", "legacy"},
           layout: SUBSET PartNumbers,
           kind: [PartNumbers -> Kinds]]

VARIABLES
  resp,       \* HandshakeResponse: PartCount, ImageType, FixedSizePartitions
  image,      \* the image stored by the server
  pc,         \* where Deploy stands
  part,       \* the partition loop variable
  attempt,    \* the retry loop variable
  partErr,    \* is partErr non-nil?
  table,      \* partition table on the disk: "old", "zapped" or "new"
  entry,      \* size of each entry of the restored table
  content,    \* what each partition holds: "old", "torn" or "restored"
  size,       \* extent of the filesystem in each partition
  grown,      \* partitions whose Expand returned nil in this boot
  spoiled,    \* parts torn in this boot by a failure Deploy does not see
  verdict,    \* argument of the Complete call: "none", "success", "failure"
  sent,       \* the verdict this boot has sent, "none" before
  late,       \* the verdicts earlier boots have sent
  delivered,  \* the verdict the server has recorded, "none" while open
  cancelled,  \* is the signal context done?
  crashes     \* power losses so far

handshake == <<resp, image>>
locals    == <<part, attempt, partErr>>
disk      == <<table, entry, content, size, grown, spoiled>>
server    == <<sent, late, delivered>>
report    == <<verdict, server>>
environ   == <<cancelled, crashes>>
vars == <<handshake, pc, locals, disk, report, environ>>

Labels == {"detect", "fetchTable", "restoreTable", "zapTable", "loadGPT",
           "loadMBR", "expandTable", "download", "sentinel", "restore", "grow",
           "endPart", "complete", "done"}

TypeInputs == resp \in Responses /\ image \in Images

TypeControl == /\ pc \in Labels
               /\ part \in 0..(MaxPart + 1) /\ attempt \in 0..MaxAttempts
               /\ crashes \in 0..MaxCrashes

TypeDisk == /\ table \in {"old", "zapped", "new"}
            /\ entry \in [PartNumbers -> {"orig", "full"}]
            /\ content \in [PartNumbers -> {"old", "torn", "restored"}]
            /\ size \in [PartNumbers -> Sizes]
            /\ grown \subseteq PartNumbers /\ spoiled \subseteq PartNumbers

Verdicts == {"success", "failure"}

TypeReport == /\ verdict \in Verdicts \union {"none"}
              /\ sent \in Verdicts \union {"none"} /\ late \subseteq Verdicts
              /\ delivered \in Verdicts \union {"none"}

TypeFlags == partErr \in BOOLEAN /\ cancelled \in BOOLEAN

TypeOK == TypeInputs /\ TypeControl /\ TypeDisk /\ TypeReport /\ TypeFlags

(* PartCount counts partitions while the layout numbers them, so a layout  *)
(* with a gap has a part whose device does not exist.                      *)
Init ==
  /\ resp \in Responses /\ image \in Images
  /\ pc = "detect" /\ part = 0 /\ attempt = 0 /\ partErr = FALSE
  /\ table = "old"
  /\ entry = [p \in PartNumbers |-> "orig"]
  /\ content = [p \in PartNumbers |-> "old"]
  /\ size = [p \in PartNumbers |-> "orig"]
  /\ grown = {} /\ spoiled = {}
  /\ verdict = "none" /\ sent = "none" /\ late = {} /\ delivered = "none"
  /\ cancelled = FALSE /\ crashes = 0

-----------------------------------------------------------------------------
(* reportFail sends Complete{Success: false}; every error path of Deploy   *)
(* returns through it.                                                     *)
ReportFail == /\ verdict' = "failure"
              /\ pc' = "complete"

(* disk.Primary finds a disk, or Deploy gives up.                          *)
Detect ==
  /\ pc = "detect"
  /\ \/ pc' = "fetchTable" /\ UNCHANGED verdict
     \/ ReportFail
  /\ UNCHANGED <<handshake, locals, disk, server, environ>>

(* DownloadPart(0) and readAll.  There is no retry for the table, and a    *)
(* cancelled context fails the request.                                    *)
FetchTable ==
  /\ pc = "fetchTable"
  /\ \/ ~cancelled /\ pc' = "restoreTable" /\ UNCHANGED verdict
     \/ ReportFail
  /\ UNCHANGED <<handshake, locals, disk, server, environ>>

(* partition.Restore dispatches on the blob.  A JSON blob that does not    *)
(* decode is refused before the disk is touched; a legacy blob is the raw  *)
(* sgdisk backup.                                                          *)
RestoreTable ==
  /\ pc = "restoreTable"
  /\ \/ image.blob # "legacy" /\ ReportFail
     \/ /\ pc' = IF image.blob = "mbr" THEN "loadMBR" ELSE "zapTable"
        /\ UNCHANGED verdict
  /\ UNCHANGED <<handshake, locals, disk, server, environ>>

(* sgdisk --zap-all destroys the old table; its exit status is ignored.    *)
ZapTable ==
  /\ pc = "zapTable" /\ pc' = "loadGPT"
  /\ table' \in {table, "zapped"}
  /\ UNCHANGED <<handshake, locals, entry, content, size, grown, spoiled, report,
                 environ>>

(* The tool writes every entry as it was captured, or fails.               *)
WriteTable ==
  \/ /\ pc' = "expandTable" /\ UNCHANGED verdict
     /\ table' = "new" /\ entry' = [p \in PartNumbers |-> "orig"]
  \/ ReportFail /\ UNCHANGED <<table, entry>>

(* sgdisk --load-backup.                                                   *)
LoadGPT ==
  /\ pc = "loadGPT" /\ WriteTable
  /\ UNCHANGED <<handshake, locals, content, size, grown, spoiled, server, environ>>

(* restoreMBR: the boot code and then sfdisk; nothing is zapped.           *)
LoadMBR ==
  /\ pc = "loadMBR" /\ WriteTable
  /\ UNCHANGED <<handshake, locals, content, size, grown, spoiled, server, environ>>

(* lastPartitionNumber: the highest number in the table just restored.     *)
LastPartition == {n \in image.layout : \A m \in image.layout : m <= n}

(* Head of the partition loop: the next partition, or the final verdict.   *)
StartPart(p) ==
  /\ part' = p /\ attempt' = 0 /\ partErr' = FALSE
  /\ IF p <= resp.parts THEN pc' = "download" /\ UNCHANGED verdict
                        ELSE pc' = "complete" /\ verdict' = "success"

(* ExpandLast, for resizable images only, before any content is restored.  *)
(* Its failure is not fatal.                                               *)
ExpandTable ==
  /\ pc = "expandTable"
  /\ \/ /\ resp.resizable
        /\ \E n \in LastPartition : entry' = [entry EXCEPT ![n] = "full"]
     \/ UNCHANGED entry
  /\ StartPart(1)
  /\ UNCHANGED <<handshake, table, content, size, grown, spoiled, server, environ>>

-----------------------------------------------------------------------------
RetryForEver ==
  partErr' = TRUE /\ pc' = "download" /\ attempt' = attempt + 1

RetryWithoutCounting ==
  partErr' = TRUE /\ pc' = "download" /\ UNCHANGED attempt

(* A failed attempt: sleep, and try again while the budget lasts.          *)
Retry == /\ partErr' = TRUE
         /\ attempt' = attempt + 1
         /\ pc' = IF attempt + 1 < MaxAttempts THEN "download" ELSE "endPart"

BreakKeepsError == pc' = "endPart" /\ UNCHANGED <<attempt, partErr>>

(* Leaving the retry loop with break; the error of an earlier attempt is   *)
(* cleared first.                                                          *)
Break == /\ partErr' = FALSE
         /\ pc' = "endPart"
         /\ UNCHANGED attempt

ResumeWhereItStopped == IF attempt > 0 THEN 1 ELSE 0

(* resumeOffset is declared and passed to DownloadPart, and never changes. *)
ResumeOffset == 0

(* What Deploy makes of the first byte of the stream: a JSON sentinel or   *)
(* partclone data.  Read from its start the stream tells; a stream that    *)
(* starts in the middle could begin with any byte.                         *)
Peek(offset) ==
  IF offset > 0 THEN {"sentinel", "restore"}
  ELSE IF image.kind[part] \in {"swap", "brace"} THEN {"sentinel"}
  ELSE {"restore"}

Download ==
  /\ pc = "download"
  /\ \/ Retry
     \/ /\ ~cancelled
        /\ pc' \in Peek(ResumeOffset)
        /\ UNCHANGED <<attempt, partErr>>
  /\ UNCHANGED <<handshake, part, disk, report, environ>>

(* The kernel has a device for the part: mkswap and partclone need one.    *)
HasDevice == part \in image.layout

(* The sentinel branch.  Reading the body or mkswap may fail; the error of *)
(* json.Unmarshal is dropped, so a stream that is not the swap sentinel    *)
(* leaves the loop as a success with nothing written.                      *)
Sentinel ==
  /\ pc = "sentinel"
  /\ \/ /\ Retry
        /\ \/ UNCHANGED content
           \/ /\ image.kind[part] = "swap"
              /\ content' = [content EXCEPT ![part] = "torn"]
        /\ UNCHANGED size
     \/ /\ image.kind[part] = "swap" /\ HasDevice
        /\ content' = [content EXCEPT ![part] = "restored"]
        /\ size' = [size EXCEPT ![part] = entry[part]]
        /\ Break
     \/ /\ image.kind[part] # "swap"
        /\ Break
        /\ UNCHANGED <<content, size>>
  /\ UNCHANGED <<handshake, part, table, entry, grown, spoiled, report, environ>>

(* imaging.Restore: partclone.restore fed from the body.  A failed run, or *)
(* one cut short by a broken body, is retried and may leave the partition  *)
(* torn.  The patched partclone also quits half way with status 0, when it *)
(* cannot open its status file; exec does not mind that it stopped reading *)
(* either, so Restore returns nil over a torn partition.                   *)
Restore ==
  /\ pc = "restore"
  /\ \/ /\ Retry
        /\ content' \in {content, [content EXCEPT ![part] = "torn"]}
        /\ UNCHANGED <<size, spoiled>>
     \/ /\ ~cancelled /\ HasDevice
        /\ \/ content' = [content EXCEPT ![part] = "restored"] /\ UNCHANGED spoiled
           \/ /\ content' = [content EXCEPT ![part] = "torn"]
              /\ spoiled' = spoiled \union {part}
        /\ size' = [size EXCEPT ![part] = "captured"]
        /\ pc' = "grow"
        /\ UNCHANGED <<attempt, partErr>>
  /\ UNCHANGED <<handshake, part, table, entry, grown, report, environ>>

(* The filesystem types Expand acts on.                                    *)
CanExpand(fs) == fs \in {"ntfs", "ext4"}

(* After a restore: detect the filesystem again (blkid may fail and yield  *)
(* "dd"), clear the NTFS dirty bit, expand.  None of it is fatal, neither  *)
(* a resize tool killed half way because the context ended nor one that    *)
(* fails half way by itself.                                               *)
Grow ==
  /\ pc = "grow"
  /\ \E restoredFS \in {image.kind[part], "dd"} :
       LET expand == /\ resp.resizable /\ part \notin resp.fixed
                     /\ CanExpand(restoredFS)
       IN  \/ /\ expand /\ ~cancelled
              /\ size' = [size EXCEPT ![part] = entry[part]]
              /\ grown' = grown \union {part}
              /\ UNCHANGED <<content, spoiled>>
           \/ /\ expand
              /\ content' = [content EXCEPT ![part] = "torn"]
              /\ spoiled' = IF cancelled THEN spoiled ELSE spoiled \union {part}
              /\ UNCHANGED <<size, grown>>
           \/ UNCHANGED <<content, size, grown, spoiled>>
  /\ Break
  /\ UNCHANGED <<handshake, part, table, entry, report, environ>>

EndPartSkipsFailures ==
  /\ pc = "endPart"
  /\ StartPart(part + 1)
  /\ UNCHANGED <<handshake, disk, server, environ>>

EndPartExpandsTable ==
  /\ pc = "endPart"
  /\ IF partErr THEN ReportFail /\ UNCHANGED locals
                ELSE StartPart(part + 1)
  /\ \E n \in LastPartition :
       entry' = IF part = resp.parts THEN [entry EXCEPT ![n] = "full"] ELSE entry
  /\ UNCHANGED <<handshake, table, content, size, grown, spoiled, server, environ>>

(* After the retry loop.                                                   *)
EndPart ==
  /\ pc = "endPart"
  /\ IF partErr THEN ReportFail /\ UNCHANGED locals
                ELSE StartPart(part + 1)
  /\ UNCHANGED <<handshake, disk, server, environ>>

(* client.Complete retries up to five times.  Whether it returns an error  *)
(* or not, a request it has sent may be performed; none is sent when the   *)
(* context was done before the call or the server cannot be reached.       *)
Complete ==
  /\ pc = "complete"
  /\ \/ ~cancelled /\ sent' = verdict
     \/ UNCHANGED sent
  /\ pc' = "done"
  /\ UNCHANGED <<handshake, locals, disk, verdict, late, delivered, environ>>

-----------------------------------------------------------------------------
(* SIGTERM or SIGINT ends the signal context.                              *)
Cancel ==
  /\ pc # "done" /\ ~cancelled
  /\ cancelled' = TRUE
  /\ UNCHANGED <<handshake, pc, locals, disk, report, crashes>>

(* fog-next records a verdict, of this boot or of an earlier one; a second *)
(* one may replace the first.                                              *)
Arrive ==
  /\ delivered' \in late \union ({sent} \ {"none"})
  /\ UNCHANGED <<handshake, pc, locals, disk, verdict, sent, late, environ>>

(* Power loss, or a reboot by hand while no verdict has arrived: the       *)
(* machine network-boots and is handed the task again.                     *)
Crash ==
  /\ delivered = "none" /\ crashes < MaxCrashes
  /\ crashes' = crashes + 1
  /\ pc' = "detect" /\ part' = 0 /\ attempt' = 0 /\ partErr' = FALSE
  /\ grown' = {} /\ spoiled' = {} /\ cancelled' = FALSE
  /\ verdict' = "none" /\ sent' = "none"
  /\ late' = late \union ({sent} \ {"none"})
  /\ UNCHANGED <<handshake, table, entry, content, size, delivered>>

Step == \/ Detect \/ FetchTable \/ RestoreTable \/ ZapTable \/ LoadGPT
        \/ LoadMBR \/ ExpandTable \/ Download \/ Sentinel \/ Restore \/ Grow
        \/ EndPart \/ Complete

Next == Step \/ Cancel \/ Arrive \/ Crash

Spec == Init /\ [][Next]_vars

(* Every subprocess exits, every stream ends or breaks, the agent's own    *)
(* steps are taken: nothing is assumed about signals and power.            *)
FairSpec == Spec /\ WF_vars(Step)

-----------------------------------------------------------------------------
(* A part that is neither partclone data nor the swap sentinel: Deploy      *)
(* passes over it without writing anything.                                *)
Skipped(p) == image.kind[p] = "brace"

(* The goal of the task: the image's table is on the disk and every part   *)
(* the handshake announced is on its partition.  What Deploy cannot know   *)
(* or does not regard is not part of the goal: a partclone that quit early *)
(* with status 0 and a resize that failed half way by itself, both of this *)
(* boot.  A part torn in any other way is no excuse.                       *)
Whole == /\ table = "new"
         /\ \A p \in 1..resp.parts :
              content[p] = "restored" \/ Skipped(p) \/ p \in spoiled

(* A success is sent only over a whole disk, which stays whole as long as  *)
(* the boot lasts: no torn or stale partition survives the retries, a      *)
(* resize killed by a signal, or a power loss in an earlier boot.          *)
(* (Deploy, actions.go:113-199)                                            *)
DeployedWhole == sent = "success" => Whole

(* A filesystem that Expand reported as grown reaches the end of its       *)
(* partition: the table entry is never enlarged after the filesystem was.  *)
(* (the order argued for in actions.go:104-106)                            *)
GrownFillsEntry ==
  verdict = "success" => \A p \in grown : size[p] = entry[p]

(* The server is told that a partition failed only after the whole budget  *)
(* of attempts: an attempt that recovers wipes out the error of the ones   *)
(* before.  (actions.go:119-193, "restore failed after 3 attempts")        *)
FailureIsExhausted ==
  verdict = "failure" /\ part > 0 => attempt = MaxAttempts

(* Deploy ends: no combination of failures keeps it retrying for ever.     *)
Terminates == <>[](pc = "done")

(* Deploy keeps the promise of ImagingTask: a success is sent only while   *)
(* the disk is whole, the disk is left alone from then to the next boot,   *)
(* and there is a next boot only while no verdict has arrived, though one  *)
(* may be under way.                                                       *)
Task == INSTANCE ImagingTask WITH
          goal <- Whole,
          working <- pc # "done",
          sent <- late \union ({sent} \ {"none"}),
          outcome <- IF delivered = "none" THEN "open" ELSE delivered
ImplementsTask == Task!Spec

(* "FixedSizePartitions lists partition numbers that must NOT be resized   *)
(* during deploy" (client.go:77-80): the table keeps their entries.        *)
FixedEntriesKept ==
  \A p \in resp.fixed : entry[p] = "orig"

(* "'{' means this is a JSON metadata sentinel, not raw partclone data"    *)
(* (actions.go:128-129): so a success leaves no announced part unwritten.  *)
EveryPartRestored ==
  sent = "success" =>
    \A p \in (1..resp.parts) \ spoiled : content[p] = "restored"
=============================================================================

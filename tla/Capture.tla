------------------------------ MODULE Capture ------------------------------
(***************************************************************************)
(* The capture action of fos-agent: clone every partition of the primary   *)
(* disk to fog-next.                                                       *)
(*                                                                         *)
(* For each partition two goroutines meet at an io.Pipe: Clone runs        *)
(* partclone and writes its output to the pipe, the main goroutine sits in *)
(* UploadPart while net/http's transport reads the pipe.  Either side may  *)
(* fail first; afterwards main collects Clone's error from errCh.          *)
(*                                                                         *)
(* partclone's output is counted in blocks.  net/http and fog-next are     *)
(* external: the transport closes the request body whatever happens, maybe *)
(* after UploadPart has returned, and the server may answer before it has  *)
(* read the body to its end.  The verdict may reach the server at any time *)
(* after it was sent, in a later boot too.                                 *)
(***************************************************************************)
EXTENDS Naturals, Sequences

CONSTANTS
  MaxDev,      \* bound on partition numbers
  Kinds,       \* what a partition may hold
  Blocks,      \* blocks of a complete partclone stream
  MaxCrashes   \* bound on the power losses of one behaviour

AllKinds == {"ntfs", "ext4", "vfat", "swap", "bitlocker"}

ASSUME CaptureAssumption ==
  /\ MaxDev \in Nat /\ Kinds \subseteq AllKinds
  /\ Blocks \in Nat \ {0} /\ MaxCrashes \in Nat

DevNumbers == 1..MaxDev

(* What DiscoverPartitions may return: the numbers of the partitions that  *)
(* have a device, in increasing order.                                     *)
DeviceLists ==
  {list \in UNION {[1..n -> DevNumbers] : n \in 0..MaxDev} :
     \A i, j \in DOMAIN list : i < j => list[i] < list[j]}

VARIABLES
  devs,        \* the partitions of the disk, a list of DeviceLists
  vol,         \* what each of them holds
  resizable,   \* ImageType of the handshake
  shrunk,      \* partitions whose filesystem Shrink has reduced
  pc,          \* where Capture stands
  part,        \* partNum of the loop
  fs,          \* detectFilesystem's answer for it
  fixed,       \* fixedSizePartitions
  clone,       \* Clone's goroutine: "off", "run", "exited" or "closed"
  exit,        \* what Clone returned: "none", "ok" or "fail"
  blocks,      \* blocks the transport has read from the pipe
  pipe,        \* "open", "eof" or "broken" (by Clone), "closed" (by the reader)
  errCh,       \* the channel: "empty", "ok" or "fail"
  stored,      \* per part, the server's copy: one of Copies
  carried,     \* parts whose upload and clone have both succeeded in this boot
  meta,        \* has this run sent its image metadata?
  verdict,     \* argument of Complete: "none", "success", "failure"
  sent,        \* the verdict this boot has sent, "none" before
  late,        \* the verdicts earlier boots have sent
  delivered,   \* the verdict the server has recorded, "none" while open
  cancelled,   \* is the signal context done?
  crashes      \* power losses so far

source  == <<devs, vol, resizable>>
locals  == <<part, fs, fixed>>
cloner  == <<clone, exit, blocks, pipe, errCh>>
server  == <<sent, late, delivered>>
report  == <<verdict, server>>
environ == <<cancelled, crashes>>
vars == <<source, shrunk, pc, locals, cloner, stored, carried, meta, report,
          environ>>

Labels == {"detect", "backup", "sendTable", "inspect", "sentinel", "shrink",
           "clone", "upload", "join", "meta", "complete", "done"}

(* The server's copy of a part: none, left half by an upload that failed,  *)
(* taken from a body the server did not read, cut short by a partclone     *)
(* that quit with status 0, cut short by a clone that failed, or whole.    *)
Copies == {"none", "torn", "early", "quit", "short", "whole"}

(* What detectFilesystem returns.                                          *)
Detected == {"ntfs", "ext4", "vfat", "swap", "BitLocker", "dd"}

TypeInputs == /\ devs \in DeviceLists /\ vol \in [DevNumbers -> Kinds]
              /\ resizable \in BOOLEAN

TypeControl == /\ pc \in Labels /\ part \in 0..(MaxDev + 1)
               /\ fs \in Detected /\ fixed \subseteq DevNumbers
               /\ crashes \in 0..MaxCrashes

TypeCloner == /\ clone \in {"off", "run", "exited", "closed"}
              /\ exit \in {"none", "ok", "fail"} /\ blocks \in 0..Blocks
              /\ pipe \in {"open", "eof", "broken", "closed"}
              /\ errCh \in {"empty", "ok", "fail"}

TypeImage == /\ shrunk \subseteq DevNumbers /\ carried \subseteq DevNumbers
             /\ stored \in [DevNumbers -> Copies]

Verdicts == {"success", "failure"}

TypeReport == /\ meta \in BOOLEAN /\ cancelled \in BOOLEAN
              /\ verdict \in Verdicts \union {"none"}
              /\ sent \in Verdicts \union {"none"} /\ late \subseteq Verdicts
              /\ delivered \in Verdicts \union {"none"}

TypeOK == TypeInputs /\ TypeControl /\ TypeCloner /\ TypeImage /\ TypeReport

Init ==
  /\ devs \in DeviceLists /\ vol \in [DevNumbers -> Kinds]
  /\ resizable \in BOOLEAN /\ shrunk = {}
  /\ pc = "detect" /\ part = 0 /\ fs = "dd" /\ fixed = {}
  /\ clone = "off" /\ exit = "none" /\ blocks = 0 /\ pipe = "open"
  /\ errCh = "empty"
  /\ stored = [p \in DevNumbers |-> "none"]
  /\ carried = {} /\ meta = FALSE
  /\ verdict = "none" /\ sent = "none" /\ late = {} /\ delivered = "none"
  /\ cancelled = FALSE /\ crashes = 0

-----------------------------------------------------------------------------
(* Capture numbers the parts by their place in the list.                   *)
PartCount == Len(devs)
Device(p) == devs[p]

ReportFail == /\ verdict' = "failure"
              /\ pc' = "complete"

(* disk.Primary and partition.Backup, which only read the disk.            *)
Detect ==
  /\ pc = "detect"
  /\ \/ pc' = "backup" /\ UNCHANGED verdict
     \/ ReportFail
  /\ UNCHANGED <<source, shrunk, locals, cloner, stored, carried, meta,
                 server, environ>>

Backup ==
  /\ pc = "backup"
  /\ \/ pc' = "sendTable" /\ UNCHANGED verdict
     \/ ReportFail
  /\ UNCHANGED <<source, shrunk, locals, cloner, stored, carried, meta,
                 server, environ>>

(* Head of the partition loop.                                             *)
StartPart(p) ==
  /\ part' = p
  /\ pc' = IF p <= PartCount THEN "inspect" ELSE "meta"

(* UploadPart of part 0, and DiscoverPartitions.                           *)
SendTable ==
  /\ pc = "sendTable"
  /\ \/ ~cancelled /\ StartPart(1) /\ UNCHANGED verdict
     \/ ReportFail /\ UNCHANGED part
  /\ UNCHANGED <<source, shrunk, fs, fixed, cloner, stored, carried, meta,
                 server, environ>>

(* What blkid prints for a volume.                                         *)
BlkidType(kind) == IF kind = "bitlocker" THEN "BitLocker" ELSE kind
IsBitlockerEncrypted(kind) == kind = "bitlocker"

(* detectFilesystem ("dd" when blkid fails), the BitLocker check, and the  *)
(* choice between the sentinel, shrinking and cloning.                     *)
Inspect ==
  /\ pc = "inspect"
  /\ fs' \in {BlkidType(vol[Device(part)]), "dd"}
  /\ IF fs' = "ntfs" /\ IsBitlockerEncrypted(vol[Device(part)])
       THEN ReportFail
       ELSE /\ pc' = IF fs' = "swap" THEN "sentinel"
                     ELSE IF resizable THEN "shrink" ELSE "clone"
            /\ UNCHANGED verdict
  /\ UNCHANGED <<source, shrunk, part, fixed, cloner, stored, carried, meta,
                 server, environ>>

(* A swap partition is not cloned: its UUID is uploaded instead.           *)
Sentinel ==
  /\ pc = "sentinel"
  /\ \/ /\ ~cancelled
        /\ \E copy \in {"whole", "early"} : stored' = [stored EXCEPT ![part] = copy]
        /\ carried' = carried \union {part}
        /\ StartPart(part + 1)
        /\ UNCHANGED verdict
     \/ /\ stored' \in {stored, [stored EXCEPT ![part] = "torn"]}
        /\ ReportFail
        /\ UNCHANGED <<part, carried>>
  /\ UNCHANGED <<source, shrunk, fs, fixed, cloner, meta, server, environ>>

CanShrink == fs \in {"ntfs", "ext4"}

ShrinkForgetsFailure ==
  /\ pc = "shrink"
  /\ pc' = "clone"
  /\ shrunk' \in {shrunk, shrunk \union {Device(part)}}
  /\ fixed' = IF CanShrink THEN fixed ELSE fixed \union {part}
  /\ UNCHANGED <<source, part, fs, cloner, stored, carried, meta, report,
                 environ>>

ShrinkCountsTwice ==
  /\ pc = "shrink"
  /\ pc' = "clone"
  /\ fixed' = fixed \union {part + 1}
  /\ UNCHANGED <<source, shrunk, part, fs, cloner, stored, carried, meta,
                 report, environ>>

(* Resizable images: shrink what can be shrunk, list the rest as fixed.  A *)
(* tool that fails may have shrunk the filesystem first.                   *)
Shrink ==
  /\ pc = "shrink"
  /\ pc' = "clone"
  /\ \/ /\ CanShrink /\ ~cancelled
        /\ shrunk' = shrunk \union {Device(part)}
        /\ UNCHANGED fixed
     \/ /\ fixed' = fixed \union {part}
        /\ shrunk' \in {shrunk} \union
             {IF CanShrink THEN shrunk \union {Device(part)} ELSE shrunk}
  /\ UNCHANGED <<source, part, fs, cloner, stored, carried, meta, report,
                 environ>>

(* The pipe, the channel and the goroutine; the upload replaces the        *)
(* server's copy of the part.                                              *)
StartClone ==
  /\ pc = "clone"
  /\ pc' = "upload"
  /\ clone' = "run" /\ exit' = "none" /\ blocks' = 0
  /\ pipe' = "open" /\ errCh' = "empty"
  /\ UNCHANGED <<source, shrunk, locals, stored, carried, meta, report, environ>>

-----------------------------------------------------------------------------
(* partclone writes, the transport reads: io.Pipe has no buffer.  The      *)
(* transport may go on reading for a while after UploadPart has returned.  *)
Transfer ==
  /\ clone = "run" /\ pipe = "open" /\ blocks < Blocks
  /\ blocks' = blocks + 1
  /\ UNCHANGED <<source, shrunk, pc, locals, clone, exit, pipe, errCh, stored,
                 carried, meta, report, environ>>

(* Clone returns: nil when partclone exits with 0 and all of its output    *)
(* was copied, an error when it cannot start, fails, is killed by the end  *)
(* of the context, or writes to a closed pipe.  The patched partclone also *)
(* quits with 0 half way, when it cannot open its status file.             *)
CloneReturns ==
  /\ clone = "run"
  /\ clone' = "exited"
  /\ exit' \in {"ok", "fail"}
  /\ UNCHANGED <<source, shrunk, pc, locals, blocks, pipe, errCh, stored,
                 carried, meta, report, environ>>

PlainClose ==
  /\ clone = "exited"
  /\ clone' = "closed"
  /\ pipe' = IF pipe # "open" THEN pipe ELSE "eof"
  /\ UNCHANGED <<source, shrunk, pc, locals, exit, blocks, errCh, stored,
                 carried, meta, report, environ>>

(* pw.CloseWithError(err): the reader sees EOF, or the error.              *)
ClosePipe ==
  /\ clone = "exited"
  /\ clone' = "closed"
  /\ pipe' = IF pipe # "open" THEN pipe
             ELSE IF exit = "ok" THEN "eof" ELSE "broken"
  /\ UNCHANGED <<source, shrunk, pc, locals, exit, blocks, errCh, stored,
                 carried, meta, report, environ>>

(* errCh <- err: the channel has room for it even when nobody receives.    *)
SendErr ==
  /\ clone = "closed"
  /\ clone' = "off" /\ errCh' = exit
  /\ UNCHANGED <<source, shrunk, pc, locals, exit, blocks, pipe, stored,
                 carried, meta, report, environ>>

BodyWithoutCloser == FALSE

(* UploadPart is handed the read end as an io.ReadCloser, which net/http   *)
(* closes when it will not read it any more, before or after UploadPart    *)
(* has returned.                                                           *)
CloseReader ==
  /\ pipe = "open" /\ pc # "done" /\ clone # "off"
  /\ pipe' = "closed"
  /\ UNCHANGED <<source, shrunk, pc, locals, clone, exit, blocks, errCh, stored,
                 carried, meta, report, environ>>

-----------------------------------------------------------------------------
(* What a body that has ended in EOF leaves on the server, which cannot    *)
(* tell a stream cut short from a whole one unless the transport aborted.  *)
CopyAtEOF == IF exit # "ok" THEN "short"
             ELSE IF blocks = Blocks THEN "whole"
             ELSE "quit"

(* UploadPart returns nil: the server read the body to its end.            *)
UploadEnds ==
  /\ pc = "upload" /\ pipe = "eof" /\ ~cancelled
  /\ stored' = [stored EXCEPT ![part] = CopyAtEOF]
  /\ pc' = "join"
  /\ UNCHANGED <<source, shrunk, locals, cloner, carried, meta, report, environ>>

(* External: a server that answers 200 before the end of the body.         *)
UploadAnsweredEarly ==
  /\ pc = "upload" /\ ~cancelled
  /\ stored' = [stored EXCEPT ![part] = "early"]
  /\ pc' = "join"
  /\ UNCHANGED <<source, shrunk, locals, cloner, carried, meta, report, environ>>

UploadErrorIgnored ==
  /\ pc = "upload"
  /\ stored' \in {stored, [stored EXCEPT ![part] = "torn"]}
  /\ pc' = "join"
  /\ UNCHANGED <<source, shrunk, locals, cloner, carried, meta, report, environ>>

(* UploadPart returns an error: a refused or broken request, the end of    *)
(* the context, or the pipe's error.  Clone's goroutine is left behind.    *)
UploadFails ==
  /\ pc = "upload"
  /\ stored' \in {stored, [stored EXCEPT ![part] = "torn"]}
  /\ ReportFail
  /\ UNCHANGED <<source, shrunk, locals, cloner, carried, meta, server, environ>>

JoinIgnoresError ==
  /\ pc = "join" /\ errCh # "empty"
  /\ errCh' = "empty"
  /\ StartPart(part + 1)
  /\ carried' = IF errCh = "ok" THEN carried \union {part} ELSE carried
  /\ UNCHANGED <<source, shrunk, fs, fixed, clone, exit, blocks, pipe, stored,
                 meta, report, environ>>

(* <-errCh                                                                 *)
Join ==
  /\ pc = "join" /\ errCh # "empty"
  /\ errCh' = "empty"
  /\ \/ /\ errCh = "ok"
        /\ carried' = carried \union {part}
        /\ StartPart(part + 1)
        /\ UNCHANGED verdict
     \/ /\ errCh = "fail"
        /\ ReportFail
        /\ UNCHANGED <<part, carried>>
  /\ UNCHANGED <<source, shrunk, fs, fixed, clone, exit, blocks, pipe, stored,
                 meta, server, environ>>

-----------------------------------------------------------------------------
(* SetImageMeta: its failure is not fatal, and the request may have left   *)
(* all the same.                                                           *)
SetMeta ==
  /\ pc = "meta"
  /\ \/ ~cancelled /\ meta' = TRUE
     \/ UNCHANGED meta
  /\ verdict' = "success" /\ pc' = "complete"
  /\ UNCHANGED <<source, shrunk, locals, cloner, stored, carried, server,
                 environ>>

(* client.Complete, as in Deploy: a request it has sent may be performed   *)
(* whatever the call returns.                                              *)
Complete ==
  /\ pc = "complete"
  /\ \/ ~cancelled /\ sent' = verdict
     \/ UNCHANGED sent
  /\ pc' = "done"
  /\ UNCHANGED <<source, shrunk, locals, cloner, stored, carried, meta, verdict,
                 late, delivered, environ>>

(* fog-next records a verdict, of this boot or of an earlier one; a second *)
(* one may replace the first.                                              *)
Arrive ==
  /\ delivered' \in late \union ({sent} \ {"none"})
  /\ UNCHANGED <<source, shrunk, pc, locals, cloner, stored, carried, meta,
                 verdict, sent, late, environ>>

Cancel ==
  /\ pc # "done" /\ ~cancelled
  /\ cancelled' = TRUE
  /\ UNCHANGED <<source, shrunk, pc, locals, cloner, stored, carried, meta,
                 report, crashes>>

(* Power loss, or a reboot by hand while the task is open.                 *)
Crash ==
  /\ delivered = "none" /\ crashes < MaxCrashes
  /\ crashes' = crashes + 1
  /\ pc' = "detect" /\ part' = 0 /\ fs' = "dd" /\ fixed' = {}
  /\ clone' = "off" /\ exit' = "none" /\ blocks' = 0 /\ pipe' = "open"
  /\ errCh' = "empty" /\ carried' = {} /\ meta' = FALSE
  /\ verdict' = "none" /\ sent' = "none" /\ cancelled' = FALSE
  /\ late' = late \union ({sent} \ {"none"})
  /\ UNCHANGED <<source, shrunk, stored, delivered>>

Main == \/ Detect \/ Backup \/ SendTable \/ Inspect \/ Sentinel \/ Shrink
        \/ StartClone \/ UploadEnds \/ UploadAnsweredEarly \/ UploadFails
        \/ Join \/ SetMeta \/ Complete

(* The goroutine and the pipe live as long as the process.                 *)
Background == pc # "done" /\ (Transfer \/ CloneReturns \/ ClosePipe
                             \/ SendErr \/ CloseReader)

Next == Main \/ Background \/ Cancel \/ Arrive \/ Crash

Spec == Init /\ [][Next]_vars

(* What must happen.  Main takes its own steps, and a request whose body   *)
(* has ended, was closed or belongs to a cancelled context is answered or  *)
(* breaks.  During an upload the transport reads; partclone exits once it  *)
(* has written everything or its output is closed.  A clone whose output   *)
(* is open and not read may sit there for ever, cancelled or not: only     *)
(* net/http, which closes every request body, frees it.                    *)
Finish == Detect \/ Backup \/ SendTable \/ Inspect \/ Sentinel \/ Shrink
          \/ StartClone \/ Join \/ SetMeta \/ Complete
          \/ ((pipe # "open" \/ cancelled)
                /\ (UploadEnds \/ UploadAnsweredEarly \/ UploadFails))
Goroutines == /\ pc # "done"
              /\ \/ pc = "upload" /\ Transfer
                 \/ (blocks = Blocks \/ pipe = "closed") /\ CloneReturns
                 \/ ClosePipe \/ SendErr
FairSpec == /\ Spec
            /\ WF_vars(Finish)
            /\ WF_vars(Goroutines)
            /\ WF_vars(pc # "upload" /\ CloseReader)

-----------------------------------------------------------------------------
(* The goal of the task: every partition was cloned and uploaded in this   *)
(* boot, and the server's copy of it is what partclone wrote.  A body the  *)
(* server did not read, and a partclone that quit half way with status 0,  *)
(* are beyond what Capture can know.                                       *)
Uploaded(p) == p \in carried /\ stored[p] \in {"whole", "quit", "early"}
Whole == \A p \in 1..PartCount : Uploaded(p)

(* A success is sent only when every partition has reached the server,     *)
(* whichever of the two goroutines noticed a failure first.                *)
(* (actions.go:283-297)                                                    *)
CapturedWhole == sent = "success" => Whole

(* The server never takes for complete a part whose clone failed: it sees  *)
(* the stream as an aborted body.  (actions.go:287)                        *)
TruncationVisible == \A p \in DevNumbers : stored[p] # "short"

(* In a resizable capture every cloned part that could not be shrunk is on *)
(* the list of fixed parts: Deploy expands only what is not on it.         *)
(* (actions.go:252-272)                                                    *)
UnlistedWereShrunk ==
  verdict = "success" /\ resizable =>
    \A p \in 1..PartCount :
      p \notin fixed => Device(p) \in shrunk \/ vol[Device(p)] = "swap"

(* Capture ends: neither goroutine waits for the other for ever.           *)
Terminates == <>[](pc = "done")

(* Capture keeps the promise of ImagingTask: a success is sent only while  *)
(* the image is whole, and it is left alone from then to the next boot.    *)
Task == INSTANCE ImagingTask WITH
          goal <- Whole,
          working <- pc # "done",
          sent <- late \union ({sent} \ {"none"}),
          outcome <- IF delivered = "none" THEN "open" ELSE delivered
ImplementsTask == Task!Spec

(* "Abort if Bitlocker encryption is detected - cloning an encrypted       *)
(* volume produces an unusable image" (actions.go:233-234).                *)
NoBitlockerCaptured ==
  sent = "success" => \A p \in carried : ~IsBitlockerEncrypted(vol[Device(p)])

(* "FixedSizePartitions lists partition numbers (1-based)"                 *)
(* (client.go:77): what Capture reports names partitions of the disk.      *)
FixedNamesPartitions ==
  meta /\ sent = "success" =>
    \A p \in fixed : \E i \in 1..PartCount : Device(i) = p
=============================================================================

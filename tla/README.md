# fos-next in TLA+

fos-next is the initramfs that images machines for FOG: a machine network-boots,
`fos-agent` asks the fog-next server what to do, and restores an image to the
primary disk (deploy), captures the disk into an image (capture), wipes it,
registers the machine or drops to a shell. This directory models the agent.
What goes wrong in such a program seldom shows in a unit test: a partition that
fails on the second attempt, a machine that loses power between two steps, two
goroutines that fail in the wrong order at the two ends of a pipe, a request
that arrives after its timeout. The models let TLC try all of it on small
instances, and TLAPS proves the main results for every instance.

Source paths below are relative to `agent/` of the repository.

## 1. Inventory

| Component | Source | State | Operations | Hard behaviour |
|---|---|---|---|---|
| Deploy | `internal/actions/actions.go:73-200`, `internal/partition`, `internal/imaging` (Restore, Expand) | the disk; loop variables `part`, `attempt`, `partErr` | fetch and restore the table, expand its last entry, restore each part (≤ 3 attempts), report | partial failure, retries, power loss and re-issue, SIGTERM |
| Capture | `actions.go:206-321`, `imaging.go` (Clone, Shrink) | the pipe, `errCh`, fixed-size list, the server's parts | back up the table, shrink, clone and upload each partition, report metadata and verdict | two goroutines, early answers, truncated streams |
| Boot API calls | `internal/api/client.go:214-261` | attempt, backoff | Handshake, Register, ReportProgress, SetImageMeta, Complete | late requests, duplicates, cancellation |
| Streaming calls | `client.go:166-208` | none (no timeout, no retry) | DownloadPart, UploadPart | part of Deploy and Capture |
| Log forwarding | `internal/api/loghandler.go` | bounded buffer under a mutex | Handle, SetClient, flush | several writers, a slow server, overflow, exit |
| Filesystem tools | `imaging.go:175-422` (CleanNTFS, Shrink, Expand) | mount points shared by all partitions of a type; filesystem extents | scripts of mount, fsck, resize, deferred umount | a tool that fails half way, an ignored umount, the end of the context |
| Progress polling | `imaging.go:28-122`, `actions.go:364-376`, the partclone patch | `/tmp/status.fog`, one goroutine per partclone run | Restore and Clone's start and end, pollStatus, readStatus | goroutines that outlive their run, one file for all runs |
| Capture and deploy of one image | `actions.go:73-321` | the image on the server: table, parts, metadata | capture, deploy, one after the other | captures that stop half way, metadata that arrives late or never |
| Agent lifecycle | `cmd/fos-agent/main.go`, `actions.go:23-67,327-352` | boot token, action, context | parse, network, handshake, override, Dispatch, Register, Wipe, Debug, halt | lost answers, exit paths, the next boot |
| Network | `internal/netup`, `main.go:52-73,140-148` | interfaces, their addresses and MACs | ListNICs, BringUp, reorder | one DHCP client per interface, a deadline, interfaces that come and go or share a MAC |
| Disk selection | `internal/disk` | none | List, Primary, DiscoverPartitions, PartitionDevice, parseSize | rounding, ties, new numbers in every boot |
| Command line | `internal/cmdline` | none | ParseString | repeated and bare keys |
| Inventory, version | `internal/{inventory,version}` | none | Collect | a part that cannot be read |
| Image build | `build.sh`, `buildroot/`, `Makefile`, `vm-test.sh` | none at run time | – | – |

How they interact. `main` calls `Handshake`, gives the client to the log handler
and dispatches on the action. Deploy and Capture drive the disk through
subprocesses, move image data through the streaming client, and tell the server
the outcome with one `Complete` call, which is a retried API call. A poller
goroutine per partclone run turns the status file into `ReportProgress` calls.
Every goroutine logs through the same handler, whose background goroutine sends
batches. One signal context ends all of it.

What makes each correct: a success is sent only when it is true (Deploy,
Capture), whatever happened before it, earlier boots included; an API
call that returns nil has been performed, and every call returns; the log buffer
keeps the newest records in order and never blocks a writer; Capture's list of
fixed-size partitions covers whatever Deploy must not expand; a tool changes the
partition it is meant for; a deploy restores one capture and not a mixture of
two; a machine is switched off only when fog-next knows it; every boot works on
the same disk.

## 2. Modules

| Module | Contents |
|---|---|
| `ImagingTask` | abstract: what one verdict about a task means |
| `Deploy`, `DeployProofs`, `MCDeploy` | the deploy action |
| `Capture`, `CaptureProofs`, `MCCapture` | the capture action with Clone's goroutine and the pipe |
| `RemoteCall` | abstract: what one API call promises |
| `ApiCall`, `ApiCallProofs` | `Client.post` |
| `LogChannel` | abstract: a channel that loses and delays messages |
| `LogForward`, `LogForwardProofs` | the remote log handler |
| `FsTools`, `FsToolsProofs` | CleanNTFS, Shrink and Expand around partclone, partition after partition |
| `Progress` | consecutive partclone runs and their pollers |
| `ImageCycle` | captures and deploys of one image |
| `Agent`, `AgentProofs` | the host from boot to exit, boot after boot |
| `Network` | BringUp and the list of MAC addresses |
| `DiskSelect` | List and Primary, boot after boot |
| `Cmdline` | ParseString |
| `MCImaging`, `ImagingProofs` | FsTools, Progress and ImageCycle side by side |
| `MCBoot`, `BootProofs` | Agent, Network, DiskSelect and Cmdline side by side |

Operators whose name says what goes wrong (`RetryForEver`, `PlainClose`,
`UnmountAfterSuccess`, ...) are not part of any specification. They are wrong versions
of the definition that follows them, and each shows that a property notices:
with it in place of the right one, TLC finds the property violated.

### ImagingTask

`goal` is whether the disk (or the image) is what the task asked for, `working`
whether an agent is at it, `sent` the verdicts that have left a machine, `outcome`
what the server knows. While an agent works, anything may happen to the goal. A
success is sent only while the goal holds; then the agent stops, and the goal is
left alone until the task is handed out again, which needs a server that still
holds it open. The server learns only what was sent, at any time after that: a
success that is delayed past a power loss may arrive while the next boot is
already writing, which no agent can prevent. So the promise is about what holds
when the verdict is sent. Deploy implements it with "the table is new and every
announced part is on its partition", Capture with "every partition was cloned in
this boot and the server has what partclone wrote".

### Deploy

State: `table`, `entry`, `content`, `size` describe the disk (the table's
identity, the size of each entry, whether a partition holds its image, how far
its filesystem extends); `part`, `attempt`, `partErr` are the loop variables;
`pc` names the next call. There is one action per call of the handler that can
fail or that changes the disk, so that a crash or a signal can fall between any
two: `Detect`, `FetchTable`, `RestoreTable` (dispatch on the blob), `ZapTable`,
`LoadGPT`, `LoadMBR`, `ExpandTable`, `Download`, `Sentinel`, `Restore`, `Grow`,
`EndPart`, `Complete`. `StartPart`, `Retry` and `Break` are the loop control they
share. `Cancel` is SIGTERM or SIGINT; `Crash` is a power loss, after which the
machine boots again and the open task is handed out again with the same
parameters.

Details that matter to the properties:

* `Complete` may send its request whatever it returns, as ApiCall has it, and
  sends none when the context is done. `sent` is the verdict of this boot, `late`
  those of earlier boots, and `Arrive` delivers one of them (`delivered`) at any
  time. A resize tool killed by SIGTERM, which Deploy treats as non-fatal, cannot
  lead to a success over a damaged filesystem: the context is done by then.
* Two failures are invisible to Deploy: partclone is patched to quit with status 0
  when it cannot open its status file, so that `Restore` takes a torn partition
  for a restored one, and a resize that fails half way without a signal is
  logged and forgotten (`Grow`). Deploy then sends a success over a partition
  that does not work. `spoiled` is the set of parts this has happened to in this
  boot; `DeployedWhole` spares these parts, by name, and no others.
* `resumeOffset` exists in the code and is always 0; `ResumeOffset` keeps it as a
  definition, because the correctness of `Peek` depends on it.
* The parts are counted (`PartCount`) while the table numbers its partitions. The
  model does not assume that the two agree: a part without a device fails.

Assumed of the outside: mkswap, sgdisk, sfdisk and the resize tools exit with 0
only when they did what they were asked; nothing uses the target disk, so the
kernel re-reads the table (the code ignores partprobe's exit status).

### Capture

`clone`, `exit`, `blocks`, `pipe`, `errCh` are Clone's goroutine and what it
shares with main; `carried` are the parts whose upload and clone have both
succeeded in this boot. `stored` is the server's copy of each part: none, "torn"
(an upload that failed), "early" (a body the server did not read to its end),
"short" (an end of file after a clone that failed), "quit" (the same after a
partclone that quit with status 0) or "whole". `Transfer` is the rendezvous
of the unbuffered pipe. `CloneReturns` may happen at any time and with any
result: partclone fails, is killed, cannot start, or quits half way with 0.
Clone's end is three steps, as in the code: `Clone`
returns, the pipe is closed with the error, the error is sent to the channel.
main may leave `UploadPart` at any point of that: because the body ended
(`UploadEnds`), because the server answered early (`UploadAnsweredEarly`), or
with an error (`UploadFails`), which leaves the goroutine behind.

`devs` is the list `DiscoverPartitions` returns; a part is a place in it.

`UploadPart` passes the read end on as an io.ReadCloser (`client.go:188-194`), so
that net/http closes the body of a request it gives up, perhaps after
`UploadPart` has returned (`CloseReader`). That alone frees a clone nobody reads
from. The server may answer 200 before it has read everything. It distinguishes an
aborted body from a complete one, but not a complete one from one cut short that
ends without an error. `TruncationVisible` says that no failed clone ends so. After
a partclone that quits with 0 the body does end so, and Capture reports success;
`CapturedWhole` spares "quit" and "early" by name, and demands of every part that
both its clone and its upload succeeded. The verdict is sent and arrives as in
Deploy. A shrink tool that fails may have shrunk the filesystem.

### ApiCall

One call of `post`. Requests of earlier attempts stay on the wire after their
timeout, so the server may perform the operation late and more than once.
`Fail` is the loop control shared by the three ways an attempt can fail.
`wantsReply` is whether the caller decodes a body (only Handshake does).

### LogForward

Records are numbered in the order of `Handle` calls. `Log` is Handle up to the
lock, `AppendRecord` the locked part, `Take` the locked part of flush, `Post` and
`Return` the request. `history` and `taken` are history variables: all records
appended, and those that left in a batch. `LogChannel` is what the handler
promises both sides: `written` is `history`, `stored` what the server has. A
message is a run of records as they were written, at most a batch long; messages
may be missing, late and out of order, but none has a gap, and no record arrives
twice. AppendRecord is its Write, Arrive its Deliver, the rest is invisible.
`drainLoop` waits for one request before it takes the next batch; a request that
timed out may still arrive. `WithAttrs` and `WithGroup` are not modelled, nothing
calls them.

### FsTools

`device` is the partition the task is at, `ops` what is still to be done with it
(a capture cleans, shrinks and copies, a deploy copies and expands), `rest` the
commands of the operation in progress. `Run` is the successful start of a
command, `Fail` the command that fails, is killed half way or is not started
because the context is done, `Refuse` the two commands whose exit status the code
takes for a failure although nothing is wrong. `mounts` is a stack per filesystem
type, because all partitions of a type share one mount point: `Target` is what is
visible there. `Unmount` is the deferred umount with its three ends, of which the
code ignores two. Deploy and Capture see these tools as one step each; FsTools
has the commands, but not the attempts and verdicts of the handlers.
`NtfsFixDirty` changes nothing the properties tell apart and is left out.

### Progress

`run` counts partclone runs, `proc` and `copied` are partclone, `file` is the
status file, tagged with the run that wrote it. `poller[r]` is the goroutine of
run r: `Tick` and `LastRead` are the two arms of its select, `Return` the end of
the report, which may take all the retries of an API call. `Close` closes `done`
and does not wait. `Verdict` and `Exit` are main's way out, which may come while
Capture has left a Clone behind. `QuitOnStatus` is the patch of partclone that
exits with 0 when it cannot open the file.

### ImageCycle

Each upload and each download is one step; `stored`, `count` and `meta` are the
image as fog-next keeps it, each part tagged with the capture it comes from.
`SetMeta` may fail, as the code allows, and `Complete` after it. The metadata is
sent with retries: `sent` are the captures whose metadata may still arrive, or
arrive again (`Arrive`), over that of a later capture too. A part is sent once,
and the model assumes that the server does not store it after the upload has
failed. `partCount` and `told` are what the handshake gave the running deploy.
`good` is history: the last capture, if it has sent a success. `DeploysLastCapture`
speaks of the deploys that were given that capture's metadata; one that was given
older metadata restores as many parts as that counts, and nothing in the code
notices.

### Agent

`fogServer` and `fogAction` are the command line, `pc` the next call of main or of
the handler it dispatches to, `end` how the boot ended. `Post` are the ends of
`Client.post` (`client.go:214-261`): whether a request left the machine, whether it
was performed before the call returned, and whether the call returned nil. What
was sent stays in `pending` and is performed at any later time, or again
(`Arrive`). `Work` is a whole Deploy, Capture or Wipe; what its verdict is worth is
the subject of their modules. `Override` is `fog_action`, which replaces the action
but not the task ID; the run has values that name tasks. A verdict without a
task ID (`Report`) means nothing to the server. `PowerOff` may fail, and so may the
exec of the shell (`Debug`). `Reboot` is whoever restarts the machine, at any time.

The host as a whole does not implement ImagingTask, and no run says so: a
`fog_action=wipe` on an open deploy task completes the deploy.

### Network, DiskSelect, Cmdline

`Network`: BringUp's `Spawn`, its loop (`Poll`, `TimeOut`), main's second listing
and `reorder` (`Collect`); DHCP clients and leases are external and may come and
go at any time. An interface is a number, its place in the order of names; `mac`
gives each its MAC, which two of them may share (a bond, a VLAN). `Listings` is the
one list os.ReadDir makes of a set of interfaces, `listed` the second one of main,
and `macs` what the handshake sends. `PrimaryLeads` relates the two: every listed
interface has a place of its own in `macs`, with its MAC there, and the primary MAC
is in front if a listed interface has it. `DiskSelect`: the units
are those of parseSize, K to P; `ParsedSize` is what it makes of the one decimal
lsblk prints, `Before` the comparison of sort.Slice, `Primary` any disk that no
other is before; `Reboot` numbers the disks anew. `Cmdline` reads one
token per step.

### MCImaging and MCBoot

The components of these two share no variable. The variable `component` says
which one a behaviour exercises; the others stay in one of their initial states.
So every behaviour of each component is explored, with all its constants, but
the state spaces add up instead of multiplying. MCImaging extends FsTools and
MCBoot extends Agent; the other components are instances. What is stated of one
component holds trivially in the behaviours of the others. Every behaviour of
the whole is a behaviour of each component, which is what `ImagingProofs` and
`BootProofs` rest on.

## 3. Runs

| Run | Question | Bounds |
|---|---|---|
| `deploy_verdict` | Is a success sent only over a whole disk, is a failure reported only after three attempts, do grown filesystems fill their entries, does Deploy implement ImagingTask and end? | 2 parts, 3 kinds of stream, 1 power loss |
| `deploy_fixed_entry` | (violated) is the entry of a fixed-size partition left alone? | 2 parts |
| `deploy_brace_stream` | (violated) does a success leave no part unwritten? | 2 parts |
| `capture_verdict` | Is a success sent only when every partition has reached the server, does no truncated stream look complete, is the fixed-size list complete, does Capture implement ImagingTask, do its two goroutines never wait for each other for ever? | 2 partitions, 3 filesystems, streams of 1 block, 1 power loss |
| `capture_bitlocker` | (violated) is a BitLocker volume refused? | 1 partition |
| `capture_numbers` | (violated) does the fixed-size list name partitions? | 3 partition numbers |
| `api_call` | What does the result of a call mean, how long may it pause, does it return, does it implement RemoteCall? | the code's 5 attempts |
| `log_buffer` | Does the buffer keep the newest records in order, drop only on overflow, implement LogChannel, drain although the server is silent, and never block Handle? | 2 goroutines, capacity 3, batches of 2, 5 records |
| `imaging` | Does a tool touch its own partition only, is nothing copied while mounted, does a poller report its own run and end, does a deploy restore the last capture although metadata arrives late? | FsTools: 3 partitions, all 6 types; Progress: 2 runs of 2 units; ImageCycle: 3 partition numbers, 2 captures |
| `boot` | Is a machine switched off only when known, does BringUp end, does the handshake name every interface's MAC, the primary first, is the chosen disk unique, nearly the largest and the same in every boot, which token decides? | Agent: 3 boots, 3 servers, 5 values of `fog_action`; Network: 3 interfaces, 3 MACs, 2 polls; DiskSelect: 3 disks, 6 sizes, 3 numbers, 2 boots; Cmdline: 4 tokens |
| `fs_ntfs_dry_run` | (violated) is a volume shrunk unless a tool fails hard? | 1 NTFS partition |
| `agent_inventory_panic` | (violated) does a partial inventory leave the agent alive? | 1 boot |

Why the bounds suffice. Two parts are enough for what relates a part to the one
before or after it; the loop variable is the only thing that links them. One
power loss is enough to start from every disk a boot can leave behind, since no
other state survives a boot. One block lets a stream be empty and complete, and
be cut short before and after it. Five records with capacity three and batches of
two give an overflow before, during and after a flush, and a full and a partial
batch. The retry limits (3 and 5) are the code's own. Three partitions let a
filesystem stay mounted, another be mounted over it and a third come after both.
Two partclone runs are one that outlives its end and one that follows. Two
captures are one that is overwritten and one that overwrites; three partition
numbers give a gap. Three boots are one that loses an answer, one that acts on it
and one after the verdict. Three interfaces with three MACs may all differ, all be
alike, or two of them share one; two polls are one that finds nothing and the last. The sizes lie on both sides of lsblk's units, with a
base of 32 in place of 1024: 31 has no unit; 1023 is printed as 32.0 of the
smaller unit and 1075 as 1.0 of the larger, which parseSize reads as 1024 both. The
numbers 2 and 10 order differently as text.
Four tokens give a key two values with something between.

Runs turn deadlock checking off: the agent exits when its action is over, and a
behaviour of the model ends there.

Fairness. `Deploy!FairSpec` and `Capture!FairSpec` assume that the agent's own
steps are taken: a subprocess exits, a download or upload ends or breaks, a timer
fires. The streaming client has no timeout, so this includes that a server does
not stall a connection for ever without closing it. Nothing is assumed of
signals and power. Capture's two goroutines need care, since each may wait for
the other. Main's own steps are taken (`Finish`), an upload's end among them only
once its body has ended, been closed, or the context is done. Of the other side,
partclone ends once it has written everything or its output is closed, its blocks
are read during an upload, and Clone takes its own steps (`Goroutines`). After the
upload net/http closes the body it was given (`CloseReader`). Nothing makes a clone
end whose open pipe nobody reads: if UploadPart were not handed an
io.ReadCloser, main would wait in `Join` for ever, and TLC finds that.
`ApiCall!FairSpec` assumes only the client's timers.
`LogForward!FairSpec` assumes only that the goroutines that log are scheduled, so
`HandleReturns` holds although the sender may hang; `Drains` adds `FairFlush` as
a hypothesis: the ticker ticks, and the client's 30 s timeout ends each request.
`Network!Fairness` assumes the loop's timer and the deadline, nothing of the DHCP
clients. `Progress!Fairness` assumes that partclone ends, that a report returns
(`Returns` of ApiCall), and strong fairness of `LastRead`: Go's select chooses at
random among the ready cases, so it does not pass over a closed `done` for ever.

## 4. Where the code and its documentation disagree

* **Fixed-size last partition** (`deploy_fixed_entry`). `client.go:77-80`: fixed
  partitions "must NOT be resized during deploy". `ExpandLast` enlarges the last
  table entry of every resizable image (`actions.go:107`).
* **Unknown sentinel** (`deploy_brace_stream`). A part whose stream starts with
  `{` but does not parse, or has another type than swap, is skipped and counts as
  restored (`actions.go:134-156`).
* **BitLocker** (`capture_bitlocker`). The check asks for `fs == "ntfs"` first;
  blkid calls such a volume "BitLocker" (`actions.go:235`, `imaging.go:375-378`).
* **Partition numbers** (`capture_numbers`). Capture numbers parts by their place
  in the list of existing devices (`actions.go:228-229`), Deploy takes the same
  numbers for partition numbers (`actions.go:114`, `disk.go:86`).
* **NTFS dry run** (`fs_ntfs_dry_run`). `ntfsresize -fns <device>` takes the device
  for the size that `-s` asks for and fails, for every volume; `imaging.go:189-190`
  promises an error only "on a hard failure" (`imaging.go:231`).
* **Partial inventory** (`agent_inventory_panic`). `Collect` returns nil with its
  error; Register logs a "partial inventory" and dereferences nil
  (`actions.go:47-54`).

The models contain other behaviours that no document excludes, so that no run
calls them wrong:

* partclone quits with status 0 when it cannot open the status file
  (`partclone-0.3.47.patch:35-39`, `QuitOnStatus`). `Restore` takes the torn partition
  for restored, `Clone` gives the pipe a clean end of file, and either action sends
  a success (`spoiled` in Deploy, "quit" in Capture);
* a resize that fails half way without a signal leaves a damaged filesystem, and
  Deploy goes on to success (`Grow`);
* a verdict that arrives after its machine has booted again closes the task while
  the new boot is at work (`Arrive`), and a later one may replace it;
* a success whose metadata never arrived, or arrives after that of a later capture
  (`SetMeta`, `Arrive` in ImageCycle);
* a final reading of the status that is lost to the next run's removal of the file;
* equal sizes in lsblk's rounding: two boots may choose different disks
  (`SameDiskAgain` says when);
* `fog_action=wipe` on an open deploy task, which completes the deploy.

## 5. Proofs

Eight modules hold the proofs. Each assumes only the named assumption of its
component, so the results hold for every instance, while the runs check small
ones:

* `ConstantsAssumption`, `CaptureAssumption`, `CallAssumption`, `LogAssumption`
  (Deploy, Capture, ApiCall, LogForward): bounds are natural numbers, limits and
  capacities at least one;
* `ImagingAssumption` (MCImaging), which is `ToolsAssumption`,
  `ProgressAssumption` and `ImageCycleAssumption`: the same, and filesystem types
  among those the code knows;
* `BootAssumption` (MCBoot), which is `AgentAssumption`, `NetworkAssumption`
  (finitely many interfaces, numbered), `DiskSelectAssumption` (units that grow
  by a factor of ten at least, sizes below an exbibyte, device numbers of one or two digits)
  and `CmdlineAssumption` (the fields are among the keys).

TLC evaluates every one of them. FsToolsProofs and AgentProofs take theirs as a
hypothesis of each theorem, which ImagingProofs and BootProofs discharge.

| Theorem | What it says |
|---|---|
| `DeployProofs!TypeCorrect`, `VerdictMeans`, `Implementation` | types; DeployedWhole, FailureIsExhausted, GrownFillsEntry; Deploy implements ImagingTask |
| `CaptureProofs!TypeCorrect`, `VerdictMeans`, `Implementation` | types; CapturedWhole, TruncationVisible, UnlistedWereShrunk; Capture implements ImagingTask |
| `ApiCallProofs!TypeCorrect`, `ResultMeans`, `Implementation` | types; OkMeansPerformed, PausesBounded; ApiCall implements RemoteCall |
| `LogForwardProofs!TypeCorrect`, `HandlerPromises`, `Implementation` | types; BufferIsNewest, OnlyOverflowDrops, StoredOnce; LogForward implements LogChannel |
| `FsToolsProofs!TypeCorrect`, `ResizeIsOwn`, `CopyIsSound` | types; ResizesItsOwn; ShrunkIsSmall and CopiesUnmounted |
| `ImagingProofs!ImagingTyped`, `StatusIsOwn`, `LastCaptureDeployed` | ImagingTypes; OwnStatus; DeploysLastCapture |
| `AgentProofs!TypeCorrect`, `OffIsKnown` | types; OffMeansRegistered |
| `BootProofs!BootTyped`, `PrimaryIsFirst`, `LastTokenDecides` | BootTypes; PrimaryLeads; LastTokenWins |
| `BootProofs!PrimaryIsUnique`, `PrimaryIsLarge`, `DiskIsStable` | OnePrimary; NearlyLargest; SameDiskAgain |

So every invariant that a passing run checks, and every refinement, is proved for
all values of the constants.

Few of the invariants are inductive by themselves. What each needs:

* **Deploy.** `TypeOK` needs `LoopBounds` (the attempt counter would leave its
  range if an attempt could start with the budget spent). The verdict needs
  `IInv`: where the loop stands (`LoopPosition`), that an error leaves the loop
  only with the budget spent (`Exhausted`), that the parts behind the loop
  variable are written or spoiled (`WrittenSoFar`), that grown filesystems lie
  behind it (`GrownSoFar`), and that the verdict leaves last (`Sending`).
  `WrittenSoFar` says nothing once the context is done: a resize killed by a
  signal does break it, and the proof goes through because `Complete` sends nothing
  then, and because what was sent before stays true until the next boot.
* **Capture.** `Goroutine` ties the four things Clone leaves behind: EOF on the
  pipe only after an exit that was ok, and a channel that holds this exit and no
  older one. `TruncationVisible` follows from it. `CarriedSoFar` and `ListedSoFar`
  say that the parts behind the loop variable were uploaded and are either listed,
  shrunk or swap; while main waits for the clone's error, the part's upload has
  already ended well.
* **ApiCall.** `OneFate`: a request is on the wire or performed, never both, and
  none was made for an attempt that has not begun, so an answer belongs to the
  attempt it arrives in. `PauseOfAttempt` and `PausesAddUp` give the bound of 30
  seconds. The refinement counts `performed` and needs it to be finite.
* **LogForward.** `DroppedOrTaken` speaks of positions in the history, which
  makes `OnlyOverflowDrops` inductive; `Fresh`, `TakenApart`, `BatchIsNew` and
  `WireApart` follow a record from Handle to the server and keep it in one place
  at a time, which gives `StoredOnce`. `Messages`: what is about to leave or on the
  wire is a run of the history without a gap, because it was cut from a buffer
  that is the end of the history (`BufferIsNewest`), and stays one, because the
  history only grows at its end. With it each arrival is a Deliver of LogChannel.
* **FsTools.** `OwnMount`: while an umount is to come, the visible mount of the
  type is the partition's own, so that a resize by mount point hits it.
  `MountsKnown`: until the context ends, what is mounted is that, or something a
  umount failed for. `ShrinkScript` and `ShrunkEarlier` say that a shrink ends with
  its resize and is followed by the copy alone, so that nothing resizes what was
  reported as shrunk.
* **Progress.** `FileOfThisRun`: the file holds the status of the current run or
  none; `ActiveOrStopped`: of the runs before, each has been told to stop. Both
  rest on the order in which Restore and Clone remove the file, start partclone
  and start the goroutine.
* **ImageCycle.** `Capturing`: a capture has replaced the table and every part up
  to the one it is at. `WholeImage`: after a success all parts are of that
  capture. `Counted`: the count a deploy was given is that of the capture its
  metadata comes from, however late that arrived. `Deploying`: what has been
  restored is what the server has, and each part has a partition in the restored
  table. That a capture with gaps in its numbering cannot be deployed in part
  follows by counting: k partitions whose numbers include 1..k have no others
  (`PartsArePartitions`).
* **Network.** `PrimaryLeads` needs little beside the types: a listing is a
  sequence of interfaces (`ListingFacts`), and a swap of two places is a
  rearrangement that brings the MAC to the front (`ReorderFacts`, where `place` of
  `Rearranges` is the permutation; `LeastNatural` gives the first place that holds
  the MAC). `LeadsKept` disposes of the steps that do not touch the list.
* **DiskSelect.** `DiskInv`: what was chosen, in this boot or the last, parses as
  the largest (`Largest`), however the disks are numbered. The rest is arithmetic:
  `HardlyLarger` bounds what lsblk and parseSize round off, `PrintedAlike` gets the
  printed size back from the parsed one. `BeforeOrders` shows the comparison of
  sort.Slice to be a strict order (`Rank` orders the names as texts), and
  `FrontExists` that somebody comes out in front, by the well-foundedness of
  strict inclusion.
* **Cmdline.** `LastTokenWins` is inductive with the types.
* **Side by side.** `StepOfEach`: a step of the whole is a step of one component
  and a stutter of the others, so that the whole implements each (`SpecOfEach`)
  and has the invariants of all.
* **Agent.** `OffInv`: on the way to power-off the host is registered, because a
  call that returns nil was performed; a late registration only adds to that.

The two refinements of ImagingTask have one argument: every step of the agent is
Work until it sends its verdict; `Complete` is Send, with the goal by the invariant,
or GiveUp if no request left; after it the handler is done and nothing it owns
moves, so that only Arrive and the next boot, which is HandOut, remain.

What proving showed. `NearlyLargest` used to allow for a tenth of the chosen
disk's unit. The proof failed for a disk just below a unit: rounding makes
it equal to one a little above, whose tenth is much larger, so that of 1023.96 G
(printed 1024G) and 1.04 T (printed 1T) either may be chosen. The property now speaks of the larger disk's unit, and
the run has sizes that show the difference. `Listed` used to sort by a recursive
operator; `Listings` says what the result is, which is all the code relies on.

Only model-checked: liveness (`Terminates`, `Returns`, `Drains`, `HandleReturns`,
`Settles`, `PollersStop`), since TLAPS does not reason about fairness and ENABLED.
The six violations are TLC counterexamples.

## 6. Plan and limits

Done: all parts of the agent that keep state or talk to something that may fail.
What would come next: FsTools' commands inside Deploy's attempts, which
multiplies two state spaces that TLC only just finishes apart; the step
properties behind liveness (what each loop counts down), which TLAPS could prove
although it cannot conclude termination from them.

Not modelled, and why:

* the values the inventory reads and formats, the texts of progress and log
  lines, and the version strings: pure formatting, nothing depends on it;
* `WithAttrs` and `WithGroup` of the log handler, `disk.SysfsSize` and the
  parameter `fog_host`: nothing uses them;
* the kernel's refusal to re-read a partition table (partprobe's exit status is
  ignored), and a server that stalls a stream for ever: the code has no answer to
  either, so nothing could be stated but the hazard;
* the build scripts, `vm-test.sh` and the Buildroot configuration: they have no
  run-time state;
* what partclone, parted, sgdisk, udhcpc, net/http and fog-next do inside: they
  are external, modelled by how the code uses them.

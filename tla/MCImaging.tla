----------------------------- MODULE MCImaging -----------------------------
(***************************************************************************)
(* What Deploy and Capture rest on, side by side: the filesystem tools     *)
(* (FsTools), the progress of partclone (Progress), and the image that     *)
(* captures leave for deploys (ImageCycle).  The three share no variable,  *)
(* so that a behaviour exercises one of them and leaves the others in one  *)
(* of their initial states: the state spaces add up.                       *)
(***************************************************************************)
EXTENDS FsTools

CONSTANTS
  Runs, Full,          \* Progress
  MaxDev, MaxCaptures  \* ImageCycle

VARIABLES
  component,  \* the one this behaviour exercises
  main, run, proc, copied, file, stop, poller, report, result,
  pc, part, version, devs, stored, count, meta, sent, good, partCount, told, disk

Bar   == INSTANCE Progress
Cycle == INSTANCE ImageCycle

ASSUME ImagingAssumption ==
  ToolsAssumption /\ Bar!ProgressAssumption /\ Cycle!ImageCycleAssumption

barVars   == <<main, run, proc, copied, file, stop, poller, report, result>>
cycleVars == <<pc, part, version, devs, stored, count, meta, sent, good, partCount,
               told, disk>>
imagingVars == <<component, vars, barVars, cycleVars>>

(* One initial state of each, for the behaviours of the others.            *)
ToolsRest == /\ Init /\ task = "deploy" /\ damaged = {}
             /\ type = [d \in 1..Devices |-> CHOOSE t \in Types : TRUE]
CycleRests == Cycle!Init /\ devs = [c \in 1..MaxCaptures |-> {}]

ImagingInit ==
  \/ component = "tools"    /\ Bar!Init /\ CycleRests /\ Init
  \/ component = "progress" /\ ToolsRest /\ CycleRests /\ Bar!Init
  \/ component = "cycle"    /\ ToolsRest /\ Bar!Init /\ Cycle!Init

ImagingNext ==
  \/ component = "tools" /\ Next /\ UNCHANGED <<component, barVars, cycleVars>>
  \/ component = "progress" /\ Bar!Next /\ UNCHANGED <<component, vars, cycleVars>>
  \/ component = "cycle" /\ Cycle!Next /\ UNCHANGED <<component, vars, barVars>>

ImagingSpec == ImagingInit /\ [][ImagingNext]_imagingVars

-----------------------------------------------------------------------------
(* The properties are those of the three modules, where they are           *)
(* explained; those of FsTools keep their names.                           *)

(* Every variable of the three components keeps its type.                  *)
ImagingTypes == TypeOK /\ Bar!TypeOK /\ Cycle!TypeOK

(* See Progress: no goroutine reports another run before its own is over.  *)
OwnStatus == Bar!OwnStatus

(* See Progress: every goroutine ends, when the program's goroutines run.  *)
PollersStop == component = "progress" /\ Bar!Fairness => Bar!PollersStop

(* See ImageCycle: a deploy restores the last capture and no other.        *)
DeploysLastCapture == Cycle!DeploysLastCapture
=============================================================================

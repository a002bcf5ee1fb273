------------------------------ MODULE Progress ------------------------------
(***************************************************************************)
(* Progress of consecutive partclone runs.  Each run has a goroutine,      *)
(* pollStatus, that reads the one status file partclone writes and passes  *)
(* what it reads to the server and to the display of the run.              *)
(*                                                                         *)
(* The goroutine is told to stop, not waited for: one that sits in a slow  *)
(* request is still there when the file is removed for the next run, when  *)
(* that run writes it again, and when the process exits.                   *)
(***************************************************************************)
EXTENDS Naturals

CONSTANTS
  Runs,   \* number of partclone runs: one per partition and attempt
  Full    \* the status "100%"

ProgressAssumption == Runs \in Nat \ {0} /\ Full \in Nat \ {0}

Run == 1..Runs
Status == [run : Run, pct : 0..Full]
NoStatus == [run |-> 0, pct |-> 0]

VARIABLES
  main,     \* "idle", "ready", "wait" (for partclone), "returned", "over" or "exited"
  run,      \* the current run, 0 before the first
  proc,     \* partclone: "off", "running", "ok" or "failed"
  copied,   \* what partclone has done of the current run
  file,     \* /tmp/status.fog
  stop,     \* runs whose done channel is closed
  poller,   \* run |-> "none", "poll", "tell", "last" (its last call) or "gone"
  report,   \* run |-> the status its goroutine is passing on
  result    \* run |-> "none", "ok" or "error": what Restore or Clone returned

partclone == <<proc, copied>>
goroutine == <<poller, report>>
vars == <<main, run, partclone, file, stop, goroutine, result>>

TypeOK ==
  /\ main \in {"idle", "ready", "wait", "returned", "over", "exited"}
  /\ run \in 0..Runs /\ proc \in {"off", "running", "ok", "failed"}
  /\ copied \in 0..Full /\ file \in Status \union {NoStatus}
  /\ stop \subseteq Run
  /\ poller \in [Run -> {"none", "poll", "tell", "last", "gone"}]
  /\ report \in [Run -> Status \union {NoStatus}]
  /\ result \in [Run -> {"none", "ok", "error"}]

Init ==
  /\ main = "idle" /\ run = 0
  /\ proc = "off" /\ copied = 0 /\ file = NoStatus
  /\ stop = {}
  /\ poller = [r \in Run |-> "none"] /\ report = [r \in Run |-> NoStatus]
  /\ result = [r \in Run |-> "none"]

-----------------------------------------------------------------------------
PrepareKeepsFile ==
  /\ main = "idle" /\ run < Runs
  /\ run' = run + 1 /\ copied' = 0 /\ main' = "ready"
  /\ UNCHANGED <<proc, file, stop, goroutine, result>>

(* Restore or Clone is called: the status of the last run is removed.      *)
Prepare ==
  /\ main = "idle" /\ run < Runs
  /\ run' = run + 1 /\ copied' = 0 /\ main' = "ready"
  /\ file' = NoStatus
  /\ UNCHANGED <<proc, stop, goroutine, result>>

(* cmd.Start and the goroutine; a start that fails starts neither.         *)
Start ==
  /\ main = "ready"
  /\ \/ /\ proc' = "running" /\ main' = "wait"
        /\ poller' = [poller EXCEPT ![run] = "poll"]
        /\ UNCHANGED result
     \/ /\ result' = [result EXCEPT ![run] = "error"] /\ main' = "returned"
        /\ UNCHANGED <<proc, poller>>
  /\ UNCHANGED <<run, copied, file, stop, report>>

CloseOnSuccess ==
  /\ main # "exited" /\ proc \in {"ok", "failed"}
  /\ proc' = "off" /\ main' = IF main = "wait" THEN "returned" ELSE main
  /\ stop' = IF proc = "ok" THEN stop \union {run} ELSE stop
  /\ result' = [result EXCEPT ![run] = IF proc = "ok" THEN "ok" ELSE "error"]
  /\ UNCHANGED <<run, copied, file, goroutine>>

(* cmd.Wait returns: done is closed, the exit status becomes the result.   *)
Close ==
  /\ main # "exited" /\ proc \in {"ok", "failed"}
  /\ proc' = "off" /\ main' = IF main = "wait" THEN "returned" ELSE main
  /\ stop' = stop \union {run}
  /\ result' = [result EXCEPT ![run] = IF proc = "ok" THEN "ok" ELSE "error"]
  /\ UNCHANGED <<run, copied, file, goroutine>>

(* The display of the part is ended, and the next run may follow.          *)
Done ==
  /\ main = "returned" /\ main' = "idle"
  /\ UNCHANGED <<run, partclone, file, stop, goroutine, result>>

(* The verdict goes out after a run, or while one is going on: Capture     *)
(* gives the task up when an upload fails, and leaves Clone behind.        *)
Verdict ==
  /\ main \in {"idle", "wait"} /\ run > 0 /\ main' = "over"
  /\ UNCHANGED <<run, partclone, file, stop, goroutine, result>>

-----------------------------------------------------------------------------
(* partclone runs; what it does after the process has exited reaches       *)
(* nobody.                                                                 *)
Running == proc = "running" /\ main # "exited"

(* partclone makes progress and writes it into the file.                   *)
WriteStatus(pct) ==
  /\ Running /\ pct >= copied
  /\ copied' = pct
  /\ file' = [run |-> run, pct |-> pct]
  /\ UNCHANGED <<main, run, proc, stop, goroutine, result>>

(* partclone ends: with everything copied, or with an error.               *)
Finish ==
  /\ Running
  /\ \/ proc' = "ok" /\ copied = Full
     \/ proc' = "failed"
  /\ UNCHANGED <<main, run, copied, file, stop, goroutine, result>>

(* The file cannot be opened: the patch says so and calls exit(0).         *)
QuitOnStatus ==
  /\ Running
  /\ proc' = "ok"
  /\ UNCHANGED <<main, run, copied, file, stop, goroutine, result>>

-----------------------------------------------------------------------------
(* readStatus: a status in the file is passed to the progress function,    *)
(* which redraws the display and posts a report; no status, no call.       *)
ReadStatus(r, calling, otherwise) ==
  /\ IF file = NoStatus
       THEN poller' = [poller EXCEPT ![r] = otherwise] /\ UNCHANGED report
       ELSE /\ poller' = [poller EXCEPT ![r] = calling]
            /\ report' = [report EXCEPT ![r] = file]
  /\ UNCHANGED <<main, run, partclone, file, stop, result>>

(* The ticker fires; select may prefer it to a done that is closed.        *)
Tick(r) == poller[r] = "poll" /\ ReadStatus(r, "tell", "poll")

(* done is closed: one last read.                                          *)
LastRead(r) == poller[r] = "poll" /\ r \in stop /\ ReadStatus(r, "last", "gone")

(* The report returns: answered, or given up after its retries.            *)
Return(r) ==
  /\ poller[r] \in {"tell", "last"}
  /\ poller' = [poller EXCEPT ![r] = IF @ = "tell" THEN "poll" ELSE "gone"]
  /\ UNCHANGED <<main, run, partclone, file, stop, report, result>>

(* The process exits; nobody waits for the goroutines.                     *)
Exit ==
  /\ main = "over" /\ main' = "exited"
  /\ poller' = [r \in Run |-> "gone"]
  /\ UNCHANGED <<run, partclone, file, stop, report, result>>

Main == Prepare \/ Start \/ Close \/ Done \/ Verdict \/ Exit
Partclone == (\E pct \in 0..Full : WriteStatus(pct)) \/ Finish \/ QuitOnStatus
Poll(r) == Tick(r) \/ LastRead(r) \/ Return(r)

Next == Main \/ Partclone \/ \E r \in Run : Poll(r)

Spec == Init /\ [][Next]_vars

(* The program's goroutines run.  select chooses at random between a tick  *)
(* and a closed done, so it does not overlook done for ever.  partclone    *)
(* ends: it is killed with the context, or its stream ends or breaks.      *)
Fairness ==
  /\ WF_vars(Prepare \/ Start \/ Close \/ Done)
  /\ WF_vars(Finish \/ QuitOnStatus)
  /\ \A r \in Run : SF_vars(LastRead(r)) /\ WF_vars(Return(r))

-----------------------------------------------------------------------------
(* A goroutine never passes on the status of a run before its own, and     *)
(* until its run has ended that of no later run either: the file is        *)
(* removed before a run, whose goroutine starts when the writer of the     *)
(* last one has ended.  (imaging.go:39-49,60-70)                           *)
OwnStatus ==
  \A r \in Run : report[r] # NoStatus =>
    report[r].run >= r /\ (r \notin stop => report[r].run = r)

(* Every goroutine ends once its run has, failed runs included: no run     *)
(* leaves one behind that goes on reporting.  (imaging.go:46-52,79-95)     *)
PollersStop ==
  \A r \in Run : (result[r] # "none") ~> (poller[r] \in {"none", "gone"})
=============================================================================

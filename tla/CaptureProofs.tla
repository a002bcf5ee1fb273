---------------------------- MODULE CaptureProofs ----------------------------
(***************************************************************************)
(* Capture, proved for every disk, stream length and number of power       *)
(* losses: type correctness, what Clone's goroutine hands to main, the     *)
(* meaning of the verdict, the fixed-size list, and the implementation of  *)
(* ImagingTask.                                                            *)
(***************************************************************************)
EXTENDS Capture, TLAPS

BeforeLoop == {"detect", "backup", "sendTable"}
InLoop     == {"inspect", "sentinel", "shrink", "clone", "upload", "join"}

(* The loop variable names a partition of the list, no verdict exists      *)
(* before it is decided, and it leaves in the end.                         *)
LoopPosition ==
  /\ pc \in BeforeLoop => part = 0
  /\ pc \in InLoop => part \in 1..PartCount
  /\ pc \notin {"complete", "done"} => verdict = "none"
  /\ pc = "complete" => verdict \in Verdicts
  /\ sent # "none" => pc = "done" /\ sent = verdict

(* A goroutine that is past Clone has something to send.                   *)
HasExited == clone \in {"exited", "closed"} => exit # "none"

TypeInv == TypeOK /\ LoopPosition /\ HasExited

(* The goroutine and what it leaves behind: a pipe ends in EOF only after  *)
(* a clone that did not fail, and the channel holds its outcome.           *)
Goroutine ==
  /\ clone = "run" => exit = "none"
  /\ clone \in {"run", "exited"} => pipe \in {"open", "closed"}
  /\ pipe = "eof" => exit = "ok"
  /\ errCh # "empty" => clone = "off" /\ errCh = exit

(* Parts behind the loop variable are uploaded, and so is the one whose    *)
(* clone main waits for.                                                   *)
CarriedSoFar ==
  /\ pc \in InLoop => \A q \in 1..(part - 1) : Uploaded(q)
  /\ pc = "join" => stored[part] \in {"whole", "quit", "early"}
  /\ pc = "meta" \/ verdict = "success" => Whole

(* A part that Deploy may expand: it is listed, it was shrunk, or it is a  *)
(* swap partition.                                                         *)
Listed(p) == p \in fixed \/ Device(p) \in shrunk \/ vol[Device(p)] = "swap"

ListedSoFar ==
  resizable =>
    /\ pc \in InLoop => \A q \in 1..(part - 1) : Listed(q)
    /\ pc \in {"clone", "upload", "join"} => Listed(part)
    /\ pc = "sentinel" => vol[Device(part)] = "swap"
    /\ pc = "meta" \/ verdict = "success" => \A q \in 1..PartCount : Listed(q)

IInv == Goroutine /\ CarriedSoFar /\ ListedSoFar /\ TruncationVisible

-----------------------------------------------------------------------------
(* The list of devices is at most MaxDev long and names partitions.        *)
LEMMA DeviceType ==
  devs \in DeviceLists => /\ PartCount \in 0..MaxDev
                          /\ \A p \in 1..PartCount : Device(p) \in DevNumbers
<1> SUFFICES ASSUME devs \in DeviceLists
             PROVE  /\ PartCount \in 0..MaxDev
                    /\ \A p \in 1..PartCount : Device(p) \in DevNumbers
  OBVIOUS
<1>1. PICK n \in 0..MaxDev : devs \in [1..n -> DevNumbers]
  BY DEF DeviceLists
<1>2. n \in Nat
  BY <1>1, CaptureAssumption DEF CaptureAssumption
<1>3. Len(devs) = n
  BY <1>1, <1>2
<1>4. QED
  BY <1>1, <1>3 DEF PartCount, Device

(* Where a step leaves the loop, and the types of what it touches.         *)
LEMMA TypeStep == TypeInv /\ [Next]_vars => TypeInv'
<1> SUFFICES ASSUME TypeInv, [Next]_vars PROVE TypeInv'
  OBVIOUS
<1> USE DEF TypeInv, TypeOK, source, locals, cloner, report, server, environ
<1>0. /\ PartCount \in 0..MaxDev /\ PartCount' = PartCount
      /\ pc \in InLoop => part \in DevNumbers /\ Device(part) \in DevNumbers
  <2>1. devs' = devs
    BY DEF Next, Main, Background, Detect, Backup, SendTable, Inspect, Sentinel,
       Shrink, StartClone, UploadEnds, UploadAnsweredEarly, UploadFails, Join,
       SetMeta, Complete, Transfer, CloneReturns, ClosePipe, SendErr,
       CloseReader, Cancel, Arrive, Crash, vars
  <2>2. PartCount \in 0..MaxDev /\ \A p \in 1..PartCount : Device(p) \in DevNumbers
    BY DeviceType DEF TypeInputs
  <2>3. QED
    BY <2>1, <2>2, CaptureAssumption
       DEF CaptureAssumption, PartCount, LoopPosition, DevNumbers
<1>1. CASE Detect
  <2> USE <1>1 DEF Detect, ReportFail
  <2>1. TypeInputs' /\ TypeControl'
    BY <1>0, CaptureAssumption
       DEF CaptureAssumption, TypeInputs, TypeControl, Labels, Detected,
           AllKinds, InLoop, DevNumbers, LoopPosition
  <2>2. TypeCloner' /\ HasExited'
    BY CaptureAssumption DEF CaptureAssumption, TypeCloner, HasExited
  <2>3. TypeImage'
    BY <1>0 DEF TypeImage, InLoop, Copies
  <2>4. TypeReport'
    BY DEF TypeReport, Verdicts
  <2>5. LoopPosition'
    BY <1>0 DEF LoopPosition, BeforeLoop, InLoop, TypeControl, Verdicts
  <2>6. QED
    BY <2>1, <2>2, <2>3, <2>4, <2>5
<1>2. CASE Backup
  <2> USE <1>2 DEF Backup, ReportFail
  <2>1. TypeInputs' /\ TypeControl'
    BY <1>0, CaptureAssumption
       DEF CaptureAssumption, TypeInputs, TypeControl, Labels, Detected,
           AllKinds, InLoop, DevNumbers, LoopPosition
  <2>2. TypeCloner' /\ HasExited'
    BY CaptureAssumption DEF CaptureAssumption, TypeCloner, HasExited
  <2>3. TypeImage'
    BY <1>0 DEF TypeImage, InLoop, Copies
  <2>4. TypeReport'
    BY DEF TypeReport, Verdicts
  <2>5. LoopPosition'
    BY <1>0 DEF LoopPosition, BeforeLoop, InLoop, TypeControl, Verdicts
  <2>6. QED
    BY <2>1, <2>2, <2>3, <2>4, <2>5
<1>3. CASE SendTable
  <2> USE <1>3 DEF SendTable, ReportFail, StartPart
  <2>1. TypeInputs' /\ TypeControl'
    BY <1>0, CaptureAssumption
       DEF CaptureAssumption, TypeInputs, TypeControl, Labels, Detected,
           AllKinds, InLoop, DevNumbers, LoopPosition
  <2>2. TypeCloner' /\ HasExited'
    BY CaptureAssumption DEF CaptureAssumption, TypeCloner, HasExited
  <2>3. TypeImage'
    BY <1>0 DEF TypeImage, InLoop, Copies
  <2>4. TypeReport'
    BY DEF TypeReport, Verdicts
  <2>5. LoopPosition'
    BY <1>0 DEF LoopPosition, BeforeLoop, InLoop, TypeControl, Verdicts
  <2>6. QED
    BY <2>1, <2>2, <2>3, <2>4, <2>5
<1>4. CASE Inspect
  <2> USE <1>4 DEF Inspect, ReportFail, BlkidType
  <2>1. TypeInputs' /\ TypeControl'
    BY <1>0, CaptureAssumption
       DEF CaptureAssumption, TypeInputs, TypeControl, Labels, Detected,
           AllKinds, InLoop, DevNumbers, LoopPosition
  <2>2. TypeCloner' /\ HasExited'
    BY CaptureAssumption DEF CaptureAssumption, TypeCloner, HasExited
  <2>3. TypeImage'
    BY <1>0 DEF TypeImage, InLoop, Copies
  <2>4. TypeReport'
    BY DEF TypeReport, Verdicts
  <2>5. LoopPosition'
    BY <1>0 DEF LoopPosition, BeforeLoop, InLoop, TypeControl, Verdicts
  <2>6. QED
    BY <2>1, <2>2, <2>3, <2>4, <2>5
<1>5. CASE Sentinel
  <2> USE <1>5 DEF Sentinel, ReportFail, StartPart
  <2>1. TypeInputs' /\ TypeControl'
    BY <1>0, CaptureAssumption
       DEF CaptureAssumption, TypeInputs, TypeControl, Labels, Detected,
           AllKinds, InLoop, DevNumbers, LoopPosition
  <2>2. TypeCloner' /\ HasExited'
    BY CaptureAssumption DEF CaptureAssumption, TypeCloner, HasExited
  <2>3. TypeImage'
    BY <1>0 DEF TypeImage, InLoop, Copies
  <2>4. TypeReport'
    BY DEF TypeReport, Verdicts
  <2>5. LoopPosition'
    BY <1>0 DEF LoopPosition, BeforeLoop, InLoop, TypeControl, Verdicts
  <2>6. QED
    BY <2>1, <2>2, <2>3, <2>4, <2>5
<1>6. CASE Shrink
  <2> USE <1>6 DEF Shrink, CanShrink
  <2>1. TypeInputs' /\ TypeControl'
    BY <1>0, CaptureAssumption
       DEF CaptureAssumption, TypeInputs, TypeControl, Labels, Detected,
           AllKinds, InLoop, DevNumbers, LoopPosition
  <2>2. TypeCloner' /\ HasExited'
    BY CaptureAssumption DEF CaptureAssumption, TypeCloner, HasExited
  <2>3. TypeImage'
    BY <1>0 DEF TypeImage, InLoop, Copies
  <2>4. TypeReport'
    BY DEF TypeReport, Verdicts
  <2>5. LoopPosition'
    BY <1>0 DEF LoopPosition, BeforeLoop, InLoop, TypeControl, Verdicts
  <2>6. QED
    BY <2>1, <2>2, <2>3, <2>4, <2>5
<1>7. CASE StartClone
  <2> USE <1>7 DEF StartClone
  <2>1. TypeInputs' /\ TypeControl'
    BY <1>0, CaptureAssumption
       DEF CaptureAssumption, TypeInputs, TypeControl, Labels, Detected,
           AllKinds, InLoop, DevNumbers, LoopPosition
  <2>2. TypeCloner' /\ HasExited'
    BY CaptureAssumption DEF CaptureAssumption, TypeCloner, HasExited
  <2>3. TypeImage'
    BY <1>0 DEF TypeImage, InLoop, Copies
  <2>4. TypeReport'
    BY DEF TypeReport, Verdicts
  <2>5. LoopPosition'
    BY <1>0 DEF LoopPosition, BeforeLoop, InLoop, TypeControl, Verdicts
  <2>6. QED
    BY <2>1, <2>2, <2>3, <2>4, <2>5
<1>8. CASE UploadEnds
  <2> USE <1>8 DEF UploadEnds, CopyAtEOF
  <2>1. TypeInputs' /\ TypeControl'
    BY <1>0, CaptureAssumption
       DEF CaptureAssumption, TypeInputs, TypeControl, Labels, Detected,
           AllKinds, InLoop, DevNumbers, LoopPosition
  <2>2. TypeCloner' /\ HasExited'
    BY CaptureAssumption DEF CaptureAssumption, TypeCloner, HasExited
  <2>3. TypeImage'
    BY <1>0 DEF TypeImage, InLoop, Copies
  <2>4. TypeReport'
    BY DEF TypeReport, Verdicts
  <2>5. LoopPosition'
    BY <1>0 DEF LoopPosition, BeforeLoop, InLoop, TypeControl, Verdicts
  <2>6. QED
    BY <2>1, <2>2, <2>3, <2>4, <2>5
<1>9. CASE UploadAnsweredEarly
  <2> USE <1>9 DEF UploadAnsweredEarly
  <2>1. TypeInputs' /\ TypeControl'
    BY <1>0, CaptureAssumption
       DEF CaptureAssumption, TypeInputs, TypeControl, Labels, Detected,
           AllKinds, InLoop, DevNumbers, LoopPosition
  <2>2. TypeCloner' /\ HasExited'
    BY CaptureAssumption DEF CaptureAssumption, TypeCloner, HasExited
  <2>3. TypeImage'
    BY <1>0 DEF TypeImage, InLoop, Copies
  <2>4. TypeReport'
    BY DEF TypeReport, Verdicts
  <2>5. LoopPosition'
    BY <1>0 DEF LoopPosition, BeforeLoop, InLoop, TypeControl, Verdicts
  <2>6. QED
    BY <2>1, <2>2, <2>3, <2>4, <2>5
<1>10. CASE UploadFails
  <2> USE <1>10 DEF UploadFails, ReportFail
  <2>1. TypeInputs' /\ TypeControl'
    BY <1>0, CaptureAssumption
       DEF CaptureAssumption, TypeInputs, TypeControl, Labels, Detected,
           AllKinds, InLoop, DevNumbers, LoopPosition
  <2>2. TypeCloner' /\ HasExited'
    BY CaptureAssumption DEF CaptureAssumption, TypeCloner, HasExited
  <2>3. TypeImage'
    BY <1>0 DEF TypeImage, InLoop, Copies
  <2>4. TypeReport'
    BY DEF TypeReport, Verdicts
  <2>5. LoopPosition'
    BY <1>0 DEF LoopPosition, BeforeLoop, InLoop, TypeControl, Verdicts
  <2>6. QED
    BY <2>1, <2>2, <2>3, <2>4, <2>5
<1>11. CASE Join
  <2> USE <1>11 DEF Join, ReportFail, StartPart
  <2>1. TypeInputs' /\ TypeControl'
    BY <1>0, CaptureAssumption
       DEF CaptureAssumption, TypeInputs, TypeControl, Labels, Detected,
           AllKinds, InLoop, DevNumbers, LoopPosition
  <2>2. TypeCloner' /\ HasExited'
    BY CaptureAssumption DEF CaptureAssumption, TypeCloner, HasExited
  <2>3. TypeImage'
    BY <1>0 DEF TypeImage, InLoop, Copies
  <2>4. TypeReport'
    BY DEF TypeReport, Verdicts
  <2>5. LoopPosition'
    BY <1>0 DEF LoopPosition, BeforeLoop, InLoop, TypeControl, Verdicts
  <2>6. QED
    BY <2>1, <2>2, <2>3, <2>4, <2>5
<1>12. CASE SetMeta
  <2> USE <1>12 DEF SetMeta
  <2>1. TypeInputs' /\ TypeControl'
    BY <1>0, CaptureAssumption
       DEF CaptureAssumption, TypeInputs, TypeControl, Labels, Detected,
           AllKinds, InLoop, DevNumbers, LoopPosition
  <2>2. TypeCloner' /\ HasExited'
    BY CaptureAssumption DEF CaptureAssumption, TypeCloner, HasExited
  <2>3. TypeImage'
    BY <1>0 DEF TypeImage, InLoop, Copies
  <2>4. TypeReport'
    BY DEF TypeReport, Verdicts
  <2>5. LoopPosition'
    BY <1>0 DEF LoopPosition, BeforeLoop, InLoop, TypeControl, Verdicts
  <2>6. QED
    BY <2>1, <2>2, <2>3, <2>4, <2>5
<1>13. CASE Complete
  <2> USE <1>13 DEF Complete
  <2>1. TypeInputs' /\ TypeControl'
    BY <1>0, CaptureAssumption
       DEF CaptureAssumption, TypeInputs, TypeControl, Labels, Detected,
           AllKinds, InLoop, DevNumbers, LoopPosition
  <2>2. TypeCloner' /\ HasExited'
    BY CaptureAssumption DEF CaptureAssumption, TypeCloner, HasExited
  <2>3. TypeImage'
    BY <1>0 DEF TypeImage, InLoop, Copies
  <2>4. TypeReport'
    BY DEF TypeReport, Verdicts
  <2>5. LoopPosition'
    BY <1>0 DEF LoopPosition, BeforeLoop, InLoop, TypeControl, Verdicts
  <2>6. QED
    BY <2>1, <2>2, <2>3, <2>4, <2>5
<1>14. CASE Transfer
  <2> USE <1>14 DEF Transfer
  <2>1. TypeInputs' /\ TypeControl'
    BY <1>0, CaptureAssumption
       DEF CaptureAssumption, TypeInputs, TypeControl, Labels, Detected,
           AllKinds, InLoop, DevNumbers, LoopPosition
  <2>2. TypeCloner' /\ HasExited'
    BY CaptureAssumption DEF CaptureAssumption, TypeCloner, HasExited
  <2>3. TypeImage'
    BY <1>0 DEF TypeImage, InLoop, Copies
  <2>4. TypeReport'
    BY DEF TypeReport, Verdicts
  <2>5. LoopPosition'
    BY <1>0 DEF LoopPosition, BeforeLoop, InLoop, TypeControl, Verdicts
  <2>6. QED
    BY <2>1, <2>2, <2>3, <2>4, <2>5
<1>15. CASE CloneReturns
  <2> USE <1>15 DEF CloneReturns
  <2>1. TypeInputs' /\ TypeControl'
    BY <1>0, CaptureAssumption
       DEF CaptureAssumption, TypeInputs, TypeControl, Labels, Detected,
           AllKinds, InLoop, DevNumbers, LoopPosition
  <2>2. TypeCloner' /\ HasExited'
    BY CaptureAssumption DEF CaptureAssumption, TypeCloner, HasExited
  <2>3. TypeImage'
    BY <1>0 DEF TypeImage, InLoop, Copies
  <2>4. TypeReport'
    BY DEF TypeReport, Verdicts
  <2>5. LoopPosition'
    BY <1>0 DEF LoopPosition, BeforeLoop, InLoop, TypeControl, Verdicts
  <2>6. QED
    BY <2>1, <2>2, <2>3, <2>4, <2>5
<1>16. CASE ClosePipe
  <2> USE <1>16 DEF ClosePipe
  <2>1. TypeInputs' /\ TypeControl'
    BY <1>0, CaptureAssumption
       DEF CaptureAssumption, TypeInputs, TypeControl, Labels, Detected,
           AllKinds, InLoop, DevNumbers, LoopPosition
  <2>2. TypeCloner' /\ HasExited'
    BY CaptureAssumption DEF CaptureAssumption, TypeCloner, HasExited
  <2>3. TypeImage'
    BY <1>0 DEF TypeImage, InLoop, Copies
  <2>4. TypeReport'
    BY DEF TypeReport, Verdicts
  <2>5. LoopPosition'
    BY <1>0 DEF LoopPosition, BeforeLoop, InLoop, TypeControl, Verdicts
  <2>6. QED
    BY <2>1, <2>2, <2>3, <2>4, <2>5
<1>17. CASE SendErr
  <2> USE <1>17 DEF SendErr
  <2>1. TypeInputs' /\ TypeControl'
    BY <1>0, CaptureAssumption
       DEF CaptureAssumption, TypeInputs, TypeControl, Labels, Detected,
           AllKinds, InLoop, DevNumbers, LoopPosition
  <2>2. TypeCloner' /\ HasExited'
    BY CaptureAssumption DEF CaptureAssumption, TypeCloner, HasExited
  <2>3. TypeImage'
    BY <1>0 DEF TypeImage, InLoop, Copies
  <2>4. TypeReport'
    BY DEF TypeReport, Verdicts
  <2>5. LoopPosition'
    BY <1>0 DEF LoopPosition, BeforeLoop, InLoop, TypeControl, Verdicts
  <2>6. QED
    BY <2>1, <2>2, <2>3, <2>4, <2>5
<1>18. CASE CloseReader
  <2> USE <1>18 DEF CloseReader
  <2>1. TypeInputs' /\ TypeControl'
    BY <1>0, CaptureAssumption
       DEF CaptureAssumption, TypeInputs, TypeControl, Labels, Detected,
           AllKinds, InLoop, DevNumbers, LoopPosition
  <2>2. TypeCloner' /\ HasExited'
    BY CaptureAssumption DEF CaptureAssumption, TypeCloner, HasExited
  <2>3. TypeImage'
    BY <1>0 DEF TypeImage, InLoop, Copies
  <2>4. TypeReport'
    BY DEF TypeReport, Verdicts
  <2>5. LoopPosition'
    BY <1>0 DEF LoopPosition, BeforeLoop, InLoop, TypeControl, Verdicts
  <2>6. QED
    BY <2>1, <2>2, <2>3, <2>4, <2>5
<1>19. CASE Cancel
  <2> USE <1>19 DEF Cancel
  <2>1. TypeInputs' /\ TypeControl'
    BY <1>0, CaptureAssumption
       DEF CaptureAssumption, TypeInputs, TypeControl, Labels, Detected,
           AllKinds, InLoop, DevNumbers, LoopPosition
  <2>2. TypeCloner' /\ HasExited'
    BY CaptureAssumption DEF CaptureAssumption, TypeCloner, HasExited
  <2>3. TypeImage'
    BY <1>0 DEF TypeImage, InLoop, Copies
  <2>4. TypeReport'
    BY DEF TypeReport, Verdicts
  <2>5. LoopPosition'
    BY <1>0 DEF LoopPosition, BeforeLoop, InLoop, TypeControl, Verdicts
  <2>6. QED
    BY <2>1, <2>2, <2>3, <2>4, <2>5
<1>20. CASE Crash
  <2> USE <1>20 DEF Crash
  <2>1. TypeInputs' /\ TypeControl'
    BY <1>0, CaptureAssumption
       DEF CaptureAssumption, TypeInputs, TypeControl, Labels, Detected,
           AllKinds, InLoop, DevNumbers, LoopPosition
  <2>2. TypeCloner' /\ HasExited'
    BY CaptureAssumption DEF CaptureAssumption, TypeCloner, HasExited
  <2>3. TypeImage'
    BY <1>0 DEF TypeImage, InLoop, Copies
  <2>4. TypeReport'
    BY DEF TypeReport, Verdicts
  <2>5. LoopPosition'
    BY <1>0 DEF LoopPosition, BeforeLoop, InLoop, TypeControl, Verdicts
  <2>6. QED
    BY <2>1, <2>2, <2>3, <2>4, <2>5
<1>21. CASE Arrive
  <2> USE <1>21 DEF Arrive
  <2>1. TypeInputs' /\ TypeControl'
    BY DEF TypeInputs, TypeControl
  <2>2. TypeCloner' /\ HasExited'
    BY DEF TypeCloner, HasExited
  <2>3. TypeImage'
    BY DEF TypeImage
  <2>4. TypeReport'
    BY DEF TypeReport, Verdicts
  <2>5. LoopPosition'
    BY <1>0 DEF LoopPosition
  <2>6. QED
    BY <2>1, <2>2, <2>3, <2>4, <2>5
<1>22. CASE UNCHANGED vars
  BY <1>0, <1>22 DEF vars, TypeInputs, TypeControl, TypeCloner, TypeImage,
     TypeReport, LoopPosition, HasExited
<1>23. QED
  BY <1>1, <1>2, <1>3, <1>4, <1>5, <1>6, <1>7, <1>8, <1>9, <1>10, <1>11, <1>12,
     <1>13, <1>14, <1>15, <1>16, <1>17, <1>18, <1>19, <1>20, <1>21, <1>22
     DEF Next, Main, Background

(* Every variable keeps its type and the loop its bounds, for any disk.    *)
THEOREM TypeCorrect == Spec => [](TypeOK /\ LoopPosition /\ HasExited)
<1>1. Init => TypeInv
  <2> SUFFICES ASSUME Init PROVE TypeInv
    OBVIOUS
  <2> USE CaptureAssumption DEF CaptureAssumption, Init
  <2>1. TypeInputs /\ TypeControl
    BY DEF TypeInputs, TypeControl, Labels, Detected
  <2>2. TypeCloner /\ HasExited
    BY DEF TypeCloner, HasExited
  <2>3. TypeImage
    BY DEF TypeImage, Copies
  <2>4. TypeReport
    BY DEF TypeReport, Verdicts
  <2>5. LoopPosition
    BY DEF LoopPosition, BeforeLoop, InLoop
  <2>6. QED
    BY <2>1, <2>2, <2>3, <2>4, <2>5 DEF TypeInv, TypeOK
<1>2. QED
  BY <1>1, TypeStep, PTL DEF Spec, TypeInv

-----------------------------------------------------------------------------
(* The list of devices does not change.                                    *)
LEMMA SameDisk ==
  [Next]_vars => /\ PartCount' = PartCount /\ vol' = vol /\ resizable' = resizable
                 /\ \A p : Device(p)' = Device(p)
<1>1. [Next]_vars => UNCHANGED source
  BY DEF source, Next, Main, Background, Detect, Backup, SendTable, Inspect,
     Sentinel, Shrink, StartClone, UploadEnds, UploadAnsweredEarly, UploadFails,
     Join, SetMeta, Complete, Transfer, CloneReturns, ClosePipe, SendErr,
     CloseReader, Cancel, Arrive, Crash, vars
<1>2. QED
  BY <1>1 DEF source, PartCount, Device

(* The goroutine, the pipe and the channel, whoever moves.                 *)
LEMMA GoroutineStep ==
  TypeInv /\ Goroutine /\ [Next]_vars => Goroutine'
<1> SUFFICES ASSUME TypeInv, Goroutine, [Next]_vars PROVE Goroutine'
  OBVIOUS
<1> USE DEF Goroutine, cloner
<1>1. CASE StartClone
  BY <1>1 DEF StartClone
<1>2. CASE Transfer
  BY <1>2 DEF Transfer
<1>3. CASE CloneReturns
  BY <1>3 DEF CloneReturns
<1>4. CASE ClosePipe
  BY <1>4 DEF ClosePipe
<1>5. CASE SendErr
  BY <1>5 DEF SendErr
<1>6. CASE CloseReader
  BY <1>6 DEF CloseReader
<1>7. CASE Join
  BY <1>7 DEF Join
<1>8. CASE Crash
  BY <1>8 DEF Crash
<1>9. CASE UNCHANGED cloner
  BY <1>9
<1>10. QED
  BY <1>1, <1>2, <1>3, <1>4, <1>5, <1>6, <1>7, <1>8, <1>9
     DEF Next, Main, Background, Detect, Backup, SendTable, Inspect, Sentinel,
         Shrink, UploadEnds, UploadAnsweredEarly, UploadFails, SetMeta,
         Complete, Cancel, Arrive, vars

(* A part the server takes for complete is: the pipe has ended in EOF only *)
(* after a clone that did not fail.                                        *)
LEMMA StoredStep ==
  TypeInv /\ Goroutine /\ TruncationVisible /\ [Next]_vars => TruncationVisible'
<1> SUFFICES ASSUME TypeInv, Goroutine, TruncationVisible, [Next]_vars,
                    NEW p \in DevNumbers
             PROVE  stored'[p] # "short"
  BY DEF TruncationVisible
<1>0. stored \in [DevNumbers -> Copies]
      /\ stored[p] # "short"
  BY DEF TypeInv, TypeOK, TypeImage, TruncationVisible
<1>1. CASE Sentinel
  BY <1>0, <1>1 DEF Sentinel
<1>2. CASE UploadEnds
  BY <1>0, <1>2 DEF UploadEnds, CopyAtEOF, Goroutine
<1>3. CASE UploadAnsweredEarly
  BY <1>0, <1>3 DEF UploadAnsweredEarly
<1>4. CASE UploadFails
  BY <1>0, <1>4 DEF UploadFails
<1>5. CASE UNCHANGED stored
  BY <1>0, <1>5
<1>6. QED
  BY <1>1, <1>2, <1>3, <1>4, <1>5
     DEF Next, Main, Background, Detect, Backup, SendTable, Inspect, Shrink,
         StartClone, Join, SetMeta, Complete, Transfer, CloneReturns,
         ClosePipe, SendErr, CloseReader, Cancel, Arrive, Crash, vars

(* The loop leaves no part behind: a step that writes a copy writes the    *)
(* one of its own part, and goes on only with a good one.                  *)
LEMMA CarriedStep ==
  TypeInv /\ TypeInv' /\ Goroutine /\ CarriedSoFar /\ [Next]_vars
    => CarriedSoFar'
<1> SUFFICES ASSUME TypeInv, TypeInv', Goroutine, CarriedSoFar, [Next]_vars
             PROVE  CarriedSoFar'
  OBVIOUS
<1> USE DEF CarriedSoFar, Whole, Uploaded, InLoop, BeforeLoop, locals, report,
            server
<1>0. /\ PartCount \in Nat /\ PartCount' = PartCount /\ part \in Nat
      /\ LoopPosition
      /\ stored \in [DevNumbers -> Copies]
      /\ \A q \in 1..PartCount : q \in DevNumbers
      /\ carried \subseteq DevNumbers
  BY SameDisk, DeviceType, CaptureAssumption
     DEF CaptureAssumption, TypeInv, TypeOK, TypeInputs, TypeControl, TypeImage,
         DevNumbers
<1>1. CASE Detect
  BY <1>0, <1>1 DEF Detect, ReportFail
<1>2. CASE Backup
  BY <1>0, <1>2 DEF Backup, ReportFail
<1>3. CASE SendTable
  BY <1>0, <1>3 DEF SendTable, ReportFail, StartPart
<1>4. CASE Inspect
  BY <1>0, <1>4 DEF Inspect, ReportFail, BlkidType
<1>5. CASE Sentinel
  BY <1>0, <1>5 DEF Sentinel, ReportFail, StartPart
<1>6. CASE Shrink
  BY <1>0, <1>6 DEF Shrink, CanShrink
<1>7. CASE StartClone
  BY <1>0, <1>7 DEF StartClone
<1>8. CASE UploadEnds
  BY <1>0, <1>8 DEF UploadEnds, CopyAtEOF, Goroutine, LoopPosition
<1>9. CASE UploadAnsweredEarly
  BY <1>0, <1>9 DEF UploadAnsweredEarly, LoopPosition
<1>10. CASE UploadFails
  BY <1>0, <1>10 DEF UploadFails, ReportFail, LoopPosition
<1>11. CASE Join
  BY <1>0, <1>11 DEF Join, ReportFail, StartPart
<1>12. CASE SetMeta
  BY <1>0, <1>12 DEF SetMeta
<1>13. CASE Complete
  BY <1>0, <1>13 DEF Complete
<1>14. CASE Transfer
  BY <1>0, <1>14 DEF Transfer
<1>15. CASE CloneReturns
  BY <1>0, <1>15 DEF CloneReturns
<1>16. CASE ClosePipe
  BY <1>0, <1>16 DEF ClosePipe
<1>17. CASE SendErr
  BY <1>0, <1>17 DEF SendErr
<1>18. CASE CloseReader
  BY <1>0, <1>18 DEF CloseReader
<1>19. CASE Cancel
  BY <1>0, <1>19 DEF Cancel
<1>20. CASE Crash
  BY <1>0, <1>20 DEF Crash
<1>21. CASE Arrive
  BY <1>0, <1>21 DEF Arrive
<1>22. CASE UNCHANGED vars
  BY <1>0, <1>22 DEF vars
<1>23. QED
  BY <1>1, <1>2, <1>3, <1>4, <1>5, <1>6, <1>7, <1>8, <1>9, <1>10, <1>11, <1>12,
     <1>13, <1>14, <1>15, <1>16, <1>17, <1>18, <1>19, <1>20, <1>21, <1>22
     DEF Next, Main, Background

(* A listed part stays listed.                                             *)
LEMMA ListedStays ==
  [Next]_vars /\ fixed \subseteq fixed' /\ shrunk \subseteq shrunk'
    => \A p : Listed(p) => Listed(p)'
  BY SameDisk DEF Listed

(* The list of fixed parts is complete for the parts behind the loop.      *)
LEMMA ListedStep ==
  TypeInv /\ TypeInv' /\ ListedSoFar /\ [Next]_vars => ListedSoFar'
<1> SUFFICES ASSUME TypeInv, TypeInv', ListedSoFar, [Next]_vars
             PROVE  ListedSoFar'
  OBVIOUS
<1> USE DEF ListedSoFar, InLoop, BeforeLoop, source, locals, report, server
<1>0. /\ PartCount \in Nat /\ PartCount' = PartCount /\ part \in Nat
      /\ LoopPosition
      /\ vol' = vol /\ resizable' = resizable /\ \A p : Device(p)' = Device(p)
  BY SameDisk, DeviceType, CaptureAssumption
     DEF CaptureAssumption, TypeInv, TypeOK, TypeInputs, TypeControl
<1>1. CASE Detect
  BY <1>0, ListedStays, <1>1 DEF Detect, ReportFail
<1>2. CASE Backup
  BY <1>0, ListedStays, <1>2 DEF Backup, ReportFail
<1>3. CASE SendTable
  BY <1>0, ListedStays, <1>3 DEF SendTable, ReportFail, StartPart
<1>4. CASE Inspect
  BY <1>0, ListedStays, <1>4 DEF Inspect, ReportFail, BlkidType
<1>5. CASE Sentinel
  <2> USE <1>5 DEF Sentinel
  <2>1. \A p : Listed(p) => Listed(p)'
    BY ListedStays
  <2>2. resizable => Listed(part)
    BY <1>0 DEF Listed
  <2>3. QED
    BY <1>0, <2>1, <2>2 DEF ReportFail, StartPart
<1>6. CASE Shrink
  <2> USE <1>6 DEF Shrink
  <2>1. \A p : Listed(p) => Listed(p)'
    BY ListedStays
  <2>2. Listed(part)'
    BY <1>0 DEF Listed
  <2>3. QED
    BY <1>0, <2>1, <2>2
<1>7. CASE StartClone
  BY <1>0, ListedStays, <1>7 DEF StartClone
<1>8. CASE UploadEnds
  BY <1>0, ListedStays, <1>8 DEF UploadEnds
<1>9. CASE UploadAnsweredEarly
  BY <1>0, ListedStays, <1>9 DEF UploadAnsweredEarly
<1>10. CASE UploadFails
  BY <1>0, ListedStays, <1>10 DEF UploadFails, ReportFail
<1>11. CASE Join
  BY <1>0, ListedStays, <1>11 DEF Join, ReportFail, StartPart
<1>12. CASE SetMeta
  BY <1>0, ListedStays, <1>12 DEF SetMeta
<1>13. CASE Complete
  BY <1>0, ListedStays, <1>13 DEF Complete
<1>14. CASE Transfer
  BY <1>0, ListedStays, <1>14 DEF Transfer
<1>15. CASE CloneReturns
  BY <1>0, ListedStays, <1>15 DEF CloneReturns
<1>16. CASE ClosePipe
  BY <1>0, ListedStays, <1>16 DEF ClosePipe
<1>17. CASE SendErr
  BY <1>0, ListedStays, <1>17 DEF SendErr
<1>18. CASE CloseReader
  BY <1>0, ListedStays, <1>18 DEF CloseReader
<1>19. CASE Cancel
  BY <1>0, ListedStays, <1>19 DEF Cancel
<1>20. CASE Crash
  BY <1>0, ListedStays, <1>20 DEF Crash
<1>21. CASE Arrive
  BY <1>0, ListedStays, <1>21 DEF Arrive
<1>22. CASE UNCHANGED vars
  BY <1>0, ListedStays, <1>22 DEF vars
<1>23. QED
  BY <1>1, <1>2, <1>3, <1>4, <1>5, <1>6, <1>7, <1>8, <1>9, <1>10, <1>11, <1>12,
     <1>13, <1>14, <1>15, <1>16, <1>17, <1>18, <1>19, <1>20, <1>21, <1>22
     DEF Next, Main, Background

(* The inductive invariant behind the verdict.                             *)
THEOREM Invariance == Spec => []IInv
<1>1. Init => IInv
  BY DEF Init, IInv, Goroutine, CarriedSoFar, ListedSoFar, TruncationVisible,
     InLoop
<1>2. TypeInv /\ TypeInv' /\ IInv /\ [Next]_vars => IInv'
  BY GoroutineStep, StoredStep, CarriedStep, ListedStep DEF IInv
<1>3. QED
  BY <1>1, <1>2, TypeCorrect, PTL DEF Spec, TypeInv

(* A success that was sent covers every partition; the server never takes  *)
(* the stream of a failed clone for a part; and the fixed-size list of a   *)
(* successful capture is complete.                                         *)
THEOREM VerdictMeans ==
  Spec => [](CapturedWhole /\ TruncationVisible /\ UnlistedWereShrunk)
<1>1. LoopPosition /\ IInv => CapturedWhole /\ TruncationVisible
  BY DEF LoopPosition, IInv, CarriedSoFar, CapturedWhole
<1>2. IInv => UnlistedWereShrunk
  BY DEF IInv, ListedSoFar, Listed, UnlistedWereShrunk
<1>3. QED
  BY <1>1, <1>2, Invariance, TypeCorrect, PTL

-----------------------------------------------------------------------------
(* Capture implements ImagingTask: a step of the agent is Work until it    *)
(* sends its verdict, the server's step is Arrive, a boot is HandOut.      *)
THEOREM Implementation == Spec => ImplementsTask
<1>1. Init => Task!Init
  BY DEF Init, Task!Init, Whole
<1>2. TypeInv /\ IInv /\ [Next]_vars => [Task!Next]_(Task!vars)
  <2> SUFFICES ASSUME TypeInv, IInv, [Next]_vars PROVE [Task!Next]_(Task!vars)
    OBVIOUS
  <2> USE DEF source, locals, cloner, report, server, environ
  <2>0. Whole' \in BOOLEAN
    BY DEF Whole
  <2>1. ASSUME pc # "done", pc' # "done", UNCHANGED server
        PROVE  Task!Next
    BY <2>0, <2>1 DEF Task!Work, Task!Next
  <2>2. CASE Detect \/ Backup \/ SendTable \/ Inspect \/ Sentinel \/ Shrink
              \/ StartClone \/ UploadEnds \/ UploadAnsweredEarly \/ UploadFails
              \/ Join \/ SetMeta
    BY <2>1, <2>2 DEF Detect, Backup, SendTable, Inspect, Sentinel, Shrink,
       StartClone, UploadEnds, UploadAnsweredEarly, UploadFails, Join, SetMeta,
       ReportFail, StartPart
  <2>3. CASE Background \/ Cancel
    BY <2>1, <2>3 DEF Background, Transfer, CloneReturns, ClosePipe, SendErr,
       CloseReader, Cancel
  <2>4. CASE Complete
    <3>1. /\ pc = "complete" /\ pc' = "done" /\ Whole' = Whole
          /\ sent = "none" /\ verdict \in Verdicts /\ late' = late
          /\ delivered' = delivered
      BY <2>4 DEF Complete, Whole, Uploaded, PartCount, TypeInv, LoopPosition
    <3>2. CASE sent' = "none"
      BY <3>1, <3>2 DEF Task!Next, Task!GiveUp
    <3>3. CASE sent' # "none"
      <4>1. sent' = verdict
        BY <2>4, <3>1, <3>3 DEF Complete
      <4>2. verdict = "success" => Whole
        BY DEF IInv, CarriedSoFar
      <4>3. Task!Send(verdict)
        BY <3>1, <4>1, <4>2 DEF Task!Send, Verdicts
      <4>4. QED
        BY <3>1, <4>3 DEF Task!Next, Task!Verdicts, Verdicts
    <3>4. QED
      BY <3>2, <3>3
  <2>5. CASE Arrive
    <3>1. /\ Whole' = Whole /\ pc' = pc /\ sent' = sent /\ late' = late
          /\ delivered' \in late \union ({sent} \ {"none"})
      BY <2>5 DEF Arrive, Whole, Uploaded, PartCount
    <3>2. delivered' \in Verdicts
      BY <3>1 DEF TypeInv, TypeOK, TypeReport, Verdicts
    <3>3. Task!Arrive(delivered')
      BY <3>1, <3>2 DEF Task!Arrive, Verdicts
    <3>4. QED
      BY <3>2, <3>3 DEF Task!Next, Task!Verdicts, Verdicts
  <2>6. CASE Crash
    <3>1. late' \union ({sent'} \ {"none"}) = late \union ({sent} \ {"none"})
      BY <2>6 DEF Crash
    <3>2. QED
      BY <2>0, <2>6, <3>1 DEF Crash, Task!Next, Task!HandOut
  <2>7. CASE UNCHANGED vars
    BY <2>7 DEF vars, Task!vars, Whole, Uploaded, PartCount
  <2>8. QED
    BY <2>2, <2>3, <2>4, <2>5, <2>6, <2>7 DEF Next, Main
<1>3. QED
  BY <1>1, <1>2, Invariance, TypeCorrect, PTL
     DEF Spec, ImplementsTask, Task!Spec, TypeInv
=============================================================================

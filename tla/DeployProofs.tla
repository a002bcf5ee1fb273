---------------------------- MODULE DeployProofs ----------------------------
(***************************************************************************)
(* Deploy, proved for every number of partitions, every image and any      *)
(* number of power losses: type correctness, the meaning of the verdict,   *)
(* and the implementation of ImagingTask.                                  *)
(***************************************************************************)
EXTENDS Deploy, TLAPS

BeforeLoop == {"detect", "fetchTable", "restoreTable", "zapTable", "loadGPT",
               "loadMBR", "expandTable"}
Trying     == {"download", "sentinel", "restore", "grow"}
InLoop     == Trying \union {"endPart"}

Written(p) == content[p] = "restored" \/ Skipped(p) \/ p \in spoiled

(* The loops stay within their bounds: the part within the announced ones, *)
(* and an attempt in progress is one of the budget.                        *)
LoopBounds ==
  /\ pc \in InLoop => part \in 1..resp.parts
  /\ pc \in Trying => attempt < MaxAttempts

TypeInv == TypeOK /\ LoopBounds

(* Where the loop stands.                                                  *)
LoopPosition ==
  /\ pc \in BeforeLoop => part = 0 /\ grown = {}
  /\ pc \in InLoop \union {"expandTable"} => table = "new"
  /\ pc \notin {"complete", "done"} => verdict = "none"
  /\ pc = "complete" => verdict \in Verdicts
  /\ pc = "sentinel" => image.kind[part] \in {"swap", "brace"}

(* The retry budget is spent when an error leaves the loop.                *)
Exhausted == pc = "endPart" /\ partErr => attempt = MaxAttempts

(* Parts behind the loop variable are written, unless a signal killed a    *)
(* resize: then no later request of the agent succeeds either.             *)
WrittenSoFar ==
  ~cancelled =>
    /\ pc \in InLoop => \A q \in 1..(part - 1) : Written(q)
    /\ pc = "grow" => Written(part)
    /\ pc = "endPart" /\ ~partErr => Written(part)
    /\ verdict = "success" => Whole

(* Grown filesystems lie behind the loop variable.                         *)
GrownSoFar ==
  /\ \A p \in grown : size[p] = entry[p]
  /\ pc \in Trying => grown \subseteq 1..(part - 1)
  /\ pc = "endPart" => grown \subseteq 1..part

(* The verdict leaves last.                                                *)
Sending == sent # "none" => pc = "done"

IInv == /\ LoopPosition /\ Exhausted /\ WrittenSoFar /\ GrownSoFar
        /\ Sending /\ DeployedWhole /\ FailureIsExhausted

-----------------------------------------------------------------------------
(* In the loop the part is one of the bounded partition numbers.           *)
LEMMA PartInRange == TypeInv /\ pc \in InLoop => part \in PartNumbers
  BY ConstantsAssumption DEF ConstantsAssumption, TypeInv, TypeOK, TypeInputs,
     TypeControl, LoopBounds, Responses, PartNumbers

(* Every variable keeps its type and the loops keep their bounds.          *)
THEOREM TypeInvariance == Spec => []TypeInv
<1> USE ConstantsAssumption DEF ConstantsAssumption, MaxAttempts
<1>1. Init => TypeInv
  <2>1. Init => TypeInputs /\ TypeControl
    BY DEF Init, TypeInputs, TypeControl, Labels
  <2>2. Init => TypeDisk
    BY DEF Init, TypeDisk, Sizes
  <2>3. Init => TypeReport /\ TypeFlags
    BY DEF Init, TypeReport, TypeFlags
  <2>4. Init => LoopBounds
    BY DEF Init, LoopBounds, InLoop, Trying
  <2>5. QED
    BY <2>1, <2>2, <2>3, <2>4 DEF TypeInv, TypeOK
<1>2. TypeInv /\ [Next]_vars => TypeInv'
  <2> SUFFICES ASSUME TypeInv, [Next]_vars PROVE TypeInv'
    OBVIOUS
  <2> USE DEF TypeInv, TypeOK, handshake, locals, disk, report, server, environ
  <2>0. pc \in InLoop => part \in PartNumbers
    BY PartInRange
  <2>1. CASE Detect
    <3> USE <2>1 DEF Detect, ReportFail
    <3>1. TypeInputs' /\ TypeControl' /\ LoopBounds'
      BY DEF TypeInputs, TypeControl, LoopBounds, InLoop, Trying, Labels,
             Responses
    <3>2. TypeDisk'
      BY <2>0 DEF TypeDisk, Sizes, InLoop, Trying
    <3>3. TypeReport' /\ TypeFlags'
      BY DEF TypeReport, TypeFlags, Verdicts
    <3>4. QED
      BY <3>1, <3>2, <3>3
  <2>2. CASE FetchTable
    <3> USE <2>2 DEF FetchTable, ReportFail
    <3>1. TypeInputs' /\ TypeControl' /\ LoopBounds'
      BY DEF TypeInputs, TypeControl, LoopBounds, InLoop, Trying, Labels,
             Responses
    <3>2. TypeDisk'
      BY <2>0 DEF TypeDisk, Sizes, InLoop, Trying
    <3>3. TypeReport' /\ TypeFlags'
      BY DEF TypeReport, TypeFlags, Verdicts
    <3>4. QED
      BY <3>1, <3>2, <3>3
  <2>3. CASE RestoreTable
    <3> USE <2>3 DEF RestoreTable, ReportFail
    <3>1. TypeInputs' /\ TypeControl' /\ LoopBounds'
      BY DEF TypeInputs, TypeControl, LoopBounds, InLoop, Trying, Labels,
             Responses
    <3>2. TypeDisk'
      BY <2>0 DEF TypeDisk, Sizes, InLoop, Trying
    <3>3. TypeReport' /\ TypeFlags'
      BY DEF TypeReport, TypeFlags, Verdicts
    <3>4. QED
      BY <3>1, <3>2, <3>3
  <2>4. CASE ZapTable
    <3> USE <2>4 DEF ZapTable
    <3>1. TypeInputs' /\ TypeControl' /\ LoopBounds'
      BY DEF TypeInputs, TypeControl, LoopBounds, InLoop, Trying, Labels,
             Responses
    <3>2. TypeDisk'
      BY <2>0 DEF TypeDisk, Sizes, InLoop, Trying
    <3>3. TypeReport' /\ TypeFlags'
      BY DEF TypeReport, TypeFlags, Verdicts
    <3>4. QED
      BY <3>1, <3>2, <3>3
  <2>5. CASE LoadGPT
    <3> USE <2>5 DEF LoadGPT, WriteTable, ReportFail
    <3>1. TypeInputs' /\ TypeControl' /\ LoopBounds'
      BY DEF TypeInputs, TypeControl, LoopBounds, InLoop, Trying, Labels,
             Responses
    <3>2. TypeDisk'
      BY <2>0 DEF TypeDisk, Sizes, InLoop, Trying
    <3>3. TypeReport' /\ TypeFlags'
      BY DEF TypeReport, TypeFlags, Verdicts
    <3>4. QED
      BY <3>1, <3>2, <3>3
  <2>6. CASE LoadMBR
    <3> USE <2>6 DEF LoadMBR, WriteTable, ReportFail
    <3>1. TypeInputs' /\ TypeControl' /\ LoopBounds'
      BY DEF TypeInputs, TypeControl, LoopBounds, InLoop, Trying, Labels,
             Responses
    <3>2. TypeDisk'
      BY <2>0 DEF TypeDisk, Sizes, InLoop, Trying
    <3>3. TypeReport' /\ TypeFlags'
      BY DEF TypeReport, TypeFlags, Verdicts
    <3>4. QED
      BY <3>1, <3>2, <3>3
  <2>7. CASE ExpandTable
    <3> USE <2>7 DEF ExpandTable, StartPart, LastPartition
    <3>1. TypeInputs' /\ TypeControl' /\ LoopBounds'
      BY DEF TypeInputs, TypeControl, LoopBounds, InLoop, Trying, Labels,
             Responses
    <3>2. TypeDisk'
      BY <2>0 DEF TypeDisk, Sizes, InLoop, Trying
    <3>3. TypeReport' /\ TypeFlags'
      BY DEF TypeReport, TypeFlags, Verdicts
    <3>4. QED
      BY <3>1, <3>2, <3>3
  <2>8. CASE Download
    <3> USE <2>8 DEF Download, Retry, Break, Peek
    <3>1. TypeInputs' /\ TypeControl' /\ LoopBounds'
      BY DEF TypeInputs, TypeControl, LoopBounds, InLoop, Trying, Labels,
             Responses
    <3>2. TypeDisk'
      BY <2>0 DEF TypeDisk, Sizes, InLoop, Trying
    <3>3. TypeReport' /\ TypeFlags'
      BY DEF TypeReport, TypeFlags, Verdicts
    <3>4. QED
      BY <3>1, <3>2, <3>3
  <2>9. CASE Sentinel
    <3> USE <2>9 DEF Sentinel, Retry, Break, HasDevice
    <3>1. TypeInputs' /\ TypeControl' /\ LoopBounds'
      BY DEF TypeInputs, TypeControl, LoopBounds, InLoop, Trying, Labels,
             Responses
    <3>2. TypeDisk'
      BY <2>0 DEF TypeDisk, Sizes, InLoop, Trying
    <3>3. TypeReport' /\ TypeFlags'
      BY DEF TypeReport, TypeFlags, Verdicts
    <3>4. QED
      BY <3>1, <3>2, <3>3
  <2>10. CASE Restore
    <3> USE <2>10 DEF Restore, Retry, HasDevice
    <3>1. TypeInputs' /\ TypeControl' /\ LoopBounds'
      BY DEF TypeInputs, TypeControl, LoopBounds, InLoop, Trying, Labels,
             Responses
    <3>2. TypeDisk'
      BY <2>0 DEF TypeDisk, Sizes, InLoop, Trying
    <3>3. TypeReport' /\ TypeFlags'
      BY DEF TypeReport, TypeFlags, Verdicts
    <3>4. QED
      BY <3>1, <3>2, <3>3
  <2>11. CASE Grow
    <3> USE <2>11 DEF Grow, Break
    <3>1. TypeInputs' /\ TypeControl' /\ LoopBounds'
      BY DEF TypeInputs, TypeControl, LoopBounds, InLoop, Trying, Labels,
             Responses
    <3>2. TypeDisk'
      BY <2>0 DEF TypeDisk, Sizes, InLoop, Trying
    <3>3. TypeReport' /\ TypeFlags'
      BY DEF TypeReport, TypeFlags, Verdicts
    <3>4. QED
      BY <3>1, <3>2, <3>3
  <2>12. CASE EndPart
    <3> USE <2>12 DEF EndPart, ReportFail, StartPart
    <3>1. TypeInputs' /\ TypeControl' /\ LoopBounds'
      BY DEF TypeInputs, TypeControl, LoopBounds, InLoop, Trying, Labels,
             Responses
    <3>2. TypeDisk'
      BY <2>0 DEF TypeDisk, Sizes, InLoop, Trying
    <3>3. TypeReport' /\ TypeFlags'
      BY DEF TypeReport, TypeFlags, Verdicts
    <3>4. QED
      BY <3>1, <3>2, <3>3
  <2>13. CASE Complete
    <3> USE <2>13 DEF Complete
    <3>1. TypeInputs' /\ TypeControl' /\ LoopBounds'
      BY DEF TypeInputs, TypeControl, LoopBounds, InLoop, Trying, Labels,
             Responses
    <3>2. TypeDisk'
      BY <2>0 DEF TypeDisk, Sizes, InLoop, Trying
    <3>3. TypeReport' /\ TypeFlags'
      BY DEF TypeReport, TypeFlags, Verdicts
    <3>4. QED
      BY <3>1, <3>2, <3>3
  <2>14. CASE Cancel
    <3> USE <2>14 DEF Cancel
    <3>1. TypeInputs' /\ TypeControl' /\ LoopBounds'
      BY DEF TypeInputs, TypeControl, LoopBounds, InLoop, Trying, Labels,
             Responses
    <3>2. TypeDisk'
      BY <2>0 DEF TypeDisk, Sizes, InLoop, Trying
    <3>3. TypeReport' /\ TypeFlags'
      BY DEF TypeReport, TypeFlags, Verdicts
    <3>4. QED
      BY <3>1, <3>2, <3>3
  <2>15. CASE Arrive
    <3> USE <2>15 DEF Arrive
    <3>1. TypeInputs' /\ TypeControl' /\ LoopBounds'
      BY DEF TypeInputs, TypeControl, LoopBounds, InLoop, Trying, Labels,
             Responses
    <3>2. TypeDisk'
      BY DEF TypeDisk
    <3>3. TypeReport' /\ TypeFlags'
      BY DEF TypeReport, TypeFlags, Verdicts
    <3>4. QED
      BY <3>1, <3>2, <3>3
  <2>16. CASE Crash
    <3> USE <2>16 DEF Crash
    <3>1. TypeInputs' /\ TypeControl' /\ LoopBounds'
      BY DEF TypeInputs, TypeControl, LoopBounds, InLoop, Trying, Labels,
             Responses
    <3>2. TypeDisk'
      BY <2>0 DEF TypeDisk, Sizes, InLoop, Trying
    <3>3. TypeReport' /\ TypeFlags'
      BY DEF TypeReport, TypeFlags, Verdicts
    <3>4. QED
      BY <3>1, <3>2, <3>3
  <2>17. CASE UNCHANGED vars
    BY <2>17 DEF vars, TypeInputs, TypeControl, TypeDisk, TypeReport,
       TypeFlags, LoopBounds
  <2>18. QED
    BY <2>1, <2>2, <2>3, <2>4, <2>5, <2>6, <2>7, <2>8, <2>9, <2>10, <2>11,
       <2>12, <2>13, <2>14, <2>15, <2>16, <2>17 DEF Next, Step
<1>3. QED
  BY <1>1, <1>2, PTL DEF Spec

(* The type invariant, by itself.                                          *)
COROLLARY TypeCorrect == Spec => []TypeOK
<1>1. TypeInv => TypeOK
  BY DEF TypeInv
<1>2. QED
  BY <1>1, TypeInvariance, PTL

-----------------------------------------------------------------------------
(* The inductive invariant behind the verdict.                             *)
THEOREM Invariance == Spec => []IInv
<1> USE DEF MaxAttempts
<1>1. Init => IInv
  BY DEF Init, IInv, LoopPosition, Exhausted, WrittenSoFar, GrownSoFar,
     Sending, DeployedWhole, FailureIsExhausted, BeforeLoop, InLoop, Trying
<1>2. TypeInv /\ TypeInv' /\ IInv /\ [Next]_vars => IInv'
  <2> SUFFICES ASSUME TypeInv, TypeInv', IInv, [Next]_vars PROVE IInv'
    OBVIOUS
  <2> USE DEF IInv, handshake, locals, disk, report, server,
              environ, Verdicts,
              BeforeLoop, InLoop, Trying
  <2>0. /\ resp.parts \in Nat /\ part \in Nat /\ attempt \in 0..MaxAttempts
        /\ pc \in InLoop => part \in PartNumbers /\ part <= resp.parts
    BY PartInRange, ConstantsAssumption DEF ConstantsAssumption, TypeInv,
       TypeOK, TypeInputs, TypeControl, Responses, LoopBounds
  <2>1. CASE Detect
    <3> USE <2>1 DEF Detect, ReportFail
    <3>1. LoopPosition' /\ Exhausted' /\ Sending' /\ FailureIsExhausted'
      BY <2>0 DEF LoopPosition, Exhausted, Sending, FailureIsExhausted, TypeInv,
             LoopBounds
    <3>2. WrittenSoFar' /\ DeployedWhole'
      BY <2>0 DEF WrittenSoFar, DeployedWhole, Sending, LoopPosition, Whole,
             Written, Skipped, TypeInv, TypeOK, TypeDisk, LoopBounds
    <3>3. GrownSoFar'
      BY <2>0 DEF GrownSoFar, LoopPosition, TypeInv, TypeOK, TypeDisk,
             LoopBounds
    <3>4. QED
      BY <3>1, <3>2, <3>3
  <2>2. CASE FetchTable
    <3> USE <2>2 DEF FetchTable, ReportFail
    <3>1. LoopPosition' /\ Exhausted' /\ Sending' /\ FailureIsExhausted'
      BY <2>0 DEF LoopPosition, Exhausted, Sending, FailureIsExhausted, TypeInv,
             LoopBounds
    <3>2. WrittenSoFar' /\ DeployedWhole'
      BY <2>0 DEF WrittenSoFar, DeployedWhole, Sending, LoopPosition, Whole,
             Written, Skipped, TypeInv, TypeOK, TypeDisk, LoopBounds
    <3>3. GrownSoFar'
      BY <2>0 DEF GrownSoFar, LoopPosition, TypeInv, TypeOK, TypeDisk,
             LoopBounds
    <3>4. QED
      BY <3>1, <3>2, <3>3
  <2>3. CASE RestoreTable
    <3> USE <2>3 DEF RestoreTable, ReportFail
    <3>1. LoopPosition' /\ Exhausted' /\ Sending' /\ FailureIsExhausted'
      BY <2>0 DEF LoopPosition, Exhausted, Sending, FailureIsExhausted, TypeInv,
             LoopBounds
    <3>2. WrittenSoFar' /\ DeployedWhole'
      BY <2>0 DEF WrittenSoFar, DeployedWhole, Sending, LoopPosition, Whole,
             Written, Skipped, TypeInv, TypeOK, TypeDisk, LoopBounds
    <3>3. GrownSoFar'
      BY <2>0 DEF GrownSoFar, LoopPosition, TypeInv, TypeOK, TypeDisk,
             LoopBounds
    <3>4. QED
      BY <3>1, <3>2, <3>3
  <2>4. CASE ZapTable
    <3> USE <2>4 DEF ZapTable
    <3>1. LoopPosition' /\ Exhausted' /\ Sending' /\ FailureIsExhausted'
      BY <2>0 DEF LoopPosition, Exhausted, Sending, FailureIsExhausted, TypeInv,
             LoopBounds
    <3>2. WrittenSoFar' /\ DeployedWhole'
      BY <2>0 DEF WrittenSoFar, DeployedWhole, Sending, LoopPosition, Whole,
             Written, Skipped, TypeInv, TypeOK, TypeDisk, LoopBounds
    <3>3. GrownSoFar'
      BY <2>0 DEF GrownSoFar, LoopPosition, TypeInv, TypeOK, TypeDisk,
             LoopBounds
    <3>4. QED
      BY <3>1, <3>2, <3>3
  <2>5. CASE LoadGPT
    <3> USE <2>5 DEF LoadGPT, WriteTable, ReportFail
    <3>1. LoopPosition' /\ Exhausted' /\ Sending' /\ FailureIsExhausted'
      BY <2>0 DEF LoopPosition, Exhausted, Sending, FailureIsExhausted, TypeInv,
             LoopBounds
    <3>2. WrittenSoFar' /\ DeployedWhole'
      BY <2>0 DEF WrittenSoFar, DeployedWhole, Sending, LoopPosition, Whole,
             Written, Skipped, TypeInv, TypeOK, TypeDisk, LoopBounds
    <3>3. GrownSoFar'
      BY <2>0 DEF GrownSoFar, LoopPosition, TypeInv, TypeOK, TypeDisk,
             LoopBounds
    <3>4. QED
      BY <3>1, <3>2, <3>3
  <2>6. CASE LoadMBR
    <3> USE <2>6 DEF LoadMBR, WriteTable, ReportFail
    <3>1. LoopPosition' /\ Exhausted' /\ Sending' /\ FailureIsExhausted'
      BY <2>0 DEF LoopPosition, Exhausted, Sending, FailureIsExhausted, TypeInv,
             LoopBounds
    <3>2. WrittenSoFar' /\ DeployedWhole'
      BY <2>0 DEF WrittenSoFar, DeployedWhole, Sending, LoopPosition, Whole,
             Written, Skipped, TypeInv, TypeOK, TypeDisk, LoopBounds
    <3>3. GrownSoFar'
      BY <2>0 DEF GrownSoFar, LoopPosition, TypeInv, TypeOK, TypeDisk,
             LoopBounds
    <3>4. QED
      BY <3>1, <3>2, <3>3
  <2>7. CASE ExpandTable
    <3> USE <2>7 DEF ExpandTable, StartPart, LastPartition
    <3>1. LoopPosition' /\ Exhausted' /\ Sending' /\ FailureIsExhausted'
      BY <2>0 DEF LoopPosition, Exhausted, Sending, FailureIsExhausted, TypeInv,
             LoopBounds
    <3>2. WrittenSoFar' /\ DeployedWhole'
      BY <2>0 DEF WrittenSoFar, DeployedWhole, Sending, LoopPosition, Whole,
             Written, Skipped, TypeInv, TypeOK, TypeDisk, LoopBounds
    <3>3. GrownSoFar'
      BY <2>0 DEF GrownSoFar, LoopPosition, TypeInv, TypeOK, TypeDisk,
             LoopBounds
    <3>4. QED
      BY <3>1, <3>2, <3>3
  <2>8. CASE Download
    <3> USE <2>8 DEF Download, Retry, Break, Peek, ResumeOffset
    <3>1. LoopPosition' /\ Exhausted' /\ Sending' /\ FailureIsExhausted'
      BY <2>0 DEF LoopPosition, Exhausted, Sending, FailureIsExhausted, TypeInv,
             LoopBounds
    <3>2. WrittenSoFar' /\ DeployedWhole'
      BY <2>0 DEF WrittenSoFar, DeployedWhole, Sending, LoopPosition, Whole,
             Written, Skipped, TypeInv, TypeOK, TypeDisk, LoopBounds
    <3>3. GrownSoFar'
      BY <2>0 DEF GrownSoFar, LoopPosition, TypeInv, TypeOK, TypeDisk,
             LoopBounds
    <3>4. QED
      BY <3>1, <3>2, <3>3
  <2>9. CASE Sentinel
    <3> USE <2>9 DEF Sentinel, Retry, Break, HasDevice
    <3>1. LoopPosition' /\ Exhausted' /\ Sending' /\ FailureIsExhausted'
      BY <2>0 DEF LoopPosition, Exhausted, Sending, FailureIsExhausted, TypeInv,
             LoopBounds
    <3>2. WrittenSoFar' /\ DeployedWhole'
      <4>1. \A q \in 1..(part - 1) : Written(q) => Written(q)'
        <5> SUFFICES ASSUME NEW q \in 1..(part - 1), Written(q)
                     PROVE  Written(q)'
          OBVIOUS
        <5>1. q \in PartNumbers /\ q # part
          BY <2>0, ConstantsAssumption DEF ConstantsAssumption, PartNumbers
        <5>2. content'[q] = content[q]
          BY <5>1 DEF TypeInv, TypeOK, TypeDisk
        <5>3. QED
          BY <5>2 DEF Written, Skipped
      <4>2. ~partErr' => Written(part)'
        BY <2>0 DEF Written, Skipped, TypeInv, TypeOK, TypeDisk, LoopPosition
      <4>3. pc' = "grow" => Written(part)'
        BY <2>0 DEF Written, TypeInv, TypeOK, TypeDisk
      <4>4. sent' = "none" /\ verdict' = "none"
        BY DEF LoopPosition, Sending
      <4>5. QED
        BY <2>0, <4>1, <4>2, <4>3, <4>4 DEF WrittenSoFar, DeployedWhole
    <3>3. GrownSoFar'
      BY <2>0 DEF GrownSoFar, LoopPosition, TypeInv, TypeOK, TypeDisk,
             LoopBounds
    <3>4. QED
      BY <3>1, <3>2, <3>3
  <2>10. CASE Restore
    <3> USE <2>10 DEF Restore, Retry, HasDevice
    <3>1. LoopPosition' /\ Exhausted' /\ Sending' /\ FailureIsExhausted'
      BY <2>0 DEF LoopPosition, Exhausted, Sending, FailureIsExhausted, TypeInv,
             LoopBounds
    <3>2. WrittenSoFar' /\ DeployedWhole'
      <4>1. \A q \in 1..(part - 1) : Written(q) => Written(q)'
        <5> SUFFICES ASSUME NEW q \in 1..(part - 1), Written(q)
                     PROVE  Written(q)'
          OBVIOUS
        <5>1. q \in PartNumbers /\ q # part
          BY <2>0, ConstantsAssumption DEF ConstantsAssumption, PartNumbers
        <5>2. content'[q] = content[q]
          BY <5>1 DEF TypeInv, TypeOK, TypeDisk
        <5>3. QED
          BY <5>2 DEF Written, Skipped
      <4>2. ~partErr' => Written(part)'
        BY <2>0 DEF Written, Skipped, TypeInv, TypeOK, TypeDisk, LoopPosition
      <4>3. pc' = "grow" => Written(part)'
        BY <2>0 DEF Written, TypeInv, TypeOK, TypeDisk
      <4>4. sent' = "none" /\ verdict' = "none"
        BY DEF LoopPosition, Sending
      <4>5. QED
        BY <2>0, <4>1, <4>2, <4>3, <4>4 DEF WrittenSoFar, DeployedWhole
    <3>3. GrownSoFar'
      BY <2>0 DEF GrownSoFar, LoopPosition, TypeInv, TypeOK, TypeDisk,
             LoopBounds
    <3>4. QED
      BY <3>1, <3>2, <3>3
  <2>11. CASE Grow
    <3> USE <2>11 DEF Grow, Break
    <3>1. LoopPosition' /\ Exhausted' /\ Sending' /\ FailureIsExhausted'
      BY <2>0 DEF LoopPosition, Exhausted, Sending, FailureIsExhausted, TypeInv,
             LoopBounds
    <3>2. WrittenSoFar' /\ DeployedWhole'
      <4>1. \A q \in 1..(part - 1) : Written(q) => Written(q)'
        <5> SUFFICES ASSUME NEW q \in 1..(part - 1), Written(q)
                     PROVE  Written(q)'
          OBVIOUS
        <5>1. q \in PartNumbers /\ q # part
          BY <2>0, ConstantsAssumption DEF ConstantsAssumption, PartNumbers
        <5>2. content'[q] = content[q] /\ (q \in spoiled => q \in spoiled')
          BY <5>1 DEF TypeInv, TypeOK, TypeDisk
        <5>3. QED
          BY <5>2 DEF Written, Skipped
      <4>2. ~cancelled /\ Written(part) => Written(part)'
        BY <2>0 DEF Written, Skipped, TypeInv, TypeOK, TypeDisk
      <4>3. sent' = "none" /\ verdict' = "none"
        BY DEF LoopPosition, Sending
      <4>4. QED
        BY <2>0, <4>1, <4>2, <4>3 DEF WrittenSoFar, DeployedWhole
    <3>3. GrownSoFar'
      BY <2>0 DEF GrownSoFar, LoopPosition, TypeInv, TypeOK, TypeDisk,
             LoopBounds
    <3>4. QED
      BY <3>1, <3>2, <3>3
  <2>12. CASE EndPart
    <3> USE <2>12 DEF EndPart, ReportFail, StartPart
    <3>1. LoopPosition' /\ Exhausted' /\ Sending' /\ FailureIsExhausted'
      BY <2>0 DEF LoopPosition, Exhausted, Sending, FailureIsExhausted, TypeInv,
             LoopBounds
    <3>2. WrittenSoFar' /\ DeployedWhole'
      BY <2>0 DEF WrittenSoFar, DeployedWhole, Sending, LoopPosition, Whole,
             Written, Skipped, TypeInv, TypeOK, TypeDisk, LoopBounds
    <3>3. GrownSoFar'
      BY <2>0 DEF GrownSoFar, LoopPosition, TypeInv, TypeOK, TypeDisk,
             LoopBounds
    <3>4. QED
      BY <3>1, <3>2, <3>3
  <2>13. CASE Complete
    <3> USE <2>13 DEF Complete
    <3>1. LoopPosition' /\ Exhausted' /\ Sending' /\ FailureIsExhausted'
      BY <2>0 DEF LoopPosition, Exhausted, Sending, FailureIsExhausted, TypeInv,
             LoopBounds
    <3>2. WrittenSoFar' /\ DeployedWhole'
      BY <2>0 DEF WrittenSoFar, DeployedWhole, Sending, LoopPosition, Whole,
             Written, Skipped, TypeInv, TypeOK, TypeDisk, LoopBounds
    <3>3. GrownSoFar'
      BY <2>0 DEF GrownSoFar, LoopPosition, TypeInv, TypeOK, TypeDisk,
             LoopBounds
    <3>4. QED
      BY <3>1, <3>2, <3>3
  <2>14. CASE Cancel
    <3> USE <2>14 DEF Cancel
    <3>1. LoopPosition' /\ Exhausted' /\ Sending' /\ FailureIsExhausted'
      BY <2>0 DEF LoopPosition, Exhausted, Sending, FailureIsExhausted, TypeInv,
             LoopBounds
    <3>2. WrittenSoFar' /\ DeployedWhole'
      BY <2>0 DEF WrittenSoFar, DeployedWhole, Sending, LoopPosition, Whole,
             Written, Skipped, TypeInv, TypeOK, TypeDisk, LoopBounds
    <3>3. GrownSoFar'
      BY <2>0 DEF GrownSoFar, LoopPosition, TypeInv, TypeOK, TypeDisk,
             LoopBounds
    <3>4. QED
      BY <3>1, <3>2, <3>3
  <2>15. CASE Arrive
    <3> USE <2>15 DEF Arrive
    <3>1. LoopPosition' /\ Exhausted' /\ Sending' /\ FailureIsExhausted'
      BY DEF LoopPosition, Exhausted, Sending, FailureIsExhausted
    <3>2. WrittenSoFar' /\ DeployedWhole'
      BY DEF WrittenSoFar, DeployedWhole, Whole, Written, Skipped
    <3>3. GrownSoFar'
      BY DEF GrownSoFar
    <3>4. QED
      BY <3>1, <3>2, <3>3
  <2>16. CASE Crash
    <3> USE <2>16 DEF Crash
    <3>1. LoopPosition' /\ Exhausted' /\ Sending' /\ FailureIsExhausted'
      BY <2>0 DEF LoopPosition, Exhausted, Sending, FailureIsExhausted, TypeInv,
             LoopBounds
    <3>2. WrittenSoFar' /\ DeployedWhole'
      BY <2>0 DEF WrittenSoFar, DeployedWhole, Sending, LoopPosition, Whole,
             Written, Skipped, TypeInv, TypeOK, TypeDisk, LoopBounds
    <3>3. GrownSoFar'
      BY <2>0 DEF GrownSoFar, LoopPosition, TypeInv, TypeOK, TypeDisk,
             LoopBounds
    <3>4. QED
      BY <3>1, <3>2, <3>3
  <2>17. CASE UNCHANGED vars
    BY <2>17 DEF vars, LoopPosition, Exhausted, Sending, FailureIsExhausted,
       WrittenSoFar, DeployedWhole, GrownSoFar, Whole, Written, Skipped
  <2>18. QED
    BY <2>1, <2>2, <2>3, <2>4, <2>5, <2>6, <2>7, <2>8, <2>9, <2>10, <2>11,
       <2>12, <2>13, <2>14, <2>15, <2>16, <2>17 DEF Next, Step
<1>3. QED
  BY <1>1, <1>2, TypeInvariance, PTL DEF Spec

(* A success is sent only over a whole disk, a failure reported for a part *)
(* is a spent budget, and a grown filesystem reaches the end of its entry. *)
THEOREM VerdictMeans ==
  Spec => [](DeployedWhole /\ FailureIsExhausted /\ GrownFillsEntry)
<1>1. IInv => DeployedWhole /\ FailureIsExhausted /\ GrownFillsEntry
  BY DEF IInv, GrownSoFar, GrownFillsEntry
<1>2. QED
  BY <1>1, Invariance, PTL

-----------------------------------------------------------------------------
(* Deploy implements ImagingTask: a step of the agent is Work until it     *)
(* sends its verdict, the server's step is Arrive, a boot is HandOut.      *)
THEOREM Implementation == Spec => ImplementsTask
<1>1. Init => Task!Init
  BY DEF Init, Task!Init, Whole
<1>2. TypeInv /\ IInv /\ [Next]_vars => [Task!Next]_(Task!vars)
  <2> SUFFICES ASSUME TypeInv, IInv, [Next]_vars PROVE [Task!Next]_(Task!vars)
    OBVIOUS
  <2> USE DEF handshake, locals, disk, report, server, environ
  <2>0. Whole' \in BOOLEAN
    BY DEF Whole
  <2>1. ASSUME pc # "done", pc' # "done", UNCHANGED server
        PROVE  Task!Work
    BY <2>0, <2>1 DEF Task!Work
  <2>2. CASE (Step /\ ~Complete) \/ Cancel
    BY <2>1, <2>2 DEF Step, Detect, FetchTable, RestoreTable, ZapTable, LoadGPT,
       LoadMBR, WriteTable, ExpandTable, Download, Sentinel, Restore, Grow,
       EndPart, ReportFail, StartPart, Retry, Break, Peek, Cancel, Task!Next
  <2>3. CASE Complete
    <3>1. /\ pc = "complete" /\ pc' = "done" /\ Whole' = Whole
          /\ sent = "none" /\ verdict \in Verdicts /\ late' = late
          /\ delivered' = delivered
      BY <2>3 DEF Complete, Whole, Skipped, IInv, Sending, LoopPosition
    <3>2. CASE sent' = "none"
      BY <3>1, <3>2 DEF Task!Next, Task!GiveUp
    <3>3. CASE sent' # "none"
      <4>1. sent' = verdict /\ ~cancelled
        BY <2>3, <3>1, <3>3 DEF Complete
      <4>2. verdict = "success" => Whole
        BY <4>1 DEF IInv, WrittenSoFar
      <4>3. Task!Send(verdict)
        BY <3>1, <4>1, <4>2 DEF Task!Send, Verdicts
      <4>4. QED
        BY <3>1, <4>3 DEF Task!Next, Task!Verdicts, Verdicts
    <3>4. QED
      BY <3>2, <3>3
  <2>4. CASE Arrive
    <3>1. /\ Whole' = Whole /\ pc' = pc /\ sent' = sent /\ late' = late
          /\ delivered' \in late \union ({sent} \ {"none"})
      BY <2>4 DEF Arrive, Whole, Skipped
    <3>2. delivered' \in Verdicts
      BY <3>1 DEF TypeInv, TypeOK, TypeReport, Verdicts
    <3>3. Task!Arrive(delivered')
      BY <3>1, <3>2 DEF Task!Arrive, Verdicts
    <3>4. QED
      BY <3>2, <3>3 DEF Task!Next, Task!Verdicts, Verdicts
  <2>5. CASE Crash
    <3>1. late' \union ({sent'} \ {"none"}) = late \union ({sent} \ {"none"})
      BY <2>5 DEF Crash
    <3>2. QED
      BY <2>0, <2>5, <3>1 DEF Crash, Task!Next, Task!HandOut
  <2>6. CASE UNCHANGED vars
    BY <2>6 DEF vars, Task!vars, Whole, Skipped
  <2>7. QED
    BY <2>2, <2>3, <2>4, <2>5, <2>6 DEF Next
<1>3. QED
  BY <1>1, <1>2, Invariance, TypeInvariance, PTL DEF Spec, ImplementsTask, Task!Spec
=============================================================================

--------------------------- MODULE ImagingProofs ---------------------------
(***************************************************************************)
(* Proofs about the progress of partclone and about the image that         *)
(* captures leave for deploys, and what follows for the three components   *)
(* of MCImaging side by side: for any number of runs, any resolution of    *)
(* the status, any number of partitions and of captures.                   *)
(***************************************************************************)
EXTENDS MCImaging, FsToolsProofs, FiniteSetTheorems

(* Progress.                                                               *)

(* A run has begun whenever something of it goes on.                       *)
Begun == main # "idle" \/ proc # "off" => run \in Bar!Run

BarTypeInv == Bar!TypeOK /\ Begun

LEMMA BarReadType ==
  ASSUME BarTypeInv, NEW r \in Bar!Run, NEW calling \in {"tell", "last"},
         NEW otherwise \in {"poll", "gone"}, Bar!ReadStatus(r, calling, otherwise)
  PROVE  BarTypeInv'
<1>1. poller' = [poller EXCEPT ![r] = IF file = Bar!NoStatus
                                              THEN otherwise ELSE calling]
      /\ (report' = report \/ report' = [report EXCEPT ![r] = file])
      /\ UNCHANGED <<main, run, Bar!partclone, file, stop, result>>
  BY DEF Bar!ReadStatus
<1>2. poller' \in [Bar!Run -> {"none", "poll", "tell", "last", "gone"}]
  BY <1>1 DEF BarTypeInv, Bar!TypeOK
<1>3. report' \in [Bar!Run -> Bar!Status \union {Bar!NoStatus}]
  BY <1>1 DEF BarTypeInv, Bar!TypeOK
<1> QED
  BY <1>1, <1>2, <1>3 DEF BarTypeInv, Bar!TypeOK, Begun, Bar!partclone

LEMMA BarTypeStep ==
  ASSUME Bar!ProgressAssumption, BarTypeInv, [Bar!Next]_Bar!vars
  PROVE  BarTypeInv'
<1> USE DEF BarTypeInv, Bar!TypeOK, Begun, Bar!Run, Bar!Status, Bar!NoStatus
<1>0. Runs \in Nat \ {0} /\ Full \in Nat \ {0}
  BY DEF Bar!ProgressAssumption
<1>1. CASE Bar!Prepare
  BY <1>0, <1>1 DEF Bar!Prepare, Bar!goroutine
<1>2. CASE Bar!Start
  BY <1>0, <1>2 DEF Bar!Start
<1>3. CASE Bar!Close
  BY <1>0, <1>3 DEF Bar!Close, Bar!goroutine
<1>4. CASE Bar!Done
  BY <1>0, <1>4 DEF Bar!Done, Bar!goroutine, Bar!partclone
<1>5. CASE Bar!Verdict
  BY <1>0, <1>5 DEF Bar!Verdict, Bar!goroutine, Bar!partclone
<1>6. CASE Bar!Exit
  BY <1>0, <1>6 DEF Bar!Exit, Bar!partclone
<1>7. ASSUME NEW pct \in 0..Full, Bar!WriteStatus(pct) PROVE BarTypeInv'
  BY <1>0, <1>7 DEF Bar!WriteStatus, Bar!Running, Bar!goroutine
<1>8. CASE Bar!Finish
  BY <1>0, <1>8 DEF Bar!Finish, Bar!Running, Bar!goroutine
<1>9. CASE Bar!QuitOnStatus
  BY <1>0, <1>9 DEF Bar!QuitOnStatus, Bar!Running, Bar!goroutine
<1>10. ASSUME NEW r \in Bar!Run, Bar!Tick(r) PROVE BarTypeInv'
  BY <1>10, BarReadType DEF Bar!Tick
<1>11. ASSUME NEW r \in Bar!Run, Bar!LastRead(r) PROVE BarTypeInv'
  BY <1>11, BarReadType DEF Bar!LastRead
<1>12. ASSUME NEW r \in Bar!Run, Bar!Return(r) PROVE BarTypeInv'
  BY <1>0, <1>12 DEF Bar!Return, Bar!partclone
<1>13. CASE UNCHANGED Bar!vars
  BY <1>13 DEF Bar!vars, Bar!partclone, Bar!goroutine
<1> QED
  BY <1>1, <1>2, <1>3, <1>4, <1>5, <1>6, <1>7, <1>8, <1>9, <1>10, <1>11, <1>12, <1>13
  DEF Bar!Next, Bar!Main, Bar!Partclone, Bar!Poll

LEMMA BarTypeCorrect ==
  ASSUME Bar!ProgressAssumption
  PROVE  Bar!Spec => []Bar!TypeOK
<1>1. Bar!Init => BarTypeInv
  BY DEF Bar!ProgressAssumption, Bar!Init, BarTypeInv, Bar!TypeOK, Begun, Bar!Run,
         Bar!Status, Bar!NoStatus
<1>2. BarTypeInv /\ [Bar!Next]_Bar!vars => BarTypeInv'
  BY BarTypeStep
<1>3. BarTypeInv => Bar!TypeOK
  BY DEF BarTypeInv
<1> QED
  BY <1>1, <1>2, <1>3, PTL DEF Bar!Spec

-----------------------------------------------------------------------------
Active(r) == poller[r] \in {"poll", "tell", "last"}

(* A goroutine that is active belongs to a run that has been closed, or to *)
(* the one partclone works at.                                             *)
ActiveOrStopped ==
  \A r \in Bar!Run : Active(r) =>
    r <= run /\ (r \in stop \/ (r = run /\ main \in {"wait", "over"}))

(* The file was removed when the run began: what it holds is of this run.  *)
FileOfThisRun == file # Bar!NoStatus => file.run = run

BarIInv == ActiveOrStopped /\ FileOfThisRun /\ Bar!OwnStatus

LEMMA BarReadStep ==
  ASSUME Bar!ProgressAssumption, BarTypeInv, BarIInv,
         NEW r \in Bar!Run, NEW calling, NEW otherwise,
         poller[r] = "poll", Bar!ReadStatus(r, calling, otherwise)
  PROVE  BarIInv'
<1>1. /\ UNCHANGED <<main, run, file, stop>>
      /\ \A q \in Bar!Run \ {r} : poller'[q] = poller[q] /\ report'[q] = report[q]
      /\ report'[r] = report[r] \/ (file # Bar!NoStatus /\ report'[r] = file)
  BY DEF Bar!ReadStatus, BarTypeInv, Bar!TypeOK
<1>2. r <= run /\ (r \in stop \/ r = run)
  BY DEF BarIInv, ActiveOrStopped, Active
<1>3. ActiveOrStopped'
  BY <1>1, <1>2 DEF BarIInv, ActiveOrStopped, Active
<1>4. FileOfThisRun'
  BY <1>1 DEF BarIInv, FileOfThisRun
<1>5. Bar!OwnStatus'
  BY <1>1, <1>2 DEF BarIInv, Bar!OwnStatus, FileOfThisRun, BarTypeInv, Bar!TypeOK, Bar!Run
<1> QED
  BY <1>3, <1>4, <1>5 DEF BarIInv

LEMMA BarIInvStep ==
  ASSUME Bar!ProgressAssumption, BarTypeInv, BarIInv, [Bar!Next]_Bar!vars
  PROVE  BarIInv'
<1> USE DEF BarIInv, ActiveOrStopped, FileOfThisRun, Bar!OwnStatus, Active
<1>0. run \in Nat /\ Runs \in Nat
  BY DEF BarTypeInv, Bar!TypeOK, Bar!ProgressAssumption
<1>1. CASE Bar!Prepare
  <2>1. run' = run + 1 /\ main = "idle" /\ file' = Bar!NoStatus
        /\ UNCHANGED <<stop, poller, report>>
    BY <1>1 DEF Bar!Prepare, Bar!goroutine
  <2> QED
    BY <1>0, <2>1 DEF Bar!Run
<1>2. CASE Bar!Start
  BY <1>0, <1>2 DEF Bar!Start, Bar!Run, BarTypeInv, Bar!TypeOK
<1>3. CASE Bar!Close
  BY <1>0, <1>3 DEF Bar!Close, Bar!goroutine
<1>4. CASE Bar!Done
  BY <1>4 DEF Bar!Done, Bar!partclone, Bar!goroutine
<1>5. CASE Bar!Verdict
  BY <1>5 DEF Bar!Verdict, Bar!partclone, Bar!goroutine
<1>6. CASE Bar!Exit
  BY <1>6 DEF Bar!Exit, Bar!partclone
<1>7. ASSUME NEW pct \in 0..Full, Bar!WriteStatus(pct) PROVE BarIInv'
  BY <1>7 DEF Bar!WriteStatus, Bar!goroutine
<1>8. CASE Bar!Finish
  BY <1>8 DEF Bar!Finish, Bar!goroutine
<1>9. CASE Bar!QuitOnStatus
  BY <1>9 DEF Bar!QuitOnStatus, Bar!goroutine
<1>10. ASSUME NEW r \in Bar!Run, Bar!Tick(r) PROVE BarIInv'
  BY <1>10, BarReadStep DEF Bar!Tick
<1>11. ASSUME NEW r \in Bar!Run, Bar!LastRead(r) PROVE BarIInv'
  BY <1>11, BarReadStep DEF Bar!LastRead
<1>12. ASSUME NEW r \in Bar!Run, Bar!Return(r) PROVE BarIInv'
  BY <1>12 DEF Bar!Return, Bar!partclone, BarTypeInv, Bar!TypeOK
<1>13. CASE UNCHANGED Bar!vars
  BY <1>13 DEF Bar!vars, Bar!partclone, Bar!goroutine
<1> QED
  BY <1>1, <1>2, <1>3, <1>4, <1>5, <1>6, <1>7, <1>8, <1>9, <1>10, <1>11, <1>12, <1>13
  DEF Bar!Next, Bar!Main, Bar!Partclone, Bar!Poll

LEMMA BarOwnStatus ==
  ASSUME Bar!ProgressAssumption
  PROVE  Bar!Spec => []Bar!OwnStatus
<1>1. Bar!Init => BarTypeInv /\ BarIInv
  BY DEF Bar!ProgressAssumption, Bar!Init, BarTypeInv, Bar!TypeOK, Begun, Bar!Run,
         Bar!Status, Bar!NoStatus, BarIInv, ActiveOrStopped, FileOfThisRun, Bar!OwnStatus, Active
<1>2. (BarTypeInv /\ BarIInv) /\ [Bar!Next]_Bar!vars => (BarTypeInv /\ BarIInv)'
  BY BarTypeStep, BarIInvStep
<1>3. BarTypeInv /\ BarIInv => Bar!OwnStatus
  BY DEF BarIInv
<1> QED
  BY <1>1, <1>2, <1>3, PTL DEF Bar!Spec

-----------------------------------------------------------------------------
(* ImageCycle.                                                             *)

LEMMA PartsCounted ==
  ASSUME NEW v
  PROVE  Cycle!PartCount(v) = Cardinality(devs[v])
BY DEF Cycle!PartCount, Cycle!Cardinality, Cardinality

(* The number of parts of a capture fits the bound on the partitions.      *)
LEMMA PartCounts ==
  ASSUME Cycle!ImageCycleAssumption, Cycle!TypeOK, NEW v \in Cycle!Captures
  PROVE  IsFiniteSet(devs[v]) /\ Cycle!PartCount(v) \in 0..MaxDev
<1>1. devs[v] \in SUBSET (1..MaxDev)
  BY DEF Cycle!TypeOK, Cycle!DevNumbers
<1>2. MaxDev \in Nat
  BY DEF Cycle!ImageCycleAssumption
<1>3. IsFiniteSet(1..MaxDev) /\ Cardinality(1..MaxDev) = MaxDev
  BY <1>2, FS_Interval
<1>4. IsFiniteSet(devs[v]) /\ Cardinality(devs[v]) <= Cardinality(1..MaxDev)
  BY <1>1, <1>3, FS_Subset
<1>5. Cardinality(devs[v]) \in Nat
  BY <1>4, FS_CardinalityType
<1>6. Cardinality(devs[v]) \in 0..MaxDev
  BY <1>2, <1>3, <1>4, <1>5
<1> QED
  BY <1>4, <1>6, PartsCounted

(* A capture in progress has replaced the parts before the one it is at.   *)
Capturing ==
  /\ pc \in {"capture", "meta", "complete"} =>
       version \in Cycle!Captures /\ good = Cycle!None
  /\ pc = "capture" => /\ part \in 0..Cycle!PartCount(version)
                       /\ \A p \in 0..(part - 1) : stored[p] = version
  /\ pc \in {"meta", "complete"} =>
       \A p \in 0..Cycle!PartCount(version) : stored[p] = version

(* After a success, the image is that of one capture, and of all of it.    *)
WholeImage ==
  good # Cycle!None => \A p \in 0..Cycle!PartCount(good) : stored[p] = good

(* The metadata counts the parts of the capture it comes from, at fog-next *)
(* and in the hands of a deploy.                                           *)
Counted ==
  /\ meta # Cycle!None => count = Cycle!PartCount(meta)
  /\ told # Cycle!None => partCount = Cycle!PartCount(told)

(* What a deploy has restored up to part n is the image, and there is a    *)
(* partition for each part.                                                *)
RestoredUpTo(n) ==
  /\ disk[0] # Cycle!None /\ disk[0] = stored[0]
  /\ \A p \in 1..n : disk[p] = stored[p] /\ p \in devs[disk[0]]

Deploying ==
  /\ pc = "deploy" => part \in 1..partCount /\ RestoredUpTo(part - 1)
  /\ pc = "deployed" => RestoredUpTo(partCount)

CycleInv == Capturing /\ WholeImage /\ Counted /\ Deploying

LEMMA CycleInit ==
  ASSUME Cycle!ImageCycleAssumption, Cycle!Init
  PROVE  Cycle!TypeOK /\ CycleInv
<1>1. MaxDev \in Nat /\ MaxCaptures \in Nat
  BY DEF Cycle!ImageCycleAssumption
<1>2. Cycle!TypeOK
  <2>1. {meta, good, told} \subseteq Cycle!Captures \union {Cycle!None}
    BY DEF Cycle!Init
  <2>2. part \in 0..(MaxDev + 1) /\ version \in 0..MaxCaptures
    BY <1>1 DEF Cycle!Init
  <2>3. {count, partCount} \subseteq 0..MaxDev
    BY <1>1 DEF Cycle!Init
  <2> QED
    BY <2>1, <2>2, <2>3 DEF Cycle!Init, Cycle!TypeOK, Cycle!None
<1>3. CycleInv
  BY DEF Cycle!Init, Cycle!None, CycleInv, Capturing, WholeImage, Counted, Deploying
<1> QED
  BY <1>2, <1>3

LEMMA CycleStep ==
  ASSUME Cycle!ImageCycleAssumption, Cycle!TypeOK, CycleInv, [Cycle!Next]_Cycle!vars
  PROVE  Cycle!TypeOK' /\ CycleInv'
<1> USE DEF Cycle!TypeOK, Cycle!Parts, Cycle!None, Cycle!image, Cycle!deploy
<1>0. /\ MaxDev \in Nat /\ MaxCaptures \in Nat \ {0}
      /\ Cycle!Captures = 1..MaxCaptures
      /\ \A v \in Cycle!Captures : Cycle!PartCount(v) \in 0..MaxDev
  BY PartCounts DEF Cycle!ImageCycleAssumption, Cycle!Captures
<1>1. CASE Cycle!StartCapture
  <2>1. /\ pc' = "capture" /\ part' = 0 /\ version' = version + 1
        /\ version' \in Cycle!Captures /\ version' \in 0..MaxCaptures
        /\ good' = 0
        /\ UNCHANGED <<devs, stored, count, meta, sent, partCount, told, disk>>
    BY <1>0, <1>1 DEF Cycle!StartCapture
  <2>2. Cycle!TypeOK'
    <3>1. {meta', good', told'} \subseteq Cycle!Captures \union {0}
      BY <2>1
    <3>2. pc' \in {"idle", "capture", "meta", "complete", "captured", "deploy", "deployed"}
      BY <2>1
    <3>3. part' \in 0..(MaxDev + 1) /\ {count', partCount'} \subseteq 0..MaxDev
      BY <1>0, <2>1
    <3> QED
      BY <2>1, <3>1, <3>2, <3>3
  <2>3. Cycle!PartCount(version)' \in 0..MaxDev
    BY <1>0, <2>1 DEF Cycle!PartCount
  <2>4. Counted'
    BY <2>1 DEF CycleInv, Counted, Cycle!PartCount
  <2> QED
    BY <2>1, <2>2, <2>3, <2>4 DEF CycleInv, Capturing, WholeImage, Deploying
<1>2. CASE Cycle!Upload
  <2>1. /\ pc = "capture" /\ version \in Cycle!Captures /\ good = 0
        /\ part \in 0..Cycle!PartCount(version) /\ part \in 0..MaxDev
        /\ \A p \in 0..(part - 1) : stored[p] = version
    BY <1>0, <1>2 DEF Cycle!Upload, CycleInv, Capturing
  <2>2. /\ stored' = [stored EXCEPT ![part] = version] /\ part' = part + 1
        /\ pc' = IF part < Cycle!PartCount(version) THEN "capture" ELSE "meta"
        /\ UNCHANGED <<version, devs, count, meta, sent, good, partCount, told, disk>>
    BY <1>2 DEF Cycle!Upload
  <2>3. \A p \in 0..part : stored'[p] = version
    BY <1>0, <2>1, <2>2
  <2>4. Cycle!TypeOK'
    BY <1>0, <2>1, <2>2
  <2>5. Cycle!PartCount(version)' = Cycle!PartCount(version)
    BY <2>2 DEF Cycle!PartCount
  <2>6. Capturing'
    BY <1>0, <2>1, <2>2, <2>3, <2>5 DEF Capturing
  <2>7. Counted'
    BY <2>2 DEF CycleInv, Counted, Cycle!PartCount
  <2> QED
    BY <2>1, <2>2, <2>4, <2>6, <2>7 DEF CycleInv, WholeImage, Deploying
<1>3. CASE Cycle!SetMeta
  <2>1. /\ pc = "meta" /\ version \in Cycle!Captures /\ good = 0
        /\ \A p \in 0..Cycle!PartCount(version) : stored[p] = version
        /\ Cycle!PartCount(version) \in 0..MaxDev
    BY <1>0, <1>3 DEF Cycle!SetMeta, CycleInv, Capturing
  <2>2. /\ pc' = "complete" /\ sent' = sent \union {version}
        /\ \/ count' = Cycle!PartCount(version) /\ meta' = version
           \/ UNCHANGED <<count, meta>>
        /\ UNCHANGED <<part, version, devs, stored, good, partCount, told, disk>>
    BY <1>3 DEF Cycle!SetMeta
  <2>3. Cycle!TypeOK'
    BY <1>0, <2>1, <2>2
  <2>4. Cycle!PartCount(version)' = Cycle!PartCount(version)
    BY <2>2 DEF Cycle!PartCount
  <2>5. Counted'
    BY <2>2 DEF CycleInv, Counted, Cycle!PartCount
  <2> QED
    BY <2>1, <2>2, <2>3, <2>4, <2>5 DEF CycleInv, Capturing, WholeImage, Deploying
<1>4. CASE Cycle!Complete
  <2>1. /\ pc = "complete" /\ version \in Cycle!Captures
        /\ \A p \in 0..Cycle!PartCount(version) : stored[p] = version
    BY <1>4 DEF Cycle!Complete, CycleInv, Capturing
  <2>2. /\ pc' = "captured" /\ good' = version
        /\ UNCHANGED <<part, version, devs, stored, count, meta, sent, partCount, told, disk>>
    BY <1>4 DEF Cycle!Complete
  <2>3. Cycle!TypeOK'
    BY <2>1, <2>2
  <2>4. WholeImage' /\ Counted'
    BY <2>1, <2>2 DEF CycleInv, WholeImage, Counted, Cycle!PartCount
  <2> QED
    BY <2>2, <2>3, <2>4 DEF CycleInv, Capturing, Deploying
<1>5. ASSUME NEW v \in Cycle!Captures, Cycle!Arrive(v) PROVE Cycle!TypeOK' /\ CycleInv'
  <2>1. /\ count' = Cycle!PartCount(v) /\ meta' = v
        /\ UNCHANGED <<pc, part, version, devs, stored, sent, good, partCount, told, disk>>
    BY <1>5 DEF Cycle!Arrive
  <2>2. Cycle!TypeOK'
    BY <1>0, <2>1
  <2>3. Counted'
    BY <2>1 DEF CycleInv, Counted, Cycle!PartCount
  <2>4. Capturing' /\ WholeImage'
    BY <2>1 DEF CycleInv, Capturing, WholeImage, Cycle!PartCount
  <2> QED
    BY <2>1, <2>2, <2>3, <2>4 DEF CycleInv, Deploying, RestoredUpTo
<1>6. CASE Cycle!StartDeploy
  <2>1. /\ stored[0] # 0 /\ disk' = [disk EXCEPT ![0] = stored[0]] /\ part' = 1
        /\ partCount' = count /\ told' = meta
        /\ pc' = IF count = 0 THEN "deployed" ELSE "deploy"
        /\ UNCHANGED <<version, devs, stored, count, meta, sent, good>>
    BY <1>6 DEF Cycle!StartDeploy
  <2>2. Cycle!TypeOK' /\ disk'[0] = stored[0]
    BY <1>0, <2>1
  <2>3. WholeImage' /\ Counted'
    BY <2>1 DEF CycleInv, WholeImage, Counted, Cycle!PartCount
  <2>4. Deploying'
    BY <2>1, <2>2 DEF Deploying, RestoredUpTo
  <2> QED
    BY <2>1, <2>2, <2>3, <2>4 DEF CycleInv, Capturing
<1>7. CASE Cycle!Download
  <2>1. /\ part \in 1..partCount /\ part \in 1..MaxDev /\ RestoredUpTo(part - 1)
        /\ part \in devs[disk[0]]
    BY <1>0, <1>7 DEF Cycle!Download, CycleInv, Deploying
  <2>2. /\ disk' = [disk EXCEPT ![part] = stored[part]] /\ part' = part + 1
        /\ pc' = IF part < partCount THEN "deploy" ELSE "deployed"
        /\ UNCHANGED <<version, devs, stored, count, meta, sent, good, partCount, told>>
    BY <1>7 DEF Cycle!Download
  <2>3. Cycle!TypeOK'
    BY <1>0, <2>1, <2>2
  <2>4. WholeImage' /\ Counted'
    BY <2>2 DEF CycleInv, WholeImage, Counted, Cycle!PartCount
  <2>5. disk'[0] = disk[0] /\ \A p \in 1..part : disk'[p] = stored[p] /\ p \in devs[disk[0]]
    BY <1>0, <2>1, <2>2 DEF RestoredUpTo
  <2>6. Deploying'
    BY <2>1, <2>2, <2>5 DEF Deploying, RestoredUpTo
  <2> QED
    BY <2>2, <2>3, <2>4, <2>6 DEF CycleInv, Capturing
<1>8. CASE Cycle!Fail
  BY <1>0, <1>8 DEF Cycle!Fail, CycleInv, Capturing, WholeImage, Counted, Deploying,
                    Cycle!PartCount
<1>9. CASE UNCHANGED Cycle!vars
  BY <1>9 DEF Cycle!vars, CycleInv, Capturing, WholeImage, Counted, Deploying,
              RestoredUpTo, Cycle!PartCount
<1> QED
  BY <1>1, <1>2, <1>3, <1>4, <1>5, <1>6, <1>7, <1>8, <1>9 DEF Cycle!Next

(* Parts 1 to n fill the partitions of the capture they come from: there   *)
(* are as many of one as of the other.                                     *)
LEMMA PartsArePartitions ==
  ASSUME Cycle!ImageCycleAssumption, Cycle!TypeOK, CycleInv
  PROVE  Cycle!DeploysLastCapture
<1> SUFFICES ASSUME pc = "deployed", good # Cycle!None, told = good
             PROVE  Cycle!Holds(good)
  BY DEF Cycle!DeploysLastCapture
<1>1. good \in Cycle!Captures
  BY DEF Cycle!TypeOK
<1>0. partCount = Cycle!PartCount(good) /\ partCount \in Nat
  BY DEF CycleInv, Counted, Cycle!TypeOK
<1>2. IsFiniteSet(devs[good]) /\ partCount = Cardinality(devs[good]) /\ partCount \in Nat
  BY <1>0, <1>1, PartCounts, PartsCounted
<1>3. disk[0] = good /\ \A p \in 1..partCount : disk[p] = good /\ p \in devs[good]
  BY <1>0 DEF CycleInv, Deploying, RestoredUpTo, WholeImage
<1>4. (1..partCount) \in SUBSET devs[good]
  BY <1>3
<1>5. Cardinality(1..partCount) = partCount
  BY <1>2, FS_Interval
<1>6. devs[good] = 1..partCount
  BY <1>2, <1>4, <1>5, FS_Subset
<1> QED
  BY <1>3, <1>6 DEF Cycle!Holds

LEMMA CycleCorrect ==
  ASSUME Cycle!ImageCycleAssumption
  PROVE  Cycle!Spec => [](Cycle!TypeOK /\ Cycle!DeploysLastCapture)
<1>1. Cycle!Init => Cycle!TypeOK /\ CycleInv
  BY CycleInit
<1>2. Cycle!TypeOK /\ CycleInv /\ [Cycle!Next]_Cycle!vars => (Cycle!TypeOK /\ CycleInv)'
  BY CycleStep
<1>3. Cycle!TypeOK /\ CycleInv => Cycle!TypeOK /\ Cycle!DeploysLastCapture
  BY PartsArePartitions
<1> QED
  BY <1>1, <1>2, <1>3, PTL DEF Cycle!Spec

-----------------------------------------------------------------------------
(* The three side by side: a step of the whole is a step of one of them    *)
(* and leaves the variables of the others alone.                           *)

LEMMA InitOfEach == ImagingInit => Init /\ Bar!Init /\ Cycle!Init
BY DEF ImagingInit, ToolsRest, CycleRests

LEMMA StepOfEach ==
  [ImagingNext]_imagingVars =>
    [Next]_vars /\ [Bar!Next]_Bar!vars /\ [Cycle!Next]_Cycle!vars
<1>1. UNCHANGED barVars => UNCHANGED Bar!vars
  BY DEF barVars, Bar!vars, Bar!partclone, Bar!goroutine
<1>2. UNCHANGED cycleVars => UNCHANGED Cycle!vars
  BY DEF cycleVars, Cycle!vars, Cycle!image, Cycle!deploy
<1>3. ImagingNext =>
        \/ Next /\ UNCHANGED <<barVars, cycleVars>>
        \/ Bar!Next /\ UNCHANGED <<vars, cycleVars>>
        \/ Cycle!Next /\ UNCHANGED <<vars, barVars>>
  BY DEF ImagingNext
<1>4. UNCHANGED imagingVars => UNCHANGED <<vars, barVars, cycleVars>>
  BY DEF imagingVars
<1> QED
  BY <1>1, <1>2, <1>3, <1>4

LEMMA SpecOfEach == ImagingSpec => Spec /\ Bar!Spec /\ Cycle!Spec
BY InitOfEach, StepOfEach, PTL DEF ImagingSpec, Spec, Bar!Spec, Cycle!Spec

(* Every variable of the three keeps its type: indices stay within the     *)
(* image, the runs and the partitions.                                     *)
THEOREM ImagingTyped == ImagingSpec => []ImagingTypes
<1>1. ImagingTypes <=> TypeOK /\ Bar!TypeOK /\ Cycle!TypeOK
  BY DEF ImagingTypes
<1> QED
  BY <1>1, SpecOfEach, TypeCorrect, BarTypeCorrect, CycleCorrect, ImagingAssumption, PTL
  DEF ImagingAssumption

(* No goroutine passes on the status of an earlier run, nor, before its    *)
(* own run has ended, that of a later one, however many runs outlive       *)
(* theirs.  (imaging.go:39-49,60-70)                                       *)
THEOREM StatusIsOwn == ImagingSpec => []OwnStatus
<1>1. OwnStatus <=> Bar!OwnStatus
  BY DEF OwnStatus
<1> QED
  BY <1>1, SpecOfEach, BarOwnStatus, ImagingAssumption, PTL DEF ImagingAssumption

(* A deploy that succeeds after a successful capture whose metadata it was *)
(* given has put that capture on the disk, whole, for any partitions, any  *)
(* history of captures and deploys, and any metadata that arrives late.    *)
(* (actions.go:113-115, 227-230, 307-313)                                  *)
THEOREM LastCaptureDeployed == ImagingSpec => []DeploysLastCapture
<1>1. DeploysLastCapture <=> Cycle!DeploysLastCapture
  BY DEF DeploysLastCapture
<1> QED
  BY <1>1, SpecOfEach, CycleCorrect, ImagingAssumption, PTL DEF ImagingAssumption
=============================================================================

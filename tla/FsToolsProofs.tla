--------------------------- MODULE FsToolsProofs ---------------------------
(***************************************************************************)
(* Proofs about the filesystem tools, for any number of partitions and any *)
(* of the known types: a resize touches its own partition only, what was   *)
(* reported as shrunk stays shrunk, and partclone copies nothing that a    *)
(* working umount has left mounted.                                        *)
(***************************************************************************)
EXTENDS FsTools, TLAPS

(* The mount of the operation in progress is the visible one.              *)
OwnMount ==
  umount => /\ ops # <<>> /\ op # "copy"
            /\ mounts[fs] # <<>> /\ Last(mounts[fs]) = device

(* There is a partition while there is something to do; only shrinks and   *)
(* other scripts have commands, and none mounts twice.                     *)
ScriptFits ==
  /\ ops # <<>> => device \in Device
  /\ ops = <<>> \/ op = "copy" => rest = <<>>
  /\ \A i \in 1..Len(rest) : rest[i] = "mount" => i = 1 /\ ~umount

(* Before the context ends, what is mounted is mounted by the operation in *)
(* progress, or its umount has failed.                                     *)
MountsKnown ==
  ~cancelled =>
    \A t \in Types : \A i \in 1..Len(mounts[t]) :
      mounts[t][i] \in stuck \/ (umount /\ t = fs /\ i = Len(mounts[t]))

(* A shrink is followed by the copy and ends with its resize.              *)
ShrinkScript ==
  /\ \A i \in 1..Len(ops) : ops[i] = "shrink" => Len(ops) = i + 1 /\ ops[i + 1] = "copy"
  /\ ops # <<>> /\ op = "shrink" =>
       /\ rest # <<>> => rest[Len(rest)] = "resize"
       /\ rest = <<>> /\ ~error => extent[device] = "min"

(* A partition that was shrunk is waiting for its copy, or is done with.   *)
ShrunkEarlier ==
  \A d \in Device : shrunk[d] # "none" =>
    d < device \/ (d = device /\ Len(ops) = 1 /\ ops[1] = "copy")

-----------------------------------------------------------------------------
LEMMA Tuples ==
  ASSUME NEW a, NEW b, NEW c
  PROVE  /\ Len(<<a>>) = 1 /\ <<a>>[1] = a /\ <<a>> # <<>>
         /\ Len(<<a, b>>) = 2 /\ <<a, b>>[1] = a /\ <<a, b>>[2] = b /\ <<a, b>> # <<>>
         /\ Len(<<a, b, c>>) = 3 /\ <<a, b, c>>[1] = a /\ <<a, b, c>>[2] = b
         /\ <<a, b, c>>[3] = c /\ <<a, b, c>> # <<>>
OBVIOUS

Commands == {"probe", "fsck", "mount", "remove", "resize"}
Names == {"clean", "shrink", "copy", "expand"}

LEMMA TupleTypes ==
  /\ \A a \in Commands : <<a>> \in Seq(Commands)
  /\ \A a, b \in Commands : <<a, b>> \in Seq(Commands)
  /\ \A a \in Names : <<a>> \in Seq(Names)
  /\ \A a, b \in Names : <<a, b>> \in Seq(Names)
  /\ \A a, b, c \in Names : <<a, b, c>> \in Seq(Names)
<1>1. /\ \A a \in Commands : <<a>> \in Seq(Commands)
      /\ \A a \in Names : <<a>> \in Seq(Names)
  OBVIOUS
<1>2. /\ \A a, b \in Commands : <<a, b>> \in Seq(Commands)
      /\ \A a, b \in Names : <<a, b>> \in Seq(Names)
  OBVIOUS
<1>3. \A a, b, c \in Names : <<a, b, c>> \in Seq(Names)
  OBVIOUS
<1> QED
  BY <1>1, <1>2, <1>3

(* Every script is well formed: a mount comes first, a shrink's resize     *)
(* last, and a copy has no commands.                                       *)
WellFormed(s) == s \in Seq(Commands) /\ \A i \in 1..Len(s) : s[i] = "mount" => i = 1

LEMMA Scripts ==
  \A o : /\ WellFormed(Script(o))
         /\ o = "copy" => Script(o) = <<>>
         /\ o = "shrink" => Script(o) # <<>> /\ Script(o)[Len(Script(o))] = "resize"
<1>1. \A a \in {"mount", "probe", "fsck"}, b \in Commands \ {"mount"} :
        WellFormed(<<a, b>>) /\ Len(<<a, b>>) = 2 /\ <<a, b>>[2] = b /\ <<a, b>> # <<>>
  <2> TAKE a \in {"mount", "probe", "fsck"}, b \in Commands \ {"mount"}
  <2>1. a \in Commands /\ b \in Commands /\ b # "mount"
    BY DEF Commands
  <2>2. \A i \in 1..2 : i = 1 \/ i = 2
    OBVIOUS
  <2> QED
    BY <2>1, <2>2, Tuples, TupleTypes DEF WellFormed
<1>2. WellFormed(<<"resize">>) /\ WellFormed(<<>>)
  <2>1. \A i \in 1..1 : i = 1
    OBVIOUS
  <2>2. WellFormed(<<"resize">>)
    <3>1. "resize" \in Commands
      BY DEF Commands
    <3> QED
      BY <2>1, <3>1, Tuples, TupleTypes DEF WellFormed
  <2>3. WellFormed(<<>>)
    BY DEF WellFormed
  <2> QED
    BY <2>2, <2>3
<1> TAKE o
<1>3. CASE o = "clean"
  <2>1. Script(o) = <<"mount", "remove">>
    BY <1>3 DEF Script, Clean
  <2> QED
    BY <1>1, <1>3, <2>1 DEF Commands
<1>4. CASE o = "shrink"
  <2>1. \E a \in {"mount", "probe", "fsck"} : Script(o) = <<a, "resize">>
    BY <1>4 DEF Script, Shrink
  <2> QED
    BY <1>1, <1>4, <2>1 DEF Commands
<1>5. CASE o = "expand"
  <2>1. \/ Script(o) = <<"mount", "resize">>
        \/ Script(o) = <<"resize">>
        \/ Script(o) = <<>>
    BY <1>5 DEF Script, Expand
  <2> QED
    BY <1>1, <1>2, <1>5, <2>1 DEF Commands
<1>6. CASE o \notin {"clean", "shrink", "expand"}
  <2>1. Script(o) = <<>>
    BY <1>6 DEF Script
  <2> QED
    BY <1>2, <1>6, <2>1
<1> QED
  BY <1>3, <1>4, <1>5, <1>6

(* A shrink is followed by the copy and by nothing else.                   *)
ThenCopy(s) == \A i \in 1..Len(s) : s[i] = "shrink" => Len(s) = i + 1 /\ s[i + 1] = "copy"

LEMMA OperationsShape ==
  Operations \in Seq(Names) /\ Operations # <<>> /\ ThenCopy(Operations)
<1>1. CASE Operations = <<"copy", "expand">>
  <2>1. \A i \in 1..2 : i = 1 \/ i = 2
    OBVIOUS
  <2> QED
    BY <1>1, <2>1, Tuples, TupleTypes DEF Names, ThenCopy
<1>2. CASE Operations = <<"clean", "shrink", "copy">>
  <2>1. \A i \in 1..3 : i = 1 \/ i = 2 \/ i = 3
    OBVIOUS
  <2> QED
    BY <1>2, <2>1, Tuples, TupleTypes DEF Names, ThenCopy
<1>3. CASE Operations = <<"shrink", "copy">>
  <2>1. \A i \in 1..2 : i = 1 \/ i = 2
    OBVIOUS
  <2> QED
    BY <1>3, <2>1, Tuples, TupleTypes DEF Names, ThenCopy
<1>4. CASE Operations = <<"copy">>
  <2>1. \A i \in 1..1 : i = 1
    OBVIOUS
  <2> QED
    BY <1>4, <2>1, Tuples, TupleTypes DEF Names, ThenCopy
<1> QED
  BY <1>1, <1>2, <1>3, <1>4 DEF Operations

LEMMA SubSeqFacts ==
  ASSUME NEW S, NEW s \in Seq(S), NEW n \in Nat, n <= Len(s)
  PROVE  /\ SubSeq(s, 1, n) \in Seq(S) /\ Len(SubSeq(s, 1, n)) = n
         /\ \A i \in 1..n : SubSeq(s, 1, n)[i] = s[i]
OBVIOUS

(* Front and Tail take one element away and keep the others in order.      *)
LEMMA FrontFacts ==
  ASSUME NEW S, NEW s \in Seq(S), s # <<>>
  PROVE  /\ Front(s) \in Seq(S) /\ Len(Front(s)) = Len(s) - 1 /\ Len(s) \in Nat \ {0}
         /\ \A i \in 1..Len(Front(s)) : Front(s)[i] = s[i]
         /\ Last(s) = s[Len(s)] /\ Last(s) \in S
<1>1. Len(s) \in Nat \ {0} /\ s[Len(s)] \in S
  OBVIOUS
<1>2. Front(s) = SubSeq(s, 1, Len(s) - 1) /\ Last(s) = s[Len(s)]
  BY DEF Front, Last
<1>3. Len(s) - 1 \in Nat /\ Len(s) - 1 <= Len(s)
  BY <1>1
<1> DEFINE n == Len(s) - 1
<1>4. /\ SubSeq(s, 1, n) \in Seq(S) /\ Len(SubSeq(s, 1, n)) = n
      /\ \A i \in 1..n : SubSeq(s, 1, n)[i] = s[i]
  <2> HIDE DEF n
  <2>1. n \in Nat /\ n <= Len(s)
    BY <1>3 DEF n
  <2> QED
    BY <2>1, SubSeqFacts
<1> QED
  BY <1>1, <1>2, <1>4, Zenon

LEMMA TailFacts ==
  ASSUME NEW S, NEW s \in Seq(S), s # <<>>
  PROVE  /\ Tail(s) \in Seq(S) /\ Len(Tail(s)) = Len(s) - 1 /\ Len(s) \in Nat \ {0}
         /\ \A i \in 1..Len(Tail(s)) : Tail(s)[i] = s[i + 1]
         /\ Head(s) = s[1] /\ s[1] \in S
OBVIOUS
-----------------------------------------------------------------------------
Position == /\ ScriptFits /\ ShrinkScript
            /\ OwnMount

Disk == /\ MountsKnown /\ ShrunkEarlier /\ ShrunkIsSmall

IInv == Position /\ Disk

(* What holds of the place in the script after Continue.                   *)
LEMMA ContinueStep ==
  ASSUME TypeOK, NEW todo \in Seq(Names), ThenCopy(todo), Continue(todo)
  PROVE  /\ ops' = todo /\ rest' \in Seq(Commands) /\ error' = FALSE
         /\ todo = <<>> \/ Head(todo) = "copy" => rest' = <<>>
         /\ \A i \in 1..Len(rest') : rest'[i] = "mount" => i = 1
         /\ todo # <<>> /\ Head(todo) = "shrink" =>
              rest' # <<>> /\ rest'[Len(rest')] = "resize"
         /\ todo = <<>> => device' = device + 1
         /\ todo # <<>> => device' = device
<1>1. /\ ops' = todo /\ error' = FALSE
      /\ todo = <<>> => device' = device + 1
      /\ todo # <<>> => device' = device
      /\ todo = <<>> => rest' = <<>>
      /\ todo # <<>> => rest' = Script(Head(todo))
  BY DEF Continue
<1>2. CASE todo = <<>>
  BY <1>1, <1>2
<1>3. CASE todo # <<>>
  <2>1. WellFormed(rest')
    BY <1>1, <1>3, Scripts
  <2>2. Head(todo) = "copy" => rest' = <<>>
    BY <1>1, <1>3, Scripts
  <2>3. Head(todo) = "shrink" => rest' # <<>> /\ rest'[Len(rest')] = "resize"
    BY <1>1, <1>3, Scripts, Zenon
  <2> QED
    BY <1>1, <1>3, <2>1, <2>2, <2>3 DEF WellFormed
<1> QED
  BY <1>2, <1>3

(* What is left of a sequence of operations has its shape.                 *)
LEMMA TailShape ==
  ASSUME NEW s \in Seq(Names), s # <<>>, ThenCopy(s)
  PROVE  /\ Tail(s) \in Seq(Names) /\ ThenCopy(Tail(s))
         /\ Head(s) = "shrink" => Len(Tail(s)) = 1 /\ Tail(s)[1] = "copy"
         /\ Head(s) = "shrink" => Tail(s) # <<>>
<1>1. /\ Tail(s) \in Seq(Names) /\ Len(Tail(s)) = Len(s) - 1 /\ Len(s) \in Nat \ {0}
      /\ \A i \in 1..Len(Tail(s)) : Tail(s)[i] = s[i + 1]
      /\ Head(s) = s[1]
  BY TailFacts
<1>2. ASSUME NEW i \in 1..Len(Tail(s)), Tail(s)[i] = "shrink"
      PROVE  Len(Tail(s)) = i + 1 /\ Tail(s)[i + 1] = "copy"
  <2>1. s[i + 1] = "shrink" /\ i + 1 \in 1..Len(s)
    BY <1>1, <1>2
  <2>2. Len(s) = (i + 1) + 1 /\ s[(i + 1) + 1] = "copy"
    BY <2>1 DEF ThenCopy
  <2>3. Len(Tail(s)) = i + 1 /\ i + 1 \in 1..Len(Tail(s))
    BY <1>1, <2>2
  <2> QED
    BY <1>1, <2>2, <2>3
<1>3. ASSUME Head(s) = "shrink" PROVE Len(Tail(s)) = 1 /\ Tail(s)[1] = "copy"
  <2>1. Len(s) = 1 + 1 /\ s[1 + 1] = "copy"
    <3>1. 1 \in 1..Len(s) /\ s[1] = "shrink"
      BY <1>1, <1>3
    <3> QED
      BY <3>1 DEF ThenCopy
  <2>2. Len(Tail(s)) = 1
    <3>1. Len(Tail(s)) = Len(s) - 1 /\ Len(s) = 2
      BY <1>1, <2>1
    <3> QED
      BY <3>1
  <2>3. 1 \in 1..Len(Tail(s)) /\ 1 + 1 = 2
    BY <2>2
  <2>4. Tail(s)[1] = s[2] /\ s[2] = "copy"
    BY <1>1, <2>1, <2>3
  <2> QED
    BY <2>2, <2>4
<1>4. ThenCopy(Tail(s))
  BY <1>2 DEF ThenCopy
<1>5. Len(Tail(s)) = 1 => Tail(s) # <<>>
  <2>1. Len(<<>>) = 0
    OBVIOUS
  <2>2. ~(0 = 1)
    OBVIOUS
  <2> QED
    BY <2>1, <2>2, Zenon
<1> QED
  BY <1>1, <1>3, <1>4, <1>5, Zenon

(* A command that is done leaves no mount behind it in the script.         *)
LEMMA CommandStep ==
  ASSUME TypeOK, IInv, ops # <<>>, rest # <<>>, rest' = Tail(rest)
  PROVE  /\ rest' \in Seq(Commands)
         /\ \A i \in 1..Len(rest') : rest'[i] # "mount"
         /\ rest' # <<>> => rest'[Len(rest')] = rest[Len(rest)]
         /\ rest' = <<>> => rest[Len(rest)] = Head(rest)
         /\ device \in Device /\ op # "copy"
<1>1. rest \in Seq(Commands)
  BY DEF TypeOK, TypePlace, Commands
<1>2. /\ rest' \in Seq(Commands) /\ Len(rest') = Len(rest) - 1 /\ Len(rest) \in Nat \ {0}
      /\ \A i \in 1..Len(rest') : rest'[i] = rest[i + 1]
      /\ Head(rest) = rest[1]
  BY <1>1, TailFacts
<1>3. /\ device \in Device /\ op # "copy"
      /\ \A i \in 1..Len(rest) : rest[i] = "mount" => i = 1
  BY DEF IInv, Position, ScriptFits
<1>4. \A i \in 1..Len(rest') : rest'[i] # "mount"
  BY <1>2, <1>3
<1>5. ASSUME rest' # <<>> PROVE rest'[Len(rest')] = rest[Len(rest)]
  <2>1. Len(rest') \in 1..Len(rest')
    BY <1>2, <1>5
  <2> QED
    BY <1>2, <2>1
<1>6. ASSUME rest' = <<>> PROVE rest[Len(rest)] = Head(rest)
  <2>1. Len(rest) = 1
    BY <1>2, <1>6
  <2> QED
    BY <1>2, <2>1
<1> QED
  BY <1>2, <1>3, <1>4, <1>5, <1>6

-----------------------------------------------------------------------------
(* A step that goes on with todo keeps everything, if its disk and what is *)
(* mounted stay and ShrunkEarlier and ShrunkIsSmall are seen to.           *)
LEMMA ContinueKeeps ==
  ASSUME ToolsAssumption, TypeOK, IInv,
         NEW todo \in Seq(Names), ThenCopy(todo), Continue(todo),
         device \in Device, ~umount,
         UNCHANGED <<inputs, umount, mounts, damaged, extent, faults, cancelled>>,
         shrunk' \in [Device -> {"none", "true", "error"}],
         ShrunkEarlier', ShrunkIsSmall'
  PROVE  TypeOK' /\ IInv'
<1>1. /\ ops' = todo /\ rest' \in Seq(Commands) /\ error' = FALSE
      /\ todo = <<>> \/ Head(todo) = "copy" => rest' = <<>>
      /\ \A i \in 1..Len(rest') : rest'[i] = "mount" => i = 1
      /\ todo # <<>> /\ Head(todo) = "shrink" =>
           rest' # <<>> /\ rest'[Len(rest')] = "resize"
      /\ todo = <<>> => device' = device + 1
      /\ todo # <<>> => device' = device
  BY ContinueStep
<1>2. /\ task' = task /\ type' = type /\ umount' = umount /\ mounts' = mounts
      /\ damaged' = damaged /\ extent' = extent /\ faulty' = faulty /\ stuck' = stuck
      /\ cancelled' = cancelled
  BY DEF inputs, faults
<1>3. device' \in 1..Devices + 1 /\ (todo # <<>> => device' \in Device)
  BY <1>1 DEF ToolsAssumption, Device
<1>4. TypeOK'
  BY <1>1, <1>2, <1>3 DEF TypeOK, TypePlace, TypeDisk, Names, Commands
<1>5. ScriptFits'
  BY <1>1, <1>2, <1>3 DEF ScriptFits, op
<1>6. ShrinkScript'
  <2>1. \A i \in 1..Len(ops') : ops'[i] = "shrink" => Len(ops') = i + 1 /\ ops'[i + 1] = "copy"
    BY <1>1 DEF ThenCopy
  <2> QED
    BY <1>1, <2>1 DEF ShrinkScript, op
<1>7. OwnMount'
  BY <1>2 DEF OwnMount
<1>8. MountsKnown'
  BY <1>2 DEF IInv, Disk, MountsKnown
<1> QED
  BY <1>4, <1>5, <1>6, <1>7, <1>8 DEF IInv, Position, Disk

(* The visible mount is the partition's own, so a resize acts on it.       *)
LEMMA OwnTarget ==
  ASSUME TypeOK, IInv, ops # <<>>
  PROVE  Target = device /\ device \in Device
BY DEF IInv, Position, OwnMount, ScriptFits, Target

(* Where there are commands left, nothing is known of the partition yet.   *)
LEMMA NotYetShrunk ==
  ASSUME TypeOK, IInv, ops # <<>>, rest # <<>>
  PROVE  shrunk[device] = "none"
<1>1. op # "copy" /\ device \in Device
  BY DEF IInv, Position, ScriptFits
<1>2. ops \in Seq(Names)
  BY DEF TypeOK, TypePlace, Names
<1>3. ops[1] # "copy"
  BY <1>1, <1>2, TailFacts DEF op
<1>4. device \in Nat
  BY <1>1 DEF Device
<1> QED
  BY <1>1, <1>3, <1>4 DEF IInv, Disk, ShrunkEarlier

(* What follows from a step that leaves the operation and its partition.   *)
LEMMA SameOperation ==
  ASSUME TypeOK, UNCHANGED <<inputs, device, ops, shrunk, cancelled>>
  PROVE  /\ task' = task /\ type' = type /\ device' = device /\ ops' = ops
         /\ shrunk' = shrunk /\ cancelled' = cancelled
         /\ op' = op /\ fs' = fs
BY DEF inputs, op, fs

(* What a command that is done preserves, whatever it does to the disk.    *)
LEMMA AfterCommand ==
  ASSUME TypeOK, IInv, ops # <<>>, rest # <<>>, rest' = Tail(rest), error' = error,
         UNCHANGED <<inputs, device, ops, shrunk, cancelled>>, umount' \in BOOLEAN,
         Head(rest) = "resize" /\ op = "shrink" => extent'[device] = "min"
  PROVE  TypePlace' /\ ScriptFits' /\ ShrinkScript' /\ ShrunkEarlier'
<1>1. /\ rest' \in Seq(Commands)
      /\ \A i \in 1..Len(rest') : rest'[i] # "mount"
      /\ rest' # <<>> => rest'[Len(rest')] = rest[Len(rest)]
      /\ rest' = <<>> => rest[Len(rest)] = Head(rest)
      /\ device \in Device /\ op # "copy"
  BY CommandStep
<1>2. device' = device /\ ops' = ops /\ shrunk' = shrunk /\ op' = op
  BY SameOperation
<1>3. TypePlace'
  BY <1>1, <1>2 DEF TypeOK, TypePlace, Commands
<1>4. ScriptFits'
  BY <1>1, <1>2 DEF ScriptFits
<1>5. ShrinkScript'
  <2>1. \A i \in 1..Len(ops') : ops'[i] = "shrink" => Len(ops') = i + 1 /\ ops'[i + 1] = "copy"
    BY <1>2 DEF IInv, Position, ShrinkScript
  <2>2. ASSUME op = "shrink" PROVE rest[Len(rest)] = "resize"
    BY <2>2 DEF IInv, Position, ShrinkScript
  <2> QED
    BY <1>1, <1>2, <2>1, <2>2 DEF ShrinkScript
<1>6. ShrunkEarlier'
  BY <1>2 DEF IInv, Disk, ShrunkEarlier
<1> QED
  BY <1>3, <1>4, <1>5, <1>6

(* What an operation that gives up preserves.                              *)
LEMMA AfterAbort ==
  ASSUME TypeOK, IInv, ops # <<>>, rest # <<>>, Abort, umount' = umount, mounts' = mounts
  PROVE  TypePlace' /\ ScriptFits' /\ ShrinkScript' /\ ShrunkEarlier' /\ OwnMount'
<1>1. /\ rest' = <<>> /\ error' = TRUE
      /\ UNCHANGED <<inputs, device, ops, shrunk, cancelled>>
  BY DEF Abort
<1>2. device' = device /\ ops' = ops /\ shrunk' = shrunk /\ op' = op /\ fs' = fs
  BY <1>1, SameOperation
<1>3. TypePlace'
  BY <1>1, <1>2 DEF TypeOK, TypePlace
<1>4. ScriptFits'
  <2>1. Len(rest') = 0
    BY <1>1
  <2> QED
    BY <1>1, <1>2, <2>1 DEF IInv, Position, ScriptFits
<1>5. ShrinkScript'
  BY <1>1, <1>2 DEF IInv, Position, ShrinkScript
<1>6. ShrunkEarlier'
  BY <1>2 DEF IInv, Disk, ShrunkEarlier
<1>7. OwnMount'
  BY <1>2 DEF IInv, Position, OwnMount
<1> QED
  BY <1>3, <1>4, <1>5, <1>6, <1>7

LEMMA MountStep ==
  ASSUME TypeOK, IInv, Mount
  PROVE  TypeOK' /\ IInv'
<1>1. /\ ops # <<>> /\ rest # <<>> /\ Head(rest) = "mount" /\ ~cancelled
      /\ rest' = Tail(rest) /\ error' = error /\ umount' = TRUE
      /\ damaged' = damaged /\ extent' = extent /\ faulty' = faulty /\ stuck' = stuck
      /\ mounts' = [mounts EXCEPT ![fs] = Append(@, device)]
      /\ UNCHANGED <<inputs, device, ops, shrunk, cancelled>>
  BY DEF Mount, Run, Comes, faults
<1>2. /\ task' = task /\ type' = type /\ device' = device /\ ops' = ops
      /\ shrunk' = shrunk /\ cancelled' = cancelled /\ op' = op /\ fs' = fs
  BY <1>1, SameOperation
<1>3. TypePlace' /\ ScriptFits' /\ ShrinkScript' /\ ShrunkEarlier'
  BY <1>1, AfterCommand
<1>4. device \in Device /\ op # "copy" /\ ~umount /\ fs \in Types
  <2>1. device \in Device /\ op # "copy"
    BY <1>1 DEF IInv, Position, ScriptFits
  <2>2. rest \in Seq(Commands)
    BY DEF TypeOK, TypePlace, Commands
  <2>3. rest[1] = "mount" /\ 1 \in 1..Len(rest)
    BY <1>1, <2>2, TailFacts
  <2> QED
    BY <2>1, <2>3 DEF IInv, Position, ScriptFits, TypeOK, fs
<1>5. /\ mounts \in [Types -> Seq(Device)] /\ mounts[fs] \in Seq(Device)
      /\ mounts' \in [Types -> Seq(Device)]
      /\ mounts'[fs] = Append(mounts[fs], device)
      /\ \A t \in Types : t # fs => mounts'[t] = mounts[t]
  BY <1>1, <1>4 DEF TypeOK, TypeDisk
<1>6. /\ Len(mounts'[fs]) = Len(mounts[fs]) + 1 /\ Len(mounts[fs]) \in Nat
      /\ mounts'[fs] # <<>> /\ Last(mounts'[fs]) = device
      /\ \A i \in 1..Len(mounts[fs]) : mounts'[fs][i] = mounts[fs][i]
  BY <1>4, <1>5 DEF Last
<1>7. TypeOK'
  BY <1>1, <1>2, <1>3, <1>5 DEF TypeOK, TypeDisk
<1>8. OwnMount'
  BY <1>1, <1>2, <1>4, <1>6 DEF OwnMount
<1>9. MountsKnown'
  <2> SUFFICES ASSUME NEW t \in Types, NEW i \in 1..Len(mounts'[t])
               PROVE  mounts'[t][i] \in stuck \/ (t = fs /\ i = Len(mounts'[t]))
    BY <1>1, <1>2 DEF MountsKnown
  <2>1. \A u \in Types : \A j \in 1..Len(mounts[u]) : mounts[u][j] \in stuck
    BY <1>1, <1>4 DEF IInv, Disk, MountsKnown
  <2>2. CASE t = fs
    <3>1. i = Len(mounts'[fs]) \/ i \in 1..Len(mounts[fs])
      BY <1>6, <2>2
    <3> QED
      BY <1>4, <1>6, <2>1, <2>2, <3>1
  <2>3. CASE t # fs
    BY <1>5, <2>1, <2>3
  <2> QED
    BY <2>2, <2>3
<1>10. ShrunkIsSmall'
  BY <1>1, <1>2 DEF IInv, Disk, ShrunkIsSmall
<1> QED
  BY <1>3, <1>7, <1>8, <1>9, <1>10 DEF IInv, Position, Disk

LEMMA ResizeStep ==
  ASSUME TypeOK, IInv, Resize
  PROVE  TypeOK' /\ IInv' /\ \A d \in Device : extent'[d] # extent[d] => d = device
<1>1. /\ ops # <<>> /\ rest # <<>> /\ Head(rest) = "resize" /\ ~cancelled
      /\ rest' = Tail(rest) /\ error' = error /\ umount' = umount
      /\ damaged' = damaged /\ mounts' = mounts /\ faulty' = faulty /\ stuck' = stuck
      /\ extent' = [extent EXCEPT ![Target] = IF op = "shrink" THEN "min" ELSE "max"]
      /\ UNCHANGED <<inputs, device, ops, shrunk, cancelled>>
  BY DEF Resize, Run, Comes, faults
<1>2. /\ task' = task /\ type' = type /\ device' = device /\ ops' = ops
      /\ shrunk' = shrunk /\ cancelled' = cancelled /\ op' = op /\ fs' = fs
  BY <1>1, SameOperation
<1>3. Target = device /\ device \in Device
  BY <1>1, OwnTarget
<1>4. /\ extent' \in [Device -> {"old", "min", "max", "torn"}]
      /\ op = "shrink" => extent'[device] = "min"
      /\ \A d \in Device : d # device => extent'[d] = extent[d]
  BY <1>1, <1>3 DEF TypeOK, TypeDisk
<1>5. TypePlace' /\ ScriptFits' /\ ShrinkScript' /\ ShrunkEarlier'
  <2>1. umount' \in BOOLEAN
    BY <1>1 DEF TypeOK, TypePlace
  <2> QED
    BY <1>1, <1>4, <2>1, AfterCommand
<1>6. TypeOK'
  BY <1>1, <1>2, <1>4, <1>5 DEF TypeOK, TypeDisk
<1>7. OwnMount'
  BY <1>1, <1>2 DEF IInv, Position, OwnMount
<1>8. MountsKnown'
  BY <1>1, <1>2 DEF IInv, Disk, MountsKnown
<1>9. ShrunkIsSmall'
  <2>1. shrunk[device] = "none"
    BY <1>1, NotYetShrunk
  <2> QED
    BY <1>2, <1>4, <2>1 DEF IInv, Disk, ShrunkIsSmall
<1> QED
  BY <1>4, <1>5, <1>6, <1>7, <1>8, <1>9 DEF IInv, Position, Disk

(* e2fsck and the removal of files leave all but the script alone.         *)
LEMMA SmallStep ==
  ASSUME TypeOK, IInv, Check \/ RemoveFiles
  PROVE  TypeOK' /\ IInv'
<1>1. /\ ops # <<>> /\ rest # <<>> /\ Head(rest) # "resize"
      /\ rest' = Tail(rest) /\ error' = error /\ umount' = umount
      /\ damaged' = damaged /\ extent' = extent /\ mounts' = mounts
      /\ faulty' = faulty /\ stuck' = stuck
      /\ UNCHANGED <<inputs, device, ops, shrunk, cancelled>>
  BY DEF Check, RemoveFiles, Run, Comes, faults
<1>2. /\ task' = task /\ type' = type /\ device' = device /\ ops' = ops
      /\ shrunk' = shrunk /\ cancelled' = cancelled /\ op' = op /\ fs' = fs
  BY <1>1, SameOperation
<1>3. TypePlace' /\ ScriptFits' /\ ShrinkScript' /\ ShrunkEarlier'
  <2>1. umount' \in BOOLEAN
    BY <1>1 DEF TypeOK, TypePlace
  <2> QED
    BY <1>1, <2>1, AfterCommand
<1>4. TypeOK'
  BY <1>1, <1>2, <1>3 DEF TypeOK, TypeDisk
<1>5. OwnMount' /\ MountsKnown' /\ ShrunkIsSmall'
  BY <1>1, <1>2 DEF IInv, Position, Disk, OwnMount, MountsKnown, ShrunkIsSmall
<1> QED
  BY <1>3, <1>4, <1>5 DEF IInv, Position, Disk

LEMMA AbortStep ==
  ASSUME TypeOK, IInv, Refuse \/ Fail
  PROVE  TypeOK' /\ IInv' /\ \A d \in Device : extent'[d] # extent[d] => d = device
<1>1. /\ ops # <<>> /\ rest # <<>> /\ Abort
      /\ umount' = umount /\ mounts' = mounts /\ stuck' = stuck
      /\ extent' = extent \/ extent' = [extent EXCEPT ![Target] = "torn"]
      /\ damaged' = damaged \/ damaged' = damaged \ {device}
      /\ faulty' = faulty \/ faulty' = faulty \union {device}
  BY DEF Refuse, Fail, Comes, faults
<1>2. /\ task' = task /\ type' = type /\ device' = device /\ ops' = ops
      /\ shrunk' = shrunk /\ cancelled' = cancelled /\ op' = op /\ fs' = fs
  BY <1>1, SameOperation DEF Abort
<1>3. TypePlace' /\ ScriptFits' /\ ShrinkScript' /\ ShrunkEarlier' /\ OwnMount'
  BY <1>1, AfterAbort
<1>4. Target = device /\ device \in Device
  BY <1>1, OwnTarget
<1>5. /\ extent' \in [Device -> {"old", "min", "max", "torn"}]
      /\ \A d \in Device : d # device => extent'[d] = extent[d]
  BY <1>1, <1>4 DEF TypeOK, TypeDisk
<1>6. damaged' \in SUBSET Device /\ faulty' \in SUBSET Device
  BY <1>1, <1>4 DEF TypeOK, TypeDisk
<1>7. TypeOK'
  BY <1>1, <1>2, <1>3, <1>5, <1>6 DEF TypeOK, TypeDisk
<1>8. MountsKnown'
  BY <1>1, <1>2 DEF IInv, Disk, MountsKnown
<1>9. ShrunkIsSmall'
  <2>1. shrunk[device] = "none"
    BY <1>1, NotYetShrunk
  <2> QED
    BY <1>2, <1>5, <2>1 DEF IInv, Disk, ShrunkIsSmall
<1> QED
  BY <1>3, <1>5, <1>7, <1>8, <1>9 DEF IInv, Position, Disk

LEMMA UnmountStep ==
  ASSUME TypeOK, IInv, Unmount
  PROVE  TypeOK' /\ IInv'
<1>1. /\ umount /\ rest = <<>> /\ umount' = FALSE
      /\ \/ ~cancelled /\ mounts' = [mounts EXCEPT ![fs] = Front(@)] /\ stuck' = stuck
         \/ mounts' = mounts /\ stuck' = stuck \union {device}
         \/ cancelled /\ mounts' = mounts /\ stuck' = stuck
      /\ task' = task /\ type' = type /\ device' = device /\ ops' = ops /\ rest' = rest
      /\ error' = error /\ damaged' = damaged /\ extent' = extent /\ shrunk' = shrunk
      /\ faulty' = faulty /\ cancelled' = cancelled
  BY DEF Unmount, inputs, place
<1>2. op' = op /\ fs' = fs
  BY <1>1 DEF op, fs
<1>3. /\ ops # <<>> /\ op # "copy" /\ device \in Device /\ fs \in Types
      /\ mounts[fs] \in Seq(Device) /\ mounts[fs] # <<>> /\ Last(mounts[fs]) = device
  BY <1>1 DEF IInv, Position, OwnMount, ScriptFits, TypeOK, TypeDisk, fs
<1>4. /\ Front(mounts[fs]) \in Seq(Device)
      /\ Len(Front(mounts[fs])) = Len(mounts[fs]) - 1 /\ Len(mounts[fs]) \in Nat \ {0}
      /\ \A i \in 1..Len(Front(mounts[fs])) : Front(mounts[fs])[i] = mounts[fs][i]
      /\ mounts[fs][Len(mounts[fs])] = device
  BY <1>3, FrontFacts
<1>5. mounts' \in [Types -> Seq(Device)] /\ stuck' \in SUBSET Device
  BY <1>1, <1>3, <1>4 DEF TypeOK, TypeDisk
<1>6. TypeOK'
  BY <1>1, <1>5 DEF TypeOK, TypePlace, TypeDisk
<1>7. ScriptFits' /\ ShrinkScript' /\ OwnMount' /\ ShrunkEarlier' /\ ShrunkIsSmall'
  BY <1>1, <1>2 DEF IInv, Position, Disk, ScriptFits, ShrinkScript, OwnMount,
                    ShrunkEarlier, ShrunkIsSmall
<1>8. MountsKnown'
  <2> SUFFICES ASSUME ~cancelled, NEW t \in Types, NEW i \in 1..Len(mounts'[t])
               PROVE  mounts'[t][i] \in stuck'
    BY <1>1 DEF MountsKnown
  <2>1. \A u \in Types : \A j \in 1..Len(mounts[u]) :
          mounts[u][j] \in stuck \/ (u = fs /\ j = Len(mounts[u]))
    BY <1>1 DEF IInv, Disk, MountsKnown
  <2>2. CASE mounts' = [mounts EXCEPT ![fs] = Front(@)] /\ stuck' = stuck
    <3>1. /\ mounts'[fs] = Front(mounts[fs])
          /\ \A u \in Types : u # fs => mounts'[u] = mounts[u]
      BY <1>3, <2>2 DEF TypeOK, TypeDisk
    <3>2. CASE t = fs
      <4>1. i \in 1..Len(Front(mounts[fs]))
        BY <3>1, <3>2
      <4>2. i \in 1..Len(mounts[fs]) /\ i # Len(mounts[fs])
        BY <1>4, <4>1
      <4> QED
        BY <1>3, <1>4, <2>1, <2>2, <3>1, <3>2, <4>1, <4>2
    <3>3. CASE t # fs
      BY <2>1, <2>2, <3>1, <3>3
    <3> QED
      BY <3>2, <3>3
  <2>3. CASE mounts' = mounts /\ stuck' = stuck \union {device}
    BY <1>4, <2>1, <2>3
  <2> QED
    BY <1>1, <2>2, <2>3
<1> QED
  BY <1>6, <1>7, <1>8 DEF IInv, Position, Disk

LEMMA ReturnStep ==
  ASSUME ToolsAssumption, TypeOK, IInv, Return
  PROVE  TypeOK' /\ IInv'
<1>1. /\ ops # <<>> /\ op # "copy" /\ rest = <<>> /\ ~umount /\ Continue(Tail(ops))
      /\ UNCHANGED <<inputs, umount, mounts, damaged, extent, faults, cancelled>>
      /\ op = "shrink" =>
           shrunk' = [shrunk EXCEPT ![device] = IF error THEN "error" ELSE "true"]
      /\ op # "shrink" => shrunk' = shrunk
  BY DEF Return
<1>2. ops \in Seq(Names) /\ ThenCopy(ops)
  BY DEF TypeOK, TypePlace, Names, IInv, Position, ShrinkScript, ThenCopy
<1>3. /\ Tail(ops) \in Seq(Names) /\ ThenCopy(Tail(ops))
      /\ op = "shrink" => Len(Tail(ops)) = 1 /\ Tail(ops)[1] = "copy" /\ Tail(ops) # <<>>
      /\ Head(ops) = ops[1]
  BY <1>1, <1>2, TailShape, TailFacts DEF op
<1>4. device \in Device /\ device \in Nat /\ device + 1 > device
  BY <1>1 DEF IInv, Position, ScriptFits, Device
<1>5. /\ ops' = Tail(ops)
      /\ Tail(ops) = <<>> => device' = device + 1
      /\ Tail(ops) # <<>> => device' = device
  BY <1>1 DEF Continue
<1>6. /\ shrunk' \in [Device -> {"none", "true", "error"}]
      /\ \A d \in Device : d # device => shrunk'[d] = shrunk[d]
      /\ op # "shrink" => shrunk'[device] = shrunk[device]
      /\ shrunk'[device] = "true" /\ op = "shrink" => ~error
  BY <1>1, <1>4 DEF TypeOK, TypeDisk
<1>7. shrunk[device] = "none"
  BY <1>1, <1>3, <1>4 DEF IInv, Disk, ShrunkEarlier, op
<1>8. ShrunkEarlier'
  <2> SUFFICES ASSUME NEW d \in Device, shrunk'[d] # "none"
               PROVE  d < device' \/ (d = device' /\ Len(ops') = 1 /\ ops'[1] = "copy")
    BY DEF ShrunkEarlier
  <2>1. CASE d = device
    BY <1>3, <1>5, <1>6, <1>7, <2>1
  <2>2. CASE d # device
    <3>1. d < device
      BY <1>6, <2>2 DEF IInv, Disk, ShrunkEarlier
    <3>2. d \in Nat
      BY DEF Device
    <3> QED
      BY <1>4, <1>5, <3>1, <3>2
  <2> QED
    BY <2>1, <2>2
<1>9. ShrunkIsSmall'
  <2>1. op = "shrink" /\ ~error => extent[device] = "min"
    BY <1>1 DEF IInv, Position, ShrinkScript
  <2> QED
    BY <1>1, <1>6, <1>7, <2>1 DEF IInv, Disk, ShrunkIsSmall
<1> QED
  BY <1>1, <1>3, <1>4, <1>6, <1>8, <1>9, ContinueKeeps

LEMMA BeginStep ==
  ASSUME ToolsAssumption, TypeOK, IInv, Begin
  PROVE  TypeOK' /\ IInv'
<1>1. /\ ops = <<>> /\ device \in Device /\ Continue(Operations) /\ shrunk' = shrunk
      /\ extent' = extent
      /\ UNCHANGED <<inputs, umount, mounts, damaged, extent, faults, cancelled>>
  BY DEF Begin
<1>2. ~umount /\ device' = device
  BY <1>1, OperationsShape DEF IInv, Position, OwnMount, Continue
<1>3. shrunk' \in [Device -> {"none", "true", "error"}] /\ ShrunkIsSmall'
  BY <1>1 DEF TypeOK, TypeDisk, IInv, Disk, ShrunkIsSmall
<1>4. ShrunkEarlier'
  <2>1. Len(ops) = 0
    BY <1>1
  <2> QED
    BY <1>1, <1>2, <2>1 DEF IInv, Disk, ShrunkEarlier
<1> QED
  BY <1>1, <1>2, <1>3, <1>4, OperationsShape, ContinueKeeps

LEMMA CopyStep ==
  ASSUME ToolsAssumption, TypeOK, IInv, Copy
  PROVE  TypeOK' /\ IInv'
<1>1. /\ ops # <<>> /\ op = "copy" /\ shrunk' = shrunk /\ extent' = extent
      /\ UNCHANGED <<inputs, umount, mounts, damaged, extent, faults, cancelled>>
      /\ \/ Continue(Tail(ops))
         \/ ops' = <<>> /\ device' = Devices + 1 /\ rest' = rest /\ error' = error
  BY DEF Copy
<1>2. /\ task' = task /\ type' = type /\ umount' = umount /\ mounts' = mounts
      /\ damaged' = damaged /\ faulty' = faulty /\ stuck' = stuck /\ cancelled' = cancelled
  BY <1>1 DEF inputs, faults
<1>3. /\ ~umount /\ rest = <<>> /\ device \in Device /\ device \in Nat
      /\ Devices \in Nat /\ device < device + 1
  BY <1>1 DEF IInv, Position, OwnMount, ScriptFits, Device, ToolsAssumption
<1>4. shrunk' \in [Device -> {"none", "true", "error"}] /\ ShrunkIsSmall'
  BY <1>1 DEF TypeOK, TypeDisk, IInv, Disk, ShrunkIsSmall
<1>5. CASE Continue(Tail(ops))
  <2>1. ops \in Seq(Names) /\ ThenCopy(ops)
    BY DEF TypeOK, TypePlace, Names, IInv, Position, ShrinkScript, ThenCopy
  <2>2. Tail(ops) \in Seq(Names) /\ ThenCopy(Tail(ops))
    BY <1>1, <2>1, TailShape
  <2>3. /\ Len(Tail(ops)) = Len(ops) - 1
        /\ Tail(ops) = <<>> => device' = device + 1
        /\ Tail(ops) # <<>> => device' = device
    BY <1>1, <1>5, <2>1, TailFacts DEF Continue
  <2>4. Tail(ops) # <<>> => Len(ops) # 1
    BY <2>2, <2>3
  <2>5. ShrunkEarlier'
    <3> SUFFICES ASSUME NEW d \in Device, shrunk[d] # "none" PROVE d < device'
      BY <1>1 DEF ShrunkEarlier
    <3>1. d < device \/ (d = device /\ Len(ops) = 1)
      BY DEF IInv, Disk, ShrunkEarlier
    <3>2. d \in Nat
      BY DEF Device
    <3> QED
      BY <1>3, <2>3, <2>4, <3>1, <3>2
  <2> QED
    BY <1>1, <1>3, <1>4, <1>5, <2>2, <2>5, ContinueKeeps
<1>6. CASE ops' = <<>> /\ device' = Devices + 1 /\ rest' = rest /\ error' = error
  <2>1. TypeOK'
    BY <1>1, <1>2, <1>3, <1>6 DEF TypeOK, TypePlace, TypeDisk
  <2>2. Len(ops') = 0 /\ Len(rest') = 0
    BY <1>3, <1>6
  <2>3. ScriptFits' /\ ShrinkScript' /\ OwnMount'
    BY <1>2, <1>3, <1>6, <2>2 DEF ScriptFits, ShrinkScript, OwnMount
  <2>4. MountsKnown'
    BY <1>2, <1>3 DEF IInv, Disk, MountsKnown
  <2>5. ShrunkEarlier'
    BY <1>3, <1>6 DEF ShrunkEarlier, Device
  <2> QED
    BY <1>4, <2>1, <2>3, <2>4, <2>5 DEF IInv, Position, Disk
<1> QED
  BY <1>1, <1>5, <1>6

LEMMA CancelStep ==
  ASSUME TypeOK, IInv, Cancel \/ UNCHANGED vars
  PROVE  TypeOK' /\ IInv' /\ extent' = extent
<1>1. /\ task' = task /\ type' = type /\ device' = device /\ ops' = ops /\ rest' = rest
      /\ error' = error /\ umount' = umount /\ mounts' = mounts /\ damaged' = damaged
      /\ extent' = extent /\ shrunk' = shrunk /\ faulty' = faulty /\ stuck' = stuck
      /\ cancelled' \in BOOLEAN /\ (~cancelled' => ~cancelled)
  BY DEF Cancel, vars, inputs, place, faults, TypeOK
<1>2. op' = op /\ fs' = fs
  BY <1>1 DEF op, fs
<1>3. TypeOK'
  BY <1>1 DEF TypeOK, TypePlace, TypeDisk
<1>4. Position'
  BY <1>1, <1>2 DEF IInv, Position, ScriptFits, ShrinkScript, OwnMount
<1>5. Disk'
  BY <1>1, <1>2 DEF IInv, Disk, MountsKnown, ShrunkEarlier, ShrunkIsSmall
<1> QED
  BY <1>1, <1>3, <1>4, <1>5 DEF IInv

-----------------------------------------------------------------------------
LEMMA InitHolds ==
  ASSUME ToolsAssumption, Init
  PROVE  TypeOK /\ IInv
<1>1. Len(ops) = 0 /\ Len(rest) = 0 /\ \A t \in Types : Len(mounts[t]) = 0
  BY DEF Init
<1>2. TypeOK
  <2>1. TypePlace
    <3>1. device \in 1..Devices + 1
      BY DEF Init, ToolsAssumption
    <3>2. /\ ops \in Seq({"clean", "shrink", "copy", "expand"})
          /\ rest \in Seq({"probe", "fsck", "mount", "remove", "resize"})
      BY DEF Init
    <3>3. error \in BOOLEAN /\ umount \in BOOLEAN
      BY DEF Init
    <3> QED
      BY <3>1, <3>2, <3>3 DEF TypePlace
  <2>2. mounts \in [Types -> Seq(Device)]
    <3>1. <<>> \in Seq(Device)
      OBVIOUS
    <3> QED
      BY <3>1 DEF Init
  <2>3. /\ damaged \in SUBSET Device /\ faulty \in SUBSET Device /\ stuck \in SUBSET Device
        /\ extent \in [Device -> {"old", "min", "max", "torn"}]
        /\ shrunk \in [Device -> {"none", "true", "error"}]
    BY DEF Init
  <2> QED
    BY <2>1, <2>2, <2>3 DEF Init, TypeOK, TypeDisk
<1>3. Position
  BY <1>1 DEF Init, Position, ScriptFits, ShrinkScript, OwnMount
<1>4. Disk
  BY <1>1 DEF Init, Disk, MountsKnown, ShrunkEarlier, ShrunkIsSmall
<1> QED
  BY <1>2, <1>3, <1>4 DEF IInv

LEMMA StepHolds ==
  ASSUME ToolsAssumption, TypeOK, IInv, [Next]_vars
  PROVE  TypeOK' /\ IInv' /\ \A d \in Device : extent'[d] # extent[d] => d = device
<1>1. CASE Begin
  BY <1>1, BeginStep DEF Begin
<1>2. CASE Copy
  BY <1>2, CopyStep DEF Copy
<1>3. CASE Mount
  BY <1>3, MountStep DEF Mount
<1>4. CASE Resize
  BY <1>4, ResizeStep
<1>5. CASE Check \/ RemoveFiles
  BY <1>5, SmallStep DEF Check, RemoveFiles
<1>6. CASE Refuse \/ Fail
  BY <1>6, AbortStep
<1>7. CASE Unmount
  BY <1>7, UnmountStep DEF Unmount
<1>8. CASE Return
  BY <1>8, ReturnStep DEF Return
<1>9. CASE Cancel \/ UNCHANGED vars
  BY <1>9, CancelStep
<1> QED
  BY <1>1, <1>2, <1>3, <1>4, <1>5, <1>6, <1>7, <1>8, <1>9 DEF Next, Operation

(* Types, and what IInv says, hold throughout.                             *)
LEMMA Inductive ==
  ASSUME ToolsAssumption
  PROVE  Spec => [](TypeOK /\ IInv)
<1>1. Init => TypeOK /\ IInv
  BY InitHolds
<1>2. (TypeOK /\ IInv) /\ [Next]_vars => (TypeOK /\ IInv)'
  BY StepHolds
<1> QED
  BY <1>1, <1>2, PTL DEF Spec

(* Every variable keeps its type: the task is always at one of its         *)
(* partitions or past the last.  (actions.go:228-230, imaging.go:186-223)  *)
THEOREM TypeCorrect ==
  ASSUME ToolsAssumption
  PROVE  Spec => []TypeOK
<1>1. Spec => [](TypeOK /\ IInv)
  BY Inductive
<1> QED
  BY <1>1, PTL

(* A resize never touches another partition than its own, for any number   *)
(* of partitions that share a mount point.  (imaging.go:302-309,320-326)   *)
THEOREM ResizeIsOwn ==
  ASSUME ToolsAssumption
  PROVE  Spec => ResizesItsOwn
<1>1. Spec => [](TypeOK /\ IInv)
  BY Inductive
<1>2. (TypeOK /\ IInv) /\ [Next]_vars =>
        [\A d \in Device : extent'[d] # extent[d] => d = device]_vars
  BY StepHolds
<1> QED
  BY <1>1, <1>2, PTL DEF Spec, ResizesItsOwn

(* What Shrink reported as shrunk stays shrunk, and partclone starts on no *)
(* partition that a working umount has left mounted.                       *)
(* (imaging.go:187-190,305-307,411-415)                                    *)
THEOREM CopyIsSound ==
  ASSUME ToolsAssumption
  PROVE  Spec => [](ShrunkIsSmall /\ CopiesUnmounted)
<1>1. Spec => [](TypeOK /\ IInv)
  BY Inductive
<1>2. IInv => ShrunkIsSmall
  BY DEF IInv, Disk
<1>3. IInv => CopiesUnmounted
  BY DEF IInv, Disk, Position, OwnMount, MountsKnown, CopiesUnmounted
<1> QED
  BY <1>1, <1>2, <1>3, PTL

=============================================================================

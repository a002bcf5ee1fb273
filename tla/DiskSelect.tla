----------------------------- MODULE DiskSelect -----------------------------
(***************************************************************************)
(* Which disk the agent works on: disk.Primary, boot after boot.           *)
(*                                                                         *)
(* Deploy, Capture and Wipe never name a disk; each asks Primary for the   *)
(* largest one, as lsblk prints it: with one decimal of a binary unit.     *)
(* The kernel numbers the disks anew in every boot, in the order in which  *)
(* it finds them: disk i is nvme<i>n1.                                     *)
(***************************************************************************)
EXTENDS Integers, Sequences

CONSTANTS
  Disks,    \* the block devices of the machine
  Numbers,  \* the numbers the kernel may give them
  Sizes,    \* their capacities in bytes
  Base,     \* ratio of consecutive units (1024 in lsblk)
  NoDisk,   \* the absence of a choice, not a member of Disks
  MaxBoots  \* bound on the boots of one behaviour

(* The units parseSize knows; there are no disks of an exbibyte or more.   *)
K == Base
M == Base * K
G == Base * M
T == Base * G
P == Base * T
Units == {1, K, M, G, T, P}

DiskSelectAssumption ==
  /\ Base \in Nat \ 0..9 /\ Sizes \subseteq 0..(Base * P - 1)
  /\ Numbers \subseteq 0..99 /\ MaxBoots \in Nat \ {0}
  /\ NoDisk \notin Disks

VARIABLES
  size,    \* the capacity of each device
  type,    \* its type: "disk" or "rom"
  number,  \* its number in this boot
  chosen,  \* what Primary returned in this boot, NoDisk before or on an error
  last,    \* what it returned in the boot before
  boots    \* boots so far

vars == <<size, type, number, chosen, last, boots>>

Numberings == {f \in [Disks -> Numbers] : \A d, e \in Disks : f[d] = f[e] => d = e}

TypeOK ==
  /\ size \in [Disks -> Sizes] /\ type \in [Disks -> {"disk", "rom"}]
  /\ number \in Numberings
  /\ {chosen, last} \subseteq Disks \union {NoDisk}
  /\ boots \in 1..MaxBoots

Init ==
  /\ size \in [Disks -> Sizes] /\ type \in [Disks -> {"disk", "rom"}]
  /\ number \in Numberings
  /\ chosen = NoDisk /\ last = NoDisk /\ boots = 1

-----------------------------------------------------------------------------
(* The unit lsblk prints b in: the largest that is not above b.            *)
Unit(b) == CHOOSE u \in Units : /\ u <= b \/ u = 1
                                /\ \A v \in Units : v <= b => v <= u

(* The tenths of it lsblk prints.                                          *)
Tenths(b) == (10 * b + Unit(b) \div 2) \div Unit(b)

(* parseSize reads them back; the suffix B of a size below one K is not    *)
(* among its multipliers, so that such a device counts as empty.           *)
ParsedSize(b) == IF b < K THEN 0 ELSE (Tenths(b) * Unit(b)) \div 10

ListAll == {d \in Disks : ParsedSize(size[d]) # 0}

(* List: devices of type disk with a size.                                 *)
List == {d \in Disks : type[d] = "disk" /\ ParsedSize(size[d]) # 0}

(* The number as the text of the path, the letter that follows it last.    *)
Text(n) == IF n < 10 THEN <<n, 10>> ELSE <<n \div 10, n % 10, 10>>

TextBefore(s, t) ==
  \E i \in 1..3 : /\ i <= Len(s) /\ i <= Len(t) /\ s[i] < t[i]
                  /\ \A j \in 1..(i - 1) : s[j] = t[j]

Smaller(d, e) ==
  IF ParsedSize(size[d]) # ParsedSize(size[e])
    THEN ParsedSize(size[d]) < ParsedSize(size[e])
    ELSE TextBefore(Text(number[d]), Text(number[e]))

LastDigitFirst(d, e) ==
  IF number[d] # number[e] THEN number[d] < number[e] ELSE size[d] > size[e]

(* The comparison of sort.Slice.                                           *)
Before(d, e) ==
  IF ParsedSize(size[d]) # ParsedSize(size[e])
    THEN ParsedSize(size[d]) > ParsedSize(size[e])
    ELSE TextBefore(Text(number[d]), Text(number[e]))

(* Primary: sort.Slice may leave any disk in front that none is before.    *)
Primary ==
  /\ chosen = NoDisk
  /\ \E d \in List : /\ \A e \in List : ~Before(e, d)
                     /\ chosen' = d
  /\ UNCHANGED <<size, type, number, last, boots>>

(* The machine boots again; the disks are found in another order.          *)
Reboot ==
  /\ boots < MaxBoots
  /\ boots' = boots + 1
  /\ number' \in Numberings
  /\ last' = IF chosen = NoDisk THEN last ELSE chosen
  /\ chosen' = NoDisk
  /\ UNCHANGED <<size, type>>

Next == Primary \/ Reboot

Spec == Init /\ [][Next]_vars

-----------------------------------------------------------------------------
(* A machine with a disk of a K or more has a primary disk, and it is a    *)
(* disk.  The comparison is a strict order on what lsblk lists, so that    *)
(* exactly one disk can come out in front.  (disk.go:42-60, 76-83)         *)
OnePrimary ==
  \A d \in Disks : type[d] = "disk" /\ size[d] >= K =>
    \E e \in Disks : /\ type[e] = "disk" /\ size[e] >= K
                     /\ {f \in List : \A g \in List : ~Before(g, f)} = {e}

(* No disk is larger than the chosen one by more than what lsblk rounds    *)
(* off: a tenth of the larger disk's unit.  A disk just below a G is       *)
(* printed as 1024M, which is as much as the 1G of one a little above it.  *)
(* (disk.go:66,77-79,130-136)                                              *)
NearlyLargest ==
  chosen # NoDisk =>
    \A d \in Disks : type[d] = "disk" =>
      10 * (size[d] - size[chosen]) <= Unit(size[d]) + 10

(* However the kernel numbers the disks, two boots work on different ones  *)
(* only if lsblk prints the same amount for both.  (disk.go:76-81)         *)
SameDiskAgain ==
  chosen # NoDisk /\ last \notin {NoDisk, chosen} =>
    Tenths(size[chosen]) * Unit(size[chosen]) = Tenths(size[last]) * Unit(size[last])
=============================================================================

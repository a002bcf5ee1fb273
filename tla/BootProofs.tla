----------------------------- MODULE BootProofs -----------------------------
(***************************************************************************)
(* Proofs about the network, the choice of the disk and the command line,  *)
(* and what follows for the four components of MCBoot side by side: for    *)
(* any interfaces, any disks and sizes, any keys and values, and command   *)
(* lines of any length up to the bound.                                    *)
(***************************************************************************)
EXTENDS MCBoot, AgentProofs, FiniteSetTheorems, WellFoundedInduction

(* Cmdline.                                                                *)

(* The tokens never change, and each field of params holds a value.        *)
LEMMA LineTypeCorrect ==
  ASSUME Line!CmdlineAssumption
  PROVE  Line!Spec => []Line!TypeOK
<1>1. Line!Init => Line!TypeOK
  BY DEF Line!CmdlineAssumption, Line!Init, Line!TypeOK
<1>2. Line!TypeOK /\ [Line!Next]_Line!vars => Line!TypeOK'
  <2> SUFFICES ASSUME Line!TypeOK, [Line!Next]_Line!vars PROVE Line!TypeOK'
    OBVIOUS
  <2>1. CASE Line!Read
    <3>1. tokens[next] \in Line!Token
      BY <2>1 DEF Line!Read, Line!TypeOK
    <3>2. params' \in [Fields -> Values]
      BY <2>1, <3>1 DEF Line!Read, Line!Set, Line!Token, Line!TypeOK
    <3> QED
      BY <2>1, <3>2 DEF Line!Read, Line!TypeOK
  <2>2. CASE UNCHANGED Line!vars
    BY <2>2 DEF Line!vars, Line!TypeOK
  <2> QED
    BY <2>1, <2>2 DEF Line!Next
<1> QED
  BY <1>1, <1>2, PTL DEF Line!Spec

(* What a field holds is the value of its last token, whatever the command *)
(* line is: Set overrides what an earlier token gave and nothing else.     *)
(* (cmdline.go:37-50)                                                      *)
LEMMA LineLastToken ==
  ASSUME Line!CmdlineAssumption
  PROVE  Line!Spec => []Line!LastTokenWins
<1>1. Line!Init => Line!LastTokenWins
  BY DEF Line!Init, Line!LastTokenWins
<1>2. Line!TypeOK /\ Line!LastTokenWins /\ [Line!Next]_Line!vars => Line!LastTokenWins'
  <2> SUFFICES ASSUME Line!TypeOK, Line!LastTokenWins, [Line!Next]_Line!vars
               PROVE  Line!LastTokenWins'
    OBVIOUS
  <2>1. CASE Line!Read
    <3>0. tokens' = tokens
      BY <2>1 DEF Line!Read
    <3> SUFFICES ASSUME NEW f \in Fields
                 PROVE \/ /\ params'[f] = Empty
                          /\ \A i \in 1..(next' - 1) : tokens[i].key # f
                       \/ \E i \in 1..(next' - 1) :
                            /\ tokens[i] = [key |-> f, value |-> params'[f]]
                            /\ \A j \in (i + 1)..(next' - 1) : tokens[j].key # f
      BY <3>0, Zenon DEF Line!LastTokenWins
    <3>1. /\ next' - 1 = next /\ next \in 1..Len(tokens)
          /\ tokens[next] \in Line!Token
      BY <2>1 DEF Line!Read, Line!TypeOK
    <3>2. CASE tokens[next].key = f
      <4>1. params'[f] = tokens[next].value
        BY <2>1, <3>2 DEF Line!Read, Line!Set
      <4>2. tokens[next] = [key |-> f, value |-> params'[f]]
        BY <3>1, <3>2, <4>1 DEF Line!Token
      <4> QED
        BY <3>1, <4>2
    <3>3. CASE tokens[next].key # f
      <4>1. params'[f] = params[f]
        BY <2>1, <3>3 DEF Line!Read, Line!Set
      <4>2. CASE params[f] = Empty /\ \A i \in 1..(next - 1) : tokens[i].key # f
        BY <3>1, <3>3, <4>1, <4>2
      <4>3. CASE \E i \in 1..(next - 1) :
                   /\ tokens[i] = [key |-> f, value |-> params[f]]
                   /\ \A j \in (i + 1)..(next - 1) : tokens[j].key # f
        <5>1. PICK i \in 1..(next - 1) :
                   /\ tokens[i] = [key |-> f, value |-> params[f]]
                   /\ \A j \in (i + 1)..(next - 1) : tokens[j].key # f
          BY <4>3
        <5>2. \A j \in (i + 1)..next : tokens[j].key # f
          BY <3>1, <3>3, <5>1
        <5> QED
          BY <3>1, <4>1, <5>1, <5>2
      <4> QED
        BY <4>2, <4>3 DEF Line!LastTokenWins
    <3> QED
      BY <3>2, <3>3
  <2>2. CASE UNCHANGED Line!vars
    BY <2>2 DEF Line!vars, Line!LastTokenWins
  <2> QED
    BY <2>1, <2>2 DEF Line!Next
<1> QED
  BY <1>1, <1>2, LineTypeCorrect, PTL DEF Line!Spec

-----------------------------------------------------------------------------
(* Network.                                                                *)

(* A set of natural numbers has a least one.                               *)
LEMMA LeastNatural ==
  ASSUME NEW S \in SUBSET Nat, S # {}
  PROVE  \E x \in S : \A y \in S : x <= y
<1>1. PICK x \in S : \A y \in S : ~ (<<y, x>> \in OpToRel(<, Nat))
  BY NatLessThanWellFounded, WFMin, Zenon
<1>2. ASSUME NEW y \in S PROVE x <= y
  <2>1. <<y, x>> \in Nat \X Nat
    OBVIOUS
  <2>2. ~ (y < x)
    BY <1>1, <2>1 DEF OpToRel
  <2> QED
    BY <2>2
<1> QED
  BY <1>2

(* A listing is a sequence of interfaces.                                  *)
LEMMA ListingFacts ==
  ASSUME Net!NetworkAssumption, NEW found \in SUBSET NIC, NEW list \in Net!Listings(found)
  PROVE  list \in Seq(NIC)
<1>1. IsFiniteSet(NIC)
  BY DEF Net!NetworkAssumption, Net!IsFiniteSet, IsFiniteSet
<1>2. Net!Cardinality(found) = Cardinality(found)
  BY DEF Net!Cardinality, Cardinality
<1>3. Cardinality(found) \in Nat
  BY <1>1, FS_Subset, FS_CardinalityType
<1> QED
  BY <1>2, <1>3 DEF Net!Listings

(* place says of each entry of new where it is in old: the two have the    *)
(* same entries, each as often.                                            *)
Rearranges(place, new, old) ==
  /\ place \in [DOMAIN new -> DOMAIN old]
  /\ \A i \in DOMAIN new : new[i] = old[place[i]]
  /\ \A i, j \in DOMAIN new : place[i] = place[j] => i = j
  /\ \A k \in DOMAIN old : \E i \in DOMAIN new : place[i] = k

(* reorder drops nothing, adds nothing, and brings the MAC to the front if *)
(* the list has it.                                                        *)
LEMMA ReorderFacts ==
  ASSUME NEW list \in Seq(MACs), NEW first
  PROVE  /\ Net!Reorder(list, first) \in Seq(MACs)
         /\ \E place : Rearranges(place, Net!Reorder(list, first), list)
         /\ \A i \in DOMAIN list : list[i] = first => Net!Reorder(list, first)[1] = first
<1> DEFINE at == {i \in DOMAIN list : list[i] = first /\ i # 1}
<1>0. DOMAIN list = 1..Len(list) /\ Len(list) \in Nat
  OBVIOUS
<1>1. CASE at = {}
  <2>1. Net!Reorder(list, first) = list
    BY <1>1 DEF Net!Reorder
  <2>2. Rearranges([i \in DOMAIN list |-> i], list, list)
    BY DEF Rearranges
  <2>3. \A i \in DOMAIN list : list[i] = first => i = 1
    BY <1>1
  <2> QED
    BY <2>1, <2>2, <2>3
<1>2. CASE at # {}
  <2> DEFINE k == CHOOSE i \in at : \A j \in at : i <= j
             new == [list EXCEPT ![1] = list[k], ![k] = list[1]]
             place == [i \in DOMAIN list |-> IF i = 1 THEN k ELSE IF i = k THEN 1 ELSE i]
  <2>1. at \in SUBSET Nat
    BY <1>0
  <2>2. k \in at
    BY <1>2, <2>1, LeastNatural
  <2>3. Net!Reorder(list, first) = new
    BY <1>2 DEF Net!Reorder, Net!Swap
  <2>4. k \in 2..Len(list) /\ list[k] = first
    BY <1>0, <2>2
  <2> HIDE DEF k, at
  <2>5. /\ new \in Seq(MACs) /\ DOMAIN new = DOMAIN list
        /\ new[1] = first /\ new[k] = list[1]
        /\ \A i \in DOMAIN list \ {1, k} : new[i] = list[i]
    BY <1>0, <2>4
  <2>6. 1 \in DOMAIN list /\ k \in DOMAIN list
    BY <1>0, <2>4
  <2> HIDE DEF new
  <2>7. Rearranges(place, new, list)
    <3>1. place \in [DOMAIN new -> DOMAIN list]
      BY <2>5, <2>6
    <3>2. \A i \in DOMAIN new : new[i] = list[place[i]]
      BY <2>4, <2>5, <2>6
    <3>3. \A i, j \in DOMAIN new : place[i] = place[j] => i = j
      BY <2>5
    <3>4. ASSUME NEW i \in DOMAIN list PROVE place[place[i]] = i
      BY <2>6
    <3>5. \A i \in DOMAIN list : \E j \in DOMAIN new : place[j] = i
      BY <2>5, <3>1, <3>4
    <3> HIDE DEF place
    <3> QED
      BY <3>1, <3>2, <3>3, <3>5 DEF Rearranges
  <2> QED
    BY <2>3, <2>5, <2>7
<1> QED
  BY <1>1, <1>2

(* BringUp returns a MAC only after it has listed the interfaces.          *)
NotYetUp == netPc = "start" => primary = Net!None

NetInv == Net!TypeOK /\ NotYetUp /\ Net!PrimaryLeads

LEMMA NetInit ==
  ASSUME Net!NetworkAssumption, Net!Init
  PROVE  NetInv
<1>1. Net!TypeOK
  BY DEF Net!NetworkAssumption, Net!Init, Net!TypeOK
<1>2. NotYetUp /\ Net!PrimaryLeads
  BY DEF Net!Init, NotYetUp, Net!PrimaryLeads
<1> QED
  BY <1>1, <1>2 DEF NetInv

(* While main has not listed the interfaces, or once it has and does not   *)
(* list them again, nothing happens to the list.                           *)
LEMMA LeadsKept ==
  ASSUME Net!PrimaryLeads,
         netPc' # "done" \/ UNCHANGED <<netPc, mac, primary, listed, macs>>
  PROVE  Net!PrimaryLeads'
<1>1. CASE netPc' # "done"
  BY <1>1 DEF Net!PrimaryLeads
<1>2. CASE UNCHANGED <<netPc, mac, primary, listed, macs>>
  BY <1>2 DEF Net!PrimaryLeads
<1> QED
  BY <1>1, <1>2

LEMMA NetStep ==
  ASSUME Net!NetworkAssumption, NetInv, [Net!Next]_Net!vars
  PROVE  NetInv'
<1> USE DEF NetInv, Net!TypeOK, NotYetUp, Net!env, Net!result
<1>0. NIC \in SUBSET (Nat \ {0}) /\ Deadline \in Nat \ {0}
  BY DEF Net!NetworkAssumption
<1>1. ASSUME NEW found \in SUBSET NIC, Net!Spawn(found) PROVE NetInv'
  BY <1>1, LeadsKept DEF Net!Spawn, Net!None
<1>2. ASSUME NEW found \in SUBSET NIC, Net!Collect(found) PROVE NetInv'
  <2> DEFINE list == [i \in DOMAIN listed' |-> mac[listed'[i]]]
  <2>1. listed' \in Seq(NIC)
    BY <1>2, ListingFacts DEF Net!Collect
  <2>2. list \in Seq(MACs) /\ DOMAIN list = DOMAIN listed'
    BY <2>1
  <2>3. macs' = Net!Reorder(list, primary)
    BY <1>2 DEF Net!Collect
  <2>4. /\ UNCHANGED <<mac, nics, polls, client, address, primary, netCancelled>>
        /\ netPc' = "done"
    BY <1>2 DEF Net!Collect
  <2> HIDE DEF list
  <2>5. /\ macs' \in Seq(MACs)
        /\ \E place : Rearranges(place, macs', list)
        /\ \A i \in DOMAIN list : list[i] = primary => macs'[1] = primary
    BY <2>2, <2>3, ReorderFacts
  <2>6. Net!PrimaryLeads'
    <3>1. PICK place : Rearranges(place, macs', list)
      BY <2>5
    <3>2. /\ place \in [DOMAIN macs' -> DOMAIN listed']
          /\ \A i \in DOMAIN macs' : macs'[i] = mac'[listed'[place[i]]]
          /\ \A i, j \in DOMAIN macs' : place[i] = place[j] => i = j
          /\ \A k \in DOMAIN listed' : \E i \in DOMAIN macs' : place[i] = k
      BY <2>2, <2>4, <3>1 DEF Rearranges, list
    <3>3. \A i \in DOMAIN listed' : mac'[listed'[i]] = primary' => macs'[1] = primary'
      BY <2>2, <2>4, <2>5 DEF list
    <3> QED
      BY <3>2, <3>3 DEF Net!PrimaryLeads
  <2> QED
    BY <2>1, <2>4, <2>5, <2>6
<1>3. CASE Net!Poll
  <2>1. CASE Net!Addressed = {}
    BY <1>0, <1>3, <2>1, LeadsKept DEF Net!Poll
  <2>2. CASE Net!Addressed # {}
    <3>1. Net!Addressed \in SUBSET Nat /\ Net!Addressed \subseteq nics
      BY <1>0 DEF Net!Addressed
    <3>2. Net!FirstPolled(Net!Addressed) \in nics
      BY <2>2, <3>1, LeastNatural DEF Net!FirstPolled
    <3> QED
      BY <1>0, <1>3, <2>2, <3>2, LeadsKept DEF Net!Poll
  <2> QED
    BY <2>1, <2>2
<1>4. CASE Net!TimeOut
  BY <1>4, LeadsKept DEF Net!TimeOut
<1>5. ASSUME NEW n \in NIC, Net!Lease(n) PROVE NetInv'
  BY <1>5, LeadsKept DEF Net!Lease
<1>6. ASSUME NEW n \in NIC, Net!Drop(n) PROVE NetInv'
  BY <1>6, LeadsKept DEF Net!Drop
<1>7. ASSUME NEW n \in NIC, Net!ClientExits(n) PROVE NetInv'
  BY <1>7, LeadsKept DEF Net!ClientExits
<1>8. CASE Net!Cancel
  BY <1>8, LeadsKept DEF Net!Cancel
<1>9. CASE UNCHANGED Net!vars
  BY <1>9, LeadsKept DEF Net!vars
<1> QED
  BY <1>1, <1>2, <1>3, <1>4, <1>5, <1>6, <1>7, <1>8, <1>9 DEF Net!Next, Net!Step

LEMMA NetCorrect ==
  ASSUME Net!NetworkAssumption
  PROVE  Net!Spec => [](Net!TypeOK /\ Net!PrimaryLeads)
<1>1. Net!Init => NetInv
  BY NetInit
<1>2. NetInv /\ [Net!Next]_Net!vars => NetInv'
  BY NetStep
<1>3. NetInv => Net!TypeOK /\ Net!PrimaryLeads
  BY DEF NetInv
<1> QED
  BY <1>1, <1>2, <1>3, PTL DEF Net!Spec

-----------------------------------------------------------------------------
(* DiskSelect.                                                             *)

LEMMA Quotient ==
  ASSUME NEW a \in Nat, NEW b \in Nat \ {0}
  PROVE  a \div b \in Nat /\ b * (a \div b) <= a /\ a < b * (a \div b) + b
OBVIOUS

LEMMA Product ==
  ASSUME NEW a \in Nat, a >= 10, NEW x \in Nat \ {0}
  PROVE  a * x \in Nat /\ a * x >= 10 * x
OBVIOUS

(* Two multiples of a that are less than 10 apart are the same.            *)
LEMMA CloseMultiples ==
  ASSUME NEW a \in Nat, a >= 10, NEW x \in Nat, NEW y \in Nat,
         a * x < a * y + 10, a * y < a * x + 10
  PROVE  x = y
<1>1. ASSUME x < y PROVE FALSE
  <2>1. a * y >= a * (x + 1)
    BY <1>1
  <2> QED
    BY <2>1
<1>2. ASSUME x > y PROVE FALSE
  <2>1. a * x >= a * (y + 1)
    BY <1>2
  <2> QED
    BY <2>1
<1> QED
  BY <1>1, <1>2

LEMMA UnitValues ==
  ASSUME Disk!DiskSelectAssumption
  PROVE  /\ {Base, Disk!K, Disk!M, Disk!G, Disk!T, Disk!P} \subseteq Nat
         /\ 10 <= Disk!K /\ Disk!K < Disk!M /\ Disk!M < Disk!G /\ Disk!G < Disk!T
         /\ Disk!T < Disk!P
         /\ \A u \in Disk!Units : u \in Nat \ {0} /\ (u # 1 => u >= Disk!K)
         /\ \A u \in Disk!Units \ {1} : \E m \in Nat : u = Base * m
<1>1. Base \in Nat /\ Base >= 10 /\ Disk!K = Base
  BY DEF Disk!DiskSelectAssumption, Disk!K
<1>2. Disk!M = Base * Disk!K /\ Disk!M \in Nat /\ Disk!M >= 10 * Disk!K
  BY <1>1, Product DEF Disk!M
<1>3. Disk!G = Base * Disk!M /\ Disk!G \in Nat /\ Disk!G >= 10 * Disk!M
  BY <1>1, <1>2, Product DEF Disk!G
<1>4. Disk!T = Base * Disk!G /\ Disk!T \in Nat /\ Disk!T >= 10 * Disk!G
  BY <1>1, <1>2, <1>3, Product DEF Disk!T
<1>5. Disk!P = Base * Disk!T /\ Disk!P \in Nat /\ Disk!P >= 10 * Disk!T
  BY <1>1, <1>2, <1>3, <1>4, Product DEF Disk!P
<1>6. /\ 10 <= Disk!K /\ Disk!K < Disk!M /\ Disk!M < Disk!G /\ Disk!G < Disk!T
      /\ Disk!T < Disk!P
  BY <1>1, <1>2, <1>3, <1>4, <1>5
<1>7. \A u \in Disk!Units : u \in Nat \ {0} /\ (u # 1 => u >= Disk!K)
  BY <1>1, <1>2, <1>3, <1>4, <1>5, <1>6 DEF Disk!Units
<1>8. Disk!K = Base * 1
  BY <1>1
<1>9. \A u \in Disk!Units \ {1} : \E m \in Nat : u = Base * m
  BY <1>1, <1>2, <1>3, <1>4, <1>5, <1>8 DEF Disk!Units
<1> QED
  BY <1>1, <1>2, <1>3, <1>4, <1>5, <1>6, <1>7, <1>9

LEMMA UnitFacts ==
  ASSUME Disk!DiskSelectAssumption, NEW b \in Nat
  PROVE  /\ Disk!Unit(b) \in Disk!Units
         /\ Disk!Unit(b) <= b \/ Disk!Unit(b) = 1
         /\ \A v \in Disk!Units : v <= b => v <= Disk!Unit(b)
<1>1. \E u \in Disk!Units : /\ u <= b \/ u = 1
                            /\ \A v \in Disk!Units : v <= b => v <= u
  BY UnitValues DEF Disk!Units
<1> QED
  BY <1>1 DEF Disk!Unit

(* A larger disk is printed in no smaller unit; a disk of a K or more in a *)
(* real unit.                                                              *)
LEMMA UnitGrows ==
  ASSUME Disk!DiskSelectAssumption, NEW b \in Nat, NEW c \in Nat, b <= c
  PROVE  Disk!Unit(b) <= Disk!Unit(c)
<1>1. /\ Disk!Unit(b) \in Disk!Units /\ Disk!Unit(b) \in Nat
      /\ Disk!Unit(c) \in Disk!Units /\ Disk!Unit(c) \in Nat \ {0}
  BY UnitFacts, UnitValues
<1>2. CASE Disk!Unit(b) <= b
  BY <1>1, <1>2, UnitFacts
<1>3. CASE Disk!Unit(b) = 1
  BY <1>1, <1>3
<1> QED
  BY <1>2, <1>3, UnitFacts

LEMMA RealUnit ==
  ASSUME Disk!DiskSelectAssumption, NEW b \in Nat, b >= Disk!K
  PROVE  Disk!Unit(b) # 1 /\ Disk!Unit(b) >= Disk!K /\ Disk!Unit(b) <= b
<1>1. Disk!K \in Disk!Units /\ Disk!K \in Nat /\ Disk!K >= 10
  BY UnitValues DEF Disk!Units
<1>2. Disk!Unit(b) \in Nat
  BY UnitFacts, UnitValues
<1> QED
  BY <1>1, <1>2, UnitFacts

(* What lsblk prints is within half a tenth of a unit of the size.         *)
LEMMA Printed ==
  ASSUME Disk!DiskSelectAssumption, NEW b \in Nat
  PROVE  /\ Disk!Unit(b) \in Nat \ {0} /\ Disk!Tenths(b) \in Nat
         /\ Disk!Tenths(b) * Disk!Unit(b) \in Nat
         /\ 2 * (Disk!Tenths(b) * Disk!Unit(b)) <= 20 * b + Disk!Unit(b)
         /\ 20 * b <= 2 * (Disk!Tenths(b) * Disk!Unit(b)) + Disk!Unit(b)
<1> DEFINE u == Disk!Unit(b)
           h == u \div 2
           a == 10 * b + h
           t == a \div u
<1>1. u \in Nat \ {0}
  BY UnitFacts, UnitValues
<1>2. h \in Nat /\ 2 * h <= u /\ u <= 2 * h + 1
  BY <1>1
<1>3. a \in Nat
  BY <1>2
<1> HIDE DEF a
<1>4. t \in Nat /\ u * t <= a /\ a < u * t + u
  BY <1>1, <1>3, Quotient
<1> HIDE DEF t, h
<1>5. u * t = t * u /\ t * u \in Nat
  BY <1>1, <1>4
<1> HIDE DEF u
<1>6. 2 * (t * u) <= 20 * b + u /\ 20 * b <= 2 * (t * u) + u
  BY <1>1, <1>2, <1>4, <1>5 DEF a
<1>7. Disk!Tenths(b) = t /\ Disk!Unit(b) = u
  BY DEF Disk!Tenths, t, a, h, u
<1> QED
  BY <1>1, <1>4, <1>5, <1>6, <1>7

LEMMA ParsedFacts ==
  ASSUME Disk!DiskSelectAssumption, NEW b \in Nat
  PROVE  /\ Disk!ParsedSize(b) \in Nat
         /\ Disk!ParsedSize(b) # 0 <=> b >= Disk!K
         /\ b >= Disk!K =>
              /\ 10 * Disk!ParsedSize(b) <= Disk!Tenths(b) * Disk!Unit(b)
              /\ Disk!Tenths(b) * Disk!Unit(b) < 10 * Disk!ParsedSize(b) + 10
<1> DEFINE n == Disk!Tenths(b) * Disk!Unit(b)
<1>1. n \in Nat /\ Disk!K \in Nat
  BY Printed, UnitValues
<1>2. CASE b < Disk!K
  BY <1>1, <1>2 DEF Disk!ParsedSize
<1>3. CASE b >= Disk!K
  <2>1. Disk!ParsedSize(b) = n \div 10
    BY <1>1, <1>3 DEF Disk!ParsedSize
  <2>2. /\ Disk!Unit(b) \in Nat /\ Disk!Unit(b) >= 10 /\ Disk!Unit(b) <= b
        /\ 20 * b <= 2 * n + Disk!Unit(b)
    BY <1>3, Printed, RealUnit, UnitValues
  <2> HIDE DEF n
  <2>3. n >= 10
    BY <1>1, <2>2
  <2>4. n \div 10 \in Nat /\ 10 * (n \div 10) <= n /\ n < 10 * (n \div 10) + 10
    BY <1>1
  <2> QED
    BY <1>1, <1>3, <2>1, <2>3, <2>4 DEF n
<1> QED
  BY <1>1, <1>2, <1>3

(* A disk that parses as no larger is hardly larger.                       *)
LEMMA HardlyLarger ==
  ASSUME Disk!DiskSelectAssumption, NEW c \in Nat, NEW d \in Nat, c >= Disk!K,
         Disk!ParsedSize(d) <= Disk!ParsedSize(c)
  PROVE  10 * (d - c) <= Disk!Unit(d) + 10
<1>1. Disk!Unit(c) \in Nat /\ Disk!Unit(d) \in Nat
  BY Printed
<1>2. CASE d <= c
  BY <1>1, <1>2
<1>3. CASE d > c
  <2>1. Disk!K \in Nat /\ d >= Disk!K
    BY <1>3, UnitValues
  <2>2. Disk!Unit(c) <= Disk!Unit(d)
    BY <1>3, UnitGrows
  <2> DEFINE m == Disk!Tenths(c) * Disk!Unit(c)
             n == Disk!Tenths(d) * Disk!Unit(d)
             p == Disk!ParsedSize(c)
             q == Disk!ParsedSize(d)
  <2>3. m \in Nat /\ 2 * m <= 20 * c + Disk!Unit(c)
    BY Printed
  <2>4. n \in Nat /\ 20 * d <= 2 * n + Disk!Unit(d)
    BY Printed
  <2>5. p \in Nat /\ q \in Nat /\ q <= p /\ 10 * p <= m /\ n < 10 * q + 10
    BY <2>1, ParsedFacts
  <2> HIDE DEF m, n, p, q
  <2> QED
    BY <1>1, <2>2, <2>3, <2>4, <2>5
<1> QED
  BY <1>2, <1>3

(* Disks that parse alike are printed alike.                               *)
LEMMA PrintedAlike ==
  ASSUME Disk!DiskSelectAssumption, NEW c \in Nat, NEW d \in Nat,
         c >= Disk!K, d >= Disk!K, Disk!ParsedSize(c) = Disk!ParsedSize(d)
  PROVE  Disk!Tenths(c) * Disk!Unit(c) = Disk!Tenths(d) * Disk!Unit(d)
<1> DEFINE m == Disk!Tenths(c) * Disk!Unit(c)
           n == Disk!Tenths(d) * Disk!Unit(d)
<1>1. m \in Nat /\ n \in Nat /\ m < n + 10 /\ n < m + 10
  <2> DEFINE p == Disk!ParsedSize(c)
  <2>1. m \in Nat /\ n \in Nat
    BY Printed
  <2>2. p \in Nat /\ 10 * p <= m /\ m < 10 * p + 10
    BY ParsedFacts
  <2>3. 10 * p <= n /\ n < 10 * p + 10
    BY ParsedFacts
  <2> HIDE DEF m, n, p
  <2> QED
    BY <2>1, <2>2, <2>3
<1>2. PICK x \in Nat : Disk!Unit(c) = Base * x
  BY UnitFacts, RealUnit, UnitValues
<1>3. PICK y \in Nat : Disk!Unit(d) = Base * y
  BY UnitFacts, RealUnit, UnitValues
<1>4. /\ Base \in Nat /\ Base >= 10
      /\ Disk!Tenths(c) \in Nat /\ Disk!Tenths(d) \in Nat
  BY Printed DEF Disk!DiskSelectAssumption
<1>5. m = Base * (Disk!Tenths(c) * x) /\ Disk!Tenths(c) * x \in Nat
  BY <1>2, <1>4
<1>6. n = Base * (Disk!Tenths(d) * y) /\ Disk!Tenths(d) * y \in Nat
  BY <1>3, <1>4
<1> HIDE DEF m, n
<1>7. Disk!Tenths(c) * x = Disk!Tenths(d) * y
  BY <1>1, <1>4, <1>5, <1>6, CloseMultiples
<1>8. m = n
  BY <1>5, <1>6, <1>7
<1> QED
  BY <1>8 DEF m, n

-----------------------------------------------------------------------------
(* The place of nvme<n>n1 among the names, as texts: 10 and 11 come        *)
(* between 1 and 2, before the n that follows a single digit.              *)
Rank(n) == IF n < 10 THEN 11 * n + 10 ELSE 11 * (n \div 10) + (n % 10)

LEMMA Digits ==
  ASSUME NEW n \in 10..99
  PROVE  /\ n \div 10 \in 1..9 /\ n % 10 \in 0..9
         /\ n = 10 * (n \div 10) + (n % 10)
OBVIOUS

LEMMA RankType ==
  ASSUME NEW n \in 0..99
  PROVE  Rank(n) \in Nat
BY Digits DEF Rank

LEMMA RankDiffers ==
  ASSUME NEW n \in 0..99, NEW m \in 0..99, n # m
  PROVE  Rank(n) \in Nat /\ Rank(m) \in Nat /\ Rank(n) # Rank(m)
<1>1. n < 10 \/ (/\ n \div 10 \in 1..9 /\ n % 10 \in 0..9 /\ n = 10 * (n \div 10) + (n % 10))
  BY Digits
<1>2. m < 10 \/ (/\ m \div 10 \in 1..9 /\ m % 10 \in 0..9 /\ m = 10 * (m \div 10) + (m % 10))
  BY Digits
<1> QED
  BY <1>1, <1>2 DEF Rank

LEMMA TextShape ==
  ASSUME NEW n \in 0..99
  PROVE  LET s == Disk!Text(n)
         IN  /\ Len(s) = 2 \/ (Len(s) = 3 /\ s[3] = 10)
             /\ s[1] \in 0..9 /\ s[2] \in 0..10 /\ Rank(n) = 11 * s[1] + s[2]
<1>1. CASE n < 10
  <2>1. Disk!Text(n) = <<n, 10>>
    BY <1>1 DEF Disk!Text
  <2>2. Rank(n) = 11 * n + 10 /\ n \in 0..9 /\ 10 \in 0..10
    BY <1>1 DEF Rank
  <2> QED
    BY <2>1, <2>2
<1>2. CASE ~ (n < 10)
  <2>1. Disk!Text(n) = <<n \div 10, n % 10, 10>>
    BY <1>2 DEF Disk!Text
  <2>2. n \div 10 \in 0..9 /\ n % 10 \in 0..10
    BY <1>2, Digits
  <2>3. Rank(n) = 11 * (n \div 10) + (n % 10)
    BY <1>2 DEF Rank
  <2> QED
    BY <2>1, <2>2, <2>3
<1> QED
  BY <1>1, <1>2

LEMMA Lexicographic ==
  ASSUME NEW a \in 0..9, NEW b \in 0..10, NEW c \in 0..9, NEW d \in 0..10
  PROVE  11 * a + b < 11 * c + d <=> a < c \/ (b < d /\ a = c)
OBVIOUS

LEMMA TextOrder ==
  ASSUME NEW n \in 0..99, NEW m \in 0..99
  PROVE  Disk!TextBefore(Disk!Text(n), Disk!Text(m)) <=> Rank(n) < Rank(m)
<1> DEFINE s == Disk!Text(n)
           t == Disk!Text(m)
<1>1. Disk!TextBefore(s, t) <=>
        \/ 1 <= Len(s) /\ 1 <= Len(t) /\ s[1] < t[1]
        \/ 2 <= Len(s) /\ 2 <= Len(t) /\ s[2] < t[2] /\ s[1] = t[1]
        \/ 3 <= Len(s) /\ 3 <= Len(t) /\ s[3] < t[3] /\ s[1] = t[1] /\ s[2] = t[2]
  BY DEF Disk!TextBefore
<1>2. /\ Len(s) = 2 \/ (Len(s) = 3 /\ s[3] = 10)
      /\ s[1] \in 0..9 /\ s[2] \in 0..10 /\ Rank(n) = 11 * s[1] + s[2]
  BY TextShape
<1>3. /\ Len(t) = 2 \/ (Len(t) = 3 /\ t[3] = 10)
      /\ t[1] \in 0..9 /\ t[2] \in 0..10 /\ Rank(m) = 11 * t[1] + t[2]
  BY TextShape
<1>4. Rank(n) < Rank(m) <=> s[1] < t[1] \/ (s[2] < t[2] /\ s[1] = t[1])
  BY <1>2, <1>3, Lexicographic
<1> QED
  BY <1>1, <1>2, <1>3, <1>4

-----------------------------------------------------------------------------
Parsed(d) == Disk!ParsedSize(size[d])

LEMMA DiskFacts ==
  ASSUME Disk!DiskSelectAssumption, Disk!TypeOK
  PROVE  /\ IsFiniteSet(Disks) /\ Disk!K \in Nat
         /\ \A d \in Disks : size[d] \in Nat /\ number[d] \in 0..99 /\ Parsed(d) \in Nat
         /\ \A d, e \in Disks : number[d] = number[e] => d = e
         /\ \A d : d \in Disk!List <=> d \in Disks /\ type[d] = "disk" /\ size[d] >= Disk!K
<1>1. number \in [Disks -> 0..99] /\ \A d, e \in Disks : number[d] = number[e] => d = e
  BY DEF Disk!TypeOK, Disk!Numberings, Disk!DiskSelectAssumption
<1>2. IsFiniteSet(Disks)
  <2>1. number \in Injection(Disks, 0..99)
    BY <1>1 DEF Injection, IsInjective
  <2>2. 0 \in Int /\ 99 \in Int
    OBVIOUS
  <2>3. IsFiniteSet(0..99)
    BY <2>2, FS_Interval
  <2> QED
    BY <2>1, <2>3, FS_Injection
<1>3. \A d \in Disks : size[d] \in Nat
  <2>1. Base * Disk!P - 1 \in Int
    BY UnitValues
  <2>2. Sizes \subseteq Nat
    BY <2>1 DEF Disk!DiskSelectAssumption
  <2> QED
    BY <2>2 DEF Disk!TypeOK
<1>4. \A d \in Disks : Parsed(d) \in Nat /\ (Parsed(d) # 0 <=> size[d] >= Disk!K)
  BY <1>3, ParsedFacts DEF Parsed
<1>5. \A d : d \in Disk!List <=> d \in Disks /\ type[d] = "disk" /\ Parsed(d) # 0
  BY DEF Disk!List, Parsed
<1> QED
  BY <1>1, <1>2, <1>3, <1>4, <1>5, UnitValues

(* Before orders the disks: by size, and one name is before another.       *)
LEMMA BeforeFacts ==
  ASSUME Disk!DiskSelectAssumption, Disk!TypeOK
  PROVE  \A d, e \in Disks :
           Disk!Before(d, e) <=>
             \/ Parsed(d) > Parsed(e)
             \/ Parsed(d) = Parsed(e) /\ Rank(number[d]) < Rank(number[e])
<1> SUFFICES ASSUME NEW d \in Disks, NEW e \in Disks
             PROVE  Disk!Before(d, e) <=>
                      \/ Parsed(d) > Parsed(e)
                      \/ Parsed(d) = Parsed(e) /\ Rank(number[d]) < Rank(number[e])
  OBVIOUS
<1>1. Parsed(d) \in Nat /\ Parsed(e) \in Nat
  BY DiskFacts
<1>2. Disk!TextBefore(Disk!Text(number[d]), Disk!Text(number[e]))
        <=> Rank(number[d]) < Rank(number[e])
  BY DiskFacts, TextOrder
<1>3. CASE Parsed(d) # Parsed(e)
  <2>1. Disk!Before(d, e) <=> Parsed(d) > Parsed(e)
    BY <1>3 DEF Disk!Before, Parsed
  <2> QED
    BY <1>3, <2>1
<1>4. CASE Parsed(d) = Parsed(e)
  <2>1. Disk!Before(d, e) <=> Disk!TextBefore(Disk!Text(number[d]), Disk!Text(number[e]))
    BY <1>4 DEF Disk!Before, Parsed
  <2>2. ~ (Parsed(d) > Parsed(e))
    BY <1>1, <1>4
  <2> QED
    BY <1>2, <1>4, <2>1, <2>2, Zenon
<1> QED
  BY <1>3, <1>4

LEMMA BeforeOrders ==
  ASSUME Disk!DiskSelectAssumption, Disk!TypeOK
  PROVE  /\ \A d, e, f \in Disks : Disk!Before(d, e) /\ Disk!Before(e, f) => Disk!Before(d, f)
         /\ \A d \in Disks : ~ Disk!Before(d, d)
         /\ \A d, e \in Disks : d # e => Disk!Before(d, e) \/ Disk!Before(e, d)
<1> DEFINE p(d) == Parsed(d)
           r(d) == Rank(number[d])
<1>1. \A d \in Disks : p(d) \in Nat /\ r(d) \in Nat
  BY DiskFacts, RankType
<1>2. \A d, e \in Disks : d # e => r(d) # r(e)
  BY DiskFacts, RankDiffers
<1>3. \A d, e \in Disks :
        Disk!Before(d, e) <=> p(d) > p(e) \/ (p(d) = p(e) /\ r(d) < r(e))
  BY BeforeFacts
<1> HIDE DEF p, r
<1>4. \A d, e, f \in Disks : Disk!Before(d, e) /\ Disk!Before(e, f) => Disk!Before(d, f)
  BY <1>1, <1>3
<1>5. \A d \in Disks : ~ Disk!Before(d, d)
  BY <1>1, <1>3
<1>6. \A d, e \in Disks : d # e => Disk!Before(d, e) \/ Disk!Before(e, d)
  BY <1>1, <1>2, <1>3
<1> QED
  BY <1>4, <1>5, <1>6

(* Finitely many disks, strictly ordered: one is in front.                 *)
LEMMA FrontExists ==
  ASSUME Disk!DiskSelectAssumption, Disk!TypeOK, NEW d \in Disk!List
  PROVE  \E e \in Disk!List :
           {f \in Disk!List : \A g \in Disk!List : ~ Disk!Before(g, f)} = {e}
<1> DEFINE L == Disk!List
           Ahead(f) == {g \in L : Disk!Before(g, f)}
           Family == {Ahead(f) : f \in L}
<1>0. L \in SUBSET Disks
  BY DiskFacts
<1>1. IsFiniteSet(L)
  BY <1>0, DiskFacts, FS_Subset
<1>2. /\ \A x, y, z \in L : Disk!Before(x, y) /\ Disk!Before(y, z) => Disk!Before(x, z)
      /\ \A x \in L : ~ Disk!Before(x, x)
      /\ \A x, y \in L : x # y => Disk!Before(x, y) \/ Disk!Before(y, x)
  BY <1>0, BeforeOrders
<1>3. d \in L
  OBVIOUS
<1> HIDE DEF L
<1>4. Family \subseteq SUBSET L /\ Family # {}
  BY <1>3
<1>5. IsWellFoundedOn(StrictSubsetOrdering(L), SUBSET L)
  BY <1>1, FS_StrictSubsetOrderingWellFounded, FS_FiniteSubsetsOfFinite
<1>6. PICK A \in Family : \A B \in Family : ~ (<<B, A>> \in StrictSubsetOrdering(L))
  BY <1>4, <1>5, WFMin, Zenon
<1>7. PICK e \in L : A = Ahead(e)
  BY <1>6
<1>8. ASSUME NEW g \in L, Disk!Before(g, e) PROVE FALSE
  <2>1. Ahead(g) \in Family /\ Ahead(g) \in SUBSET L /\ A \in SUBSET L
    BY <1>7
  <2>2. Ahead(g) \subseteq A /\ g \in A /\ g \notin Ahead(g)
    BY <1>2, <1>7, <1>8
  <2>3. <<Ahead(g), A>> \in StrictSubsetOrdering(L)
    BY <2>1, <2>2 DEF StrictSubsetOrdering
  <2> QED
    BY <1>6, <2>1, <2>3
<1>9. {f \in L : \A g \in L : ~ Disk!Before(g, f)} = {e}
  BY <1>2, <1>8
<1> QED
  BY <1>9 DEF L

LEMMA OnePrimaryHolds ==
  ASSUME Disk!DiskSelectAssumption, Disk!TypeOK
  PROVE  Disk!OnePrimary
<1> SUFFICES ASSUME NEW d \in Disks, type[d] = "disk" /\ size[d] >= Disk!K
             PROVE  \E e \in Disks :
                      /\ type[e] = "disk" /\ size[e] >= Disk!K
                      /\ {f \in Disk!List : \A g \in Disk!List : ~ Disk!Before(g, f)} = {e}
  BY Zenon DEF Disk!OnePrimary
<1>1. d \in Disk!List
  BY DiskFacts
<1> QED
  BY <1>1, DiskFacts, FrontExists, Zenon

-----------------------------------------------------------------------------
(* c is among the disks that parse as the largest, however the disks are   *)
(* numbered.                                                               *)
Largest(c) ==
  /\ c \in Disks /\ type[c] = "disk" /\ size[c] >= Disk!K
  /\ \A d \in Disks : type[d] = "disk" => Parsed(d) <= Parsed(c)

DiskInv ==
  /\ Disk!TypeOK
  /\ chosen # NoDisk => Largest(chosen)
  /\ last # NoDisk => Largest(last)

LEMMA FrontIsLargest ==
  ASSUME Disk!DiskSelectAssumption, Disk!TypeOK,
         NEW c \in Disk!List, \A e \in Disk!List : ~ Disk!Before(e, c)
  PROVE  Largest(c)
<1>1. c \in Disks /\ type[c] = "disk" /\ size[c] >= Disk!K
  BY DiskFacts
<1>2. ASSUME NEW d \in Disks, type[d] = "disk" PROVE Parsed(d) <= Parsed(c)
  <2>1. Parsed(d) \in Nat /\ Parsed(c) \in Nat /\ size[d] \in Nat /\ Disk!K \in Nat
    BY <1>1, DiskFacts
  <2>2. CASE size[d] >= Disk!K
    <3>1. ~ Disk!Before(d, c)
      BY <1>2, <2>2, DiskFacts
    <3>2. ~ (Parsed(d) > Parsed(c))
      BY <1>1, <3>1, BeforeFacts
    <3> QED
      BY <2>1, <3>2
  <2>3. CASE ~ (size[d] >= Disk!K)
    <3>1. Parsed(d) = 0
      BY <2>1, <2>3, ParsedFacts DEF Parsed
    <3> QED
      BY <2>1, <3>1
  <2> QED
    BY <2>2, <2>3
<1> QED
  BY <1>1, <1>2 DEF Largest

LEMMA DiskInit == Disk!DiskSelectAssumption /\ Disk!Init => DiskInv
BY DEF Disk!DiskSelectAssumption, Disk!Init, DiskInv, Disk!TypeOK

LEMMA DiskStep ==
  ASSUME Disk!DiskSelectAssumption, DiskInv, [Disk!Next]_Disk!vars
  PROVE  DiskInv'
<1>0. NoDisk \notin Disks /\ diskBoots \in Nat /\ MaxDiskBoots \in Nat
  BY DEF Disk!DiskSelectAssumption, DiskInv, Disk!TypeOK
<1>1. CASE Disk!Primary
  <2>1. PICK d \in Disk!List : chosen' = d /\ \A e \in Disk!List : ~ Disk!Before(e, d)
    BY <1>1 DEF Disk!Primary, Disk!List
  <2>2. UNCHANGED <<size, type, number, last, diskBoots>>
    BY <1>1 DEF Disk!Primary
  <2>3. Largest(d) /\ d \in Disks
    BY <2>1, FrontIsLargest DEF DiskInv, Largest
  <2> QED
    BY <2>1, <2>2, <2>3 DEF DiskInv, Disk!TypeOK, Largest, Parsed
<1>2. CASE Disk!Reboot
  BY <1>0, <1>2 DEF Disk!Reboot, DiskInv, Disk!TypeOK, Largest, Parsed
<1>3. CASE UNCHANGED Disk!vars
  BY <1>3 DEF Disk!vars, DiskInv, Disk!TypeOK, Largest, Parsed
<1> QED
  BY <1>1, <1>2, <1>3 DEF Disk!Next

LEMMA DiskProperties ==
  ASSUME Disk!DiskSelectAssumption, DiskInv
  PROVE  Disk!OnePrimary /\ Disk!NearlyLargest /\ Disk!SameDiskAgain
<1>1. Disk!OnePrimary
  BY OnePrimaryHolds DEF DiskInv
<1>2. \A d \in Disks : size[d] \in Nat
  BY DiskFacts DEF DiskInv
<1>3. Disk!NearlyLargest
  <2> SUFFICES ASSUME chosen # NoDisk, NEW d \in Disks, type[d] = "disk"
               PROVE  10 * (size[d] - size[chosen]) <= Disk!Unit(size[d]) + 10
    BY DEF Disk!NearlyLargest
  <2>1. Largest(chosen)
    BY DEF DiskInv
  <2>2. Disk!ParsedSize(size[d]) <= Disk!ParsedSize(size[chosen])
    BY <2>1 DEF Largest, Parsed
  <2> QED
    BY <1>2, <2>1, <2>2, HardlyLarger DEF Largest
<1>4. Disk!SameDiskAgain
  <2> SUFFICES ASSUME chosen # NoDisk, last \notin {NoDisk, chosen}
               PROVE  Disk!Tenths(size[chosen]) * Disk!Unit(size[chosen])
                        = Disk!Tenths(size[last]) * Disk!Unit(size[last])
    BY DEF Disk!SameDiskAgain
  <2>1. Largest(chosen) /\ Largest(last)
    BY DEF DiskInv
  <2>2. Disk!ParsedSize(size[chosen]) = Disk!ParsedSize(size[last])
    <3>1. Parsed(chosen) \in Nat /\ Parsed(last) \in Nat
      BY <2>1, DiskFacts DEF DiskInv, Largest
    <3>2. Parsed(chosen) <= Parsed(last) /\ Parsed(last) <= Parsed(chosen)
      BY <2>1 DEF Largest
    <3> QED
      BY <3>1, <3>2 DEF Parsed
  <2> QED
    BY <1>2, <2>1, <2>2, PrintedAlike DEF Largest
<1> QED
  BY <1>1, <1>3, <1>4

LEMMA DiskCorrect ==
  ASSUME Disk!DiskSelectAssumption
  PROVE  Disk!Spec => [](/\ Disk!TypeOK /\ Disk!OnePrimary
                         /\ Disk!NearlyLargest /\ Disk!SameDiskAgain)
<1>1. Disk!Init => DiskInv
  BY DiskInit
<1>2. DiskInv /\ [Disk!Next]_Disk!vars => DiskInv'
  BY DiskStep
<1>3. DiskInv => Disk!TypeOK /\ Disk!OnePrimary /\ Disk!NearlyLargest /\ Disk!SameDiskAgain
  BY DiskProperties DEF DiskInv
<1> QED
  BY <1>1, <1>2, <1>3, PTL DEF Disk!Spec

-----------------------------------------------------------------------------
(* The four side by side: a step of the whole is a step of one of them and *)
(* leaves the variables of the others alone.                               *)

LEMMA InitOfEach == BootInit => Init /\ Net!Init /\ Disk!Init /\ Line!Init
BY DEF BootInit, HostRests, NetRests, DiskRests, LineRests

LEMMA StepOfEach ==
  [BootNext]_bootVars =>
    /\ [Next]_vars /\ [Net!Next]_Net!vars
    /\ [Disk!Next]_Disk!vars /\ [Line!Next]_Line!vars
<1>1. UNCHANGED netVars => UNCHANGED Net!vars
  BY DEF netVars, Net!vars, Net!env, Net!result
<1>2. UNCHANGED diskVars => UNCHANGED Disk!vars
  BY DEF diskVars, Disk!vars
<1>3. UNCHANGED lineVars => UNCHANGED Line!vars
  BY DEF lineVars, Line!vars
<1>4. BootNext =>
        \/ Next /\ UNCHANGED <<netVars, diskVars, lineVars>>
        \/ Net!Next /\ UNCHANGED <<vars, diskVars, lineVars>>
        \/ Disk!Next /\ UNCHANGED <<vars, netVars, lineVars>>
        \/ Line!Next /\ UNCHANGED <<vars, netVars, diskVars>>
  BY DEF BootNext
<1>5. UNCHANGED bootVars => UNCHANGED <<vars, netVars, diskVars, lineVars>>
  BY DEF bootVars
<1> QED
  BY <1>1, <1>2, <1>3, <1>4, <1>5

LEMMA SpecOfEach == BootSpec => Spec /\ Net!Spec /\ Disk!Spec /\ Line!Spec
BY InitOfEach, StepOfEach, PTL DEF BootSpec, Spec, Net!Spec, Disk!Spec, Line!Spec

(* Every variable of the four keeps its type; the MAC BringUp returns is   *)
(* that of an interface it has listed.                                     *)
THEOREM BootTyped == BootSpec => []BootTypes
<1>1. BootTypes <=> TypeOK /\ Net!TypeOK /\ Disk!TypeOK /\ Line!TypeOK
  BY DEF BootTypes
<1> QED
  BY <1>1, SpecOfEach, TypeCorrect, NetCorrect, DiskCorrect, LineTypeCorrect,
     BootAssumption, PTL
  DEF BootAssumption

(* The handshake names the MAC of every listed interface, as often as the  *)
(* listing has it, and the one BringUp has returned first unless no listed *)
(* interface has it any more, for any interfaces and any MACs, shared ones *)
(* among them.  (main.go:66-73,141-148)                                    *)
THEOREM PrimaryIsFirst == BootSpec => []PrimaryLeads
<1>1. PrimaryLeads <=> Net!PrimaryLeads
  BY DEF PrimaryLeads
<1> QED
  BY <1>1, SpecOfEach, NetCorrect, BootAssumption, PTL DEF BootAssumption

(* Exactly one disk can come out in front, for any disks and numbers.      *)
(* (disk.go:42-60, 76-83)                                                  *)
THEOREM PrimaryIsUnique == BootSpec => []OnePrimary
<1>1. OnePrimary <=> Disk!OnePrimary
  BY DEF OnePrimary
<1> QED
  BY <1>1, SpecOfEach, DiskCorrect, BootAssumption, PTL DEF BootAssumption

(* No disk is larger than the chosen one by more than a tenth of its own   *)
(* unit, whatever the sizes are.  (disk.go:66,77-79,130-136)               *)
THEOREM PrimaryIsLarge == BootSpec => []NearlyLargest
<1>1. NearlyLargest <=> Disk!NearlyLargest
  BY DEF NearlyLargest
<1> QED
  BY <1>1, SpecOfEach, DiskCorrect, BootAssumption, PTL DEF BootAssumption

(* Two boots work on different disks only if lsblk prints them alike,      *)
(* however the kernel numbers them.  (disk.go:76-81)                       *)
THEOREM DiskIsStable == BootSpec => []SameDiskAgain
<1>1. SameDiskAgain <=> Disk!SameDiskAgain
  BY DEF SameDiskAgain
<1> QED
  BY <1>1, SpecOfEach, DiskCorrect, BootAssumption, PTL DEF BootAssumption

(* What a field holds is the value of its last token, whatever the command *)
(* line is.  (cmdline.go:37-50)                                            *)
THEOREM LastTokenDecides == BootSpec => []LastTokenWins
<1>1. LastTokenWins <=> Line!LastTokenWins
  BY DEF LastTokenWins
<1> QED
  BY <1>1, SpecOfEach, LineLastToken, BootAssumption, PTL DEF BootAssumption
=============================================================================

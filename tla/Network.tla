------------------------------ MODULE Network ------------------------------
(***************************************************************************)
(* Network bring-up and the list of MAC addresses of the handshake.        *)
(*                                                                         *)
(* BringUp starts one DHCP client per interface and looks twice a second   *)
(* for an interface with an address, until the deadline or a signal.       *)
(* main then lists the interfaces again, and moves the MAC of the one that *)
(* BringUp has found to the front.  Interfaces get and lose addresses,     *)
(* come and go meanwhile.  An interface is a number, its place in the      *)
(* order of their names; its MAC may be that of another one too, as those  *)
(* of a bond or of a VLAN and of the interface below it are.               *)
(***************************************************************************)
EXTENDS Naturals, Sequences, FiniteSets

CONSTANTS
  NIC,        \* all interfaces
  MACs,       \* the MAC addresses they may have
  Deadline    \* polls until the three minutes are over

NetworkAssumption ==
  NIC \subseteq Nat \ {0} /\ IsFiniteSet(NIC) /\ Deadline \in Nat \ {0}

None == ""    \* no MAC: what BringUp returns with an error

VARIABLES
  pc,         \* "start", "wait", "up", "done" or "failed"
  mac,        \* interface |-> its MAC
  nics,       \* the interfaces BringUp has listed
  polls,      \* polls so far
  client,     \* interfaces with a DHCP client that runs
  address,    \* interface |-> "none", "linklocal" or "global"
  primary,    \* the MAC BringUp returns
  listed,     \* the interfaces of the second listing
  macs,       \* the MAC addresses for the handshake
  cancelled   \* has a signal ended the context?

env    == <<mac, client, address>>
result == <<primary, listed, macs>>
vars   == <<pc, nics, polls, env, result, cancelled>>

TypeOK ==
  /\ pc \in {"start", "wait", "up", "done", "failed"}
  /\ nics \subseteq NIC /\ client \subseteq nics
  /\ polls \in 0..Deadline
  /\ address \in [NIC -> {"none", "linklocal", "global"}]
  /\ mac \in [NIC -> MACs] /\ listed \in Seq(NIC) /\ macs \in Seq(MACs)
  /\ primary \in {mac[n] : n \in nics} \union {None} /\ cancelled \in BOOLEAN

Init ==
  /\ pc = "start" /\ nics = {} /\ polls = 0 /\ client = {}
  /\ mac \in [NIC -> MACs] /\ address \in [NIC -> {"none", "linklocal"}]
  /\ primary = None /\ listed = <<>> /\ macs = <<>> /\ cancelled \in BOOLEAN

-----------------------------------------------------------------------------
(* ListNICs: those whose MAC can be read, sorted by name as os.ReadDir     *)
(* does; or an error, which leaves none.  There is one listing of a set.   *)
Listings(found) ==
  {list \in [1..Cardinality(found) -> found] :
     \A i, j \in DOMAIN list : i < j => list[i] < list[j]}

(* BringUp up to the loop; the result of ip link set up is ignored.        *)
Spawn(found) ==
  /\ pc = "start"
  /\ nics' = found /\ client' = found
  /\ pc' = IF found = {} THEN "failed" ELSE "wait"
  /\ UNCHANGED <<polls, mac, address, result, cancelled>>

Addressed == {n \in nics : address[n] = "global"}

FirstPolled(found) == CHOOSE n \in found : \A m \in found : n <= m

(* Half a second later: the MAC of the first interface with an address.    *)
Poll ==
  /\ pc = "wait" /\ polls < Deadline
  /\ polls' = polls + 1
  /\ IF Addressed = {}
       THEN UNCHANGED <<pc, primary>>
       ELSE pc' = "up" /\ primary' = mac[FirstPolled(Addressed)]
  /\ UNCHANGED <<nics, env, listed, macs, cancelled>>

TimeOutOnSignal ==
  /\ pc = "wait" /\ cancelled
  /\ pc' = "failed"
  /\ UNCHANGED <<nics, polls, env, result, cancelled>>

(* The context ends: the deadline, or a signal.                            *)
TimeOut ==
  /\ pc = "wait"
  /\ polls = Deadline \/ cancelled
  /\ pc' = "failed"
  /\ UNCHANGED <<nics, polls, env, result, cancelled>>

CopyToFront(list, i) == [list EXCEPT ![1] = list[i]]

Swap(list, i) == [list EXCEPT ![1] = list[i], ![i] = list[1]]

(* reorder: the first place but the front that holds the MAC.              *)
Reorder(list, first) ==
  LET at == {i \in DOMAIN list : list[i] = first /\ i # 1} IN
  IF at = {} THEN list ELSE Swap(list, CHOOSE i \in at : \A j \in at : i <= j)

(* main lists the interfaces again; an error leaves the list empty.        *)
Collect(found) ==
  /\ pc = "up"
  /\ listed' \in Listings(found)
  /\ macs' = Reorder([i \in DOMAIN listed' |-> mac[listed'[i]]], primary)
  /\ pc' = "done"
  /\ UNCHANGED <<nics, polls, env, primary, cancelled>>

-----------------------------------------------------------------------------
(* A DHCP client gets a lease and sets the address.                        *)
Lease(n) ==
  /\ n \in client /\ address[n] # "global"
  /\ address' = [address EXCEPT ![n] = "global"]
  /\ UNCHANGED <<pc, nics, polls, mac, client, result, cancelled>>

(* The lease expires, or the interface goes away.                          *)
Drop(n) ==
  /\ address[n] # "none"
  /\ address' = [address EXCEPT ![n] = "none"]
  /\ UNCHANGED <<pc, nics, polls, mac, client, result, cancelled>>

(* A DHCP client ends; nothing starts it again.                            *)
ClientExits(n) ==
  /\ n \in client
  /\ client' = client \ {n}
  /\ UNCHANGED <<pc, nics, polls, mac, address, result, cancelled>>

Cancel ==
  /\ ~cancelled /\ cancelled' = TRUE
  /\ UNCHANGED <<pc, nics, polls, env, result>>

Step == (\E found \in SUBSET NIC : Spawn(found) \/ Collect(found)) \/ Poll \/ TimeOut

Next == Step \/ (\E n \in NIC : Lease(n) \/ Drop(n) \/ ClientExits(n)) \/ Cancel

Spec == Init /\ [][Next]_vars

(* The loop's timer and the context's deadline fire; nothing is assumed    *)
(* about the DHCP clients.                                                 *)
Fairness == WF_vars(Step)

-----------------------------------------------------------------------------
(* The handshake names the MAC of every interface of the second listing,   *)
(* as often as the listing has it and no other, and the one BringUp has    *)
(* returned comes first unless no listed interface has it any more:        *)
(* "Ensure primary MAC is first".  (main.go:66-73,141-148)                 *)
PrimaryLeads ==
  pc = "done" =>
    /\ \E place \in [DOMAIN macs -> DOMAIN listed] :
         /\ \A i \in DOMAIN macs : macs[i] = mac[listed[place[i]]]
         /\ \A i, j \in DOMAIN macs : place[i] = place[j] => i = j
         /\ \A k \in DOMAIN listed : \E i \in DOMAIN macs : place[i] = k
    /\ \A i \in DOMAIN listed : mac[listed[i]] = primary => macs[1] = primary

(* BringUp "blocks until at least one interface has an IPv4 address or ctx *)
(* is cancelled": it always comes to an end.  (netup.go:52-53)             *)
Settles == <>(pc \in {"done", "failed"})
=============================================================================

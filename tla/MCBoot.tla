------------------------------- MODULE MCBoot -------------------------------
(***************************************************************************)
(* What the agent does around its tasks, side by side: the life of a host  *)
(* (Agent), the network (Network), the choice of the disk (DiskSelect) and *)
(* the command line (Cmdline).  These four share no variable, so that a    *)
(* behaviour exercises one of them and leaves the others in one of their   *)
(* initial states: the state spaces add up instead of multiplying.         *)
(***************************************************************************)
EXTENDS Agent, Sequences

CONSTANTS
  NIC, MACs, Deadline,                               \* Network
  Disks, Numbers, Sizes, Base, NoDisk, MaxDiskBoots, \* DiskSelect
  Keys, Fields, Values, Empty, MaxLen                \* Cmdline

VARIABLES
  component,  \* the one this behaviour exercises
  netPc, mac, nics, polls, client, address, primary, listed, macs, netCancelled,
  size, type, number, chosen, last, diskBoots,
  tokens, next, params

Net  == INSTANCE Network WITH pc <- netPc, cancelled <- netCancelled
Disk == INSTANCE DiskSelect WITH boots <- diskBoots, MaxBoots <- MaxDiskBoots
Line == INSTANCE Cmdline

ASSUME BootAssumption ==
  /\ AgentAssumption /\ Net!NetworkAssumption
  /\ Disk!DiskSelectAssumption /\ Line!CmdlineAssumption

netVars  == <<netPc, mac, nics, polls, client, address, primary, listed, macs,
              netCancelled>>
diskVars == <<size, type, number, chosen, last, diskBoots>>
lineVars == <<tokens, next, params>>
bootVars == <<component, vars, netVars, diskVars, lineVars>>

(* One initial state of each, for the behaviours of the others.            *)
HostRests == /\ Init
             /\ fogServer = "" /\ fogAction = "" /\ ~registered
NetRests  == /\ Net!Init /\ ~netCancelled
             /\ address = [n \in NIC |-> "none"]
             /\ mac = [n \in NIC |-> CHOOSE m \in MACs : TRUE]
DiskRests == /\ Disk!Init
             /\ size = [d \in Disks |-> CHOOSE s \in Sizes : TRUE]
             /\ type = [d \in Disks |-> "rom"]
             /\ number = CHOOSE f \in Disk!Numberings : TRUE
LineRests == Line!Init /\ tokens = <<>>

BootInit ==
  \/ component = "host"    /\ NetRests /\ DiskRests /\ LineRests /\ Init
  \/ component = "network" /\ HostRests /\ DiskRests /\ LineRests /\ Net!Init
  \/ component = "disk"    /\ HostRests /\ NetRests /\ LineRests /\ Disk!Init
  \/ component = "cmdline" /\ HostRests /\ NetRests /\ DiskRests /\ Line!Init

BootNext ==
  \/ /\ component = "host" /\ Next
     /\ UNCHANGED <<component, netVars, diskVars, lineVars>>
  \/ /\ component = "network" /\ Net!Next
     /\ UNCHANGED <<component, vars, diskVars, lineVars>>
  \/ /\ component = "disk" /\ Disk!Next
     /\ UNCHANGED <<component, vars, netVars, lineVars>>
  \/ /\ component = "cmdline" /\ Line!Next
     /\ UNCHANGED <<component, vars, netVars, diskVars>>

BootSpec == BootInit /\ [][BootNext]_bootVars

-----------------------------------------------------------------------------
(* The properties are those of the four modules, where they are explained; *)
(* Agent's OffMeansRegistered keeps its name.                              *)

(* Every variable of the boot keeps its type.                              *)
BootTypes == TypeOK /\ Net!TypeOK /\ Disk!TypeOK /\ Line!TypeOK

(* See Network: the MACs of all listed interfaces, the primary in front.   *)
PrimaryLeads == Net!PrimaryLeads

(* See Network: BringUp ends, when its timers fire.                        *)
Settles == component = "network" /\ Net!Fairness => Net!Settles

(* See DiskSelect: exactly one disk can come out in front.                 *)
OnePrimary == Disk!OnePrimary

(* See DiskSelect: no disk is noticeably larger than the chosen one.       *)
NearlyLargest == Disk!NearlyLargest

(* See DiskSelect: two boots differ only where lsblk sees no difference.   *)
SameDiskAgain == Disk!SameDiskAgain

(* See Cmdline: each field has the value of its last token.                *)
LastTokenWins == Line!LastTokenWins
=============================================================================

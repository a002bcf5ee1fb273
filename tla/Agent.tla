------------------------------- MODULE Agent -------------------------------
(***************************************************************************)
(* The life of fos-agent from boot to exit, boot after boot.               *)
(*                                                                         *)
(* main reads the command line, brings the network up, shakes hands with   *)
(* fog-next and routes the action: register, deploy, capture, wipe or a    *)
(* shell.  Deploy and Capture have modules of their own; here a task ends  *)
(* in one verdict, whatever it did.  A request may be performed at once,   *)
(* not at all, or long after its caller has given up.  When the agent      *)
(* exits without having switched the machine off, somebody has to restart  *)
(* it.                                                                     *)
(***************************************************************************)
EXTENDS Naturals

CONSTANTS
  FogServers,   \* values of fog_server: "url", "bare" (no scheme), "" (missing)
  FogActions,   \* values of fog_action, "" for none
  MaxBoots      \* bound on the boots of one behaviour

AgentAssumption ==
  /\ FogServers \subseteq {"url", "bare", ""}
  /\ MaxBoots \in Nat \ {0}

Tasks == {"deploy", "capture", "wipe"}
Actions == Tasks \union {"register", "debug", "unknown"}
NoAction == ""

VARIABLES
  fogServer, fogAction,  \* the kernel command line
  pc,         \* "cmdline", "network", "handshake", "inventory", "register",
              \* "poweroff", "task", "complete", "fail" or "end"
  action,     \* the action of this boot, NoAction before the handshake
  hasTask,    \* has the handshake given a task ID (and so a log to forward to)?
  end,        \* "none", "0", "1" (exit status), "panic", "exec" or "off"
  boots,      \* boots so far
  cancelled,  \* has a signal ended the context?
  registered, \* does fog-next know the host?
  asked,      \* the task fog-next has for the host, NoAction without one
  outcome,    \* its verdict as fog-next knows it: "open", "success", "failure"
  pending     \* requests ever sent: each may still be performed, or again

boot   == <<fogServer, fogAction, pc, action, hasTask, end, boots, cancelled>>
given  == <<fogServer, fogAction, boots, cancelled>>
server == <<registered, asked, outcome, pending>>
vars   == <<boot, server>>

Verdicts == {"success", "failure"}

TypeOK ==
  /\ fogServer \in FogServers /\ fogAction \in FogActions
  /\ pc \in {"cmdline", "network", "handshake", "inventory", "register",
             "poweroff", "task", "complete", "fail", "end"}
  /\ action \in Actions \union FogActions \union {NoAction}
  /\ hasTask \in BOOLEAN
  /\ end \in {"none", "0", "1", "panic", "exec", "off"}
  /\ boots \in 1..MaxBoots /\ cancelled \in BOOLEAN
  /\ registered \in BOOLEAN /\ asked \in Tasks \union {NoAction}
  /\ outcome \in Verdicts \union {"open"}
  /\ pending \subseteq Verdicts \union {"register"}

Init ==
  /\ fogServer \in FogServers /\ fogAction \in FogActions
  /\ pc = "cmdline" /\ action = NoAction /\ hasTask = FALSE
  /\ end = "none" /\ boots = 1 /\ cancelled = FALSE
  /\ registered \in BOOLEAN
  /\ asked \in IF registered THEN Tasks \union {NoAction} ELSE {NoAction}
  /\ outcome = "open" /\ pending = {}

-----------------------------------------------------------------------------
Goto(label) == pc' = label /\ UNCHANGED end

(* The process ends, or a shell takes its place, or the machine is off.    *)
Exit(how) == pc' = "end" /\ end' = how

(* halt is os.Exit and no more.                                            *)
Halt == Exit("1")

(* What can come of Client.post: nil when the server has performed the     *)
(* request and its answer was read; an error in any case, and then the     *)
(* request may have been sent and performed all the same.  None leaves for *)
(* a URL without a scheme or with a context that has ended.                *)
Post == {r \in [sent : BOOLEAN, performed : BOOLEAN, ok : BOOLEAN] :
           /\ r.ok => r.performed
           /\ r.performed => r.sent
           /\ r.sent => fogServer = "url" /\ ~cancelled}

Sent(r, request) == pending' = pending \union (IF r.sent THEN {request} ELSE {})

ReadCmdline ==
  /\ pc = "cmdline"
  /\ \/ fogServer # "" /\ Goto("network")
     \/ Halt
  /\ UNCHANGED <<given, action, hasTask, server>>

BringUp ==
  /\ pc = "network"
  /\ \/ Goto("handshake")
     \/ Halt
  /\ UNCHANGED <<given, action, hasTask, server>>

(* What fog-next answers: the task it has, registration for a host it does *)
(* not know, and something else when there is nothing to do.               *)
Offered == IF asked # NoAction /\ outcome = "open" THEN {asked}
           ELSE IF registered THEN {"debug", "unknown"} ELSE {"register"}

Override(offer) == IF fogAction # "" THEN fogAction ELSE offer

RouteByName(a) == IF a = "register" THEN Goto("inventory") ELSE Goto(a)

(* A shell replaces the agent, or the exec fails and main halts.           *)
Debug == Exit("exec") \/ Halt

(* Dispatch, and the register branch before it.  Anything unknown is       *)
(* debug.                                                                  *)
Route(a) == IF a = "register" THEN Goto("inventory")
            ELSE IF a \in Tasks THEN Goto("task")
            ELSE Debug

Handshake ==
  /\ pc = "handshake"
  /\ \E r \in Post, offer \in Offered :
       IF r.ok
         THEN /\ action' = Override(offer)
              /\ hasTask' = (offer \in Tasks)
              /\ Route(action')
         ELSE Halt /\ UNCHANGED <<action, hasTask>>
  /\ UNCHANGED <<given, server>>

(* Register: Collect returns nil with the error of an unreadable cpuinfo   *)
(* or meminfo, which Register logs; the disk size and the UUID it can do   *)
(* without.                                                                *)
Unreadable == SUBSET {"cpuinfo", "meminfo"}

Inventory ==
  /\ pc = "inventory"
  /\ \E missing \in Unreadable :
       IF missing # {} THEN Exit("panic") ELSE Goto("register")
  /\ UNCHANGED <<given, action, hasTask, server>>

RegisterAnyway ==
  /\ pc = "register"
  /\ \E r \in Post : /\ registered' = (registered \/ r.performed)
                     /\ Sent(r, "register")
                     /\ Goto("poweroff")
  /\ UNCHANGED <<given, action, hasTask, asked, outcome>>

(* An error of Register is logged by main, which then exits with 0.        *)
Register ==
  /\ pc = "register"
  /\ \E r \in Post : /\ registered' = (registered \/ r.performed)
                     /\ Sent(r, "register")
                     /\ IF r.ok THEN Goto("poweroff") ELSE Exit("0")
  /\ UNCHANGED <<given, action, hasTask, asked, outcome>>

(* poweroff switches the machine off, or fails, which nobody looks at.     *)
PowerOff ==
  /\ pc = "poweroff"
  /\ Exit("off") \/ Exit("0")
  /\ UNCHANGED <<given, action, hasTask, server>>

-----------------------------------------------------------------------------
(* A task at work: it succeeds, or fails and that is reported.             *)
Work ==
  /\ pc = "task"
  /\ Goto("complete") \/ Goto("fail")
  /\ UNCHANGED <<given, action, hasTask, server>>

(* POST /complete, with the ID of the task that was handed out.  Without   *)
(* one, when the command line has asked for the task, it means nothing to  *)
(* fog-next.                                                               *)
Report(r, verdict) ==
  IF hasTask THEN /\ outcome' = IF r.performed THEN verdict ELSE outcome
                  /\ Sent(r, verdict)
             ELSE UNCHANGED <<outcome, pending>>

(* Complete with success: its error makes main halt.                       *)
Complete ==
  /\ pc = "complete"
  /\ \E r \in Post : /\ Report(r, "success")
                     /\ IF r.ok THEN Exit("0") ELSE Halt
  /\ UNCHANGED <<given, action, hasTask, registered, asked>>

(* reportFail: Complete without success, its error ignored; main exits 0.  *)
ReportFail ==
  /\ pc = "fail"
  /\ \E r \in Post : Report(r, "failure")
  /\ Exit("0")
  /\ UNCHANGED <<given, action, hasTask, registered, asked>>

(* A request that was sent is performed late, or once more.                *)
Arrive ==
  /\ \/ "register" \in pending /\ registered' = TRUE /\ UNCHANGED outcome
     \/ outcome' \in pending \intersect Verdicts /\ UNCHANGED registered
  /\ UNCHANGED <<boot, asked, pending>>

Cancel ==
  /\ end = "none" /\ ~cancelled
  /\ cancelled' = TRUE
  /\ UNCHANGED <<fogServer, fogAction, pc, action, hasTask, end, boots, server>>

(* Somebody restarts the machine, at any time.                             *)
Reboot ==
  /\ boots < MaxBoots
  /\ boots' = boots + 1 /\ pc' = "cmdline" /\ end' = "none"
  /\ action' = NoAction /\ hasTask' = FALSE /\ cancelled' = FALSE
  /\ UNCHANGED <<fogServer, fogAction, server>>

Step == ReadCmdline \/ BringUp \/ Handshake \/ Inventory \/ Register \/ PowerOff
          \/ Work \/ Complete \/ ReportFail

Next == Step \/ Arrive \/ Cancel \/ Reboot

Spec == Init /\ [][Next]_vars

-----------------------------------------------------------------------------
(* Powered off by the agent, the host is known to fog-next: a registration *)
(* that failed leaves the machine on.  (actions.go:60-66)                  *)
OffMeansRegistered == end = "off" => registered

(* Promised: an inventory that is only partly readable is reported as far  *)
(* as it goes ("partial inventory", actions.go:49).                        *)
NoPanic == end # "panic"
=============================================================================

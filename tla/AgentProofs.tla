---------------------------- MODULE AgentProofs ----------------------------
(***************************************************************************)
(* Proofs about the life of a host, for any command lines, any number of   *)
(* boots and requests that are performed late.                             *)
(***************************************************************************)
EXTENDS Agent, TLAPS

(* A nil error of Post means that the request was sent and performed.      *)
LEMMA PostType ==
  \A r \in Post : /\ r.performed \in BOOLEAN /\ r.ok \in BOOLEAN
                  /\ r.ok => r.performed
BY DEF Post

(* What was sent is one of the three requests.                             *)
LEMMA SentType ==
  ASSUME TypeOK, NEW r \in Post, NEW request \in Verdicts \union {"register"},
         Sent(r, request)
  PROVE  pending' \subseteq Verdicts \union {"register"}
BY DEF TypeOK, Sent

LEMMA OfferedType == TypeOK => Offered \subseteq Actions
BY DEF TypeOK, Offered, Actions, Tasks, NoAction

LEMMA TypeStep ==
  ASSUME AgentAssumption, TypeOK, [Next]_vars
  PROVE  TypeOK'
<1>0. MaxBoots \in Nat
  BY DEF AgentAssumption
<1>1. CASE ReadCmdline
  BY <1>1 DEF ReadCmdline, TypeOK, Goto, Halt, Exit, given, server
<1>2. CASE BringUp
  BY <1>2 DEF BringUp, TypeOK, Goto, Halt, Exit, given, server
<1>3. CASE Handshake
  <2>1. PICK r \in Post, offer \in Offered :
          IF r.ok
            THEN /\ action' = Override(offer)
                 /\ hasTask' = (offer \in Tasks)
                 /\ Route(action')
            ELSE Halt /\ UNCHANGED <<action, hasTask>>
    BY <1>3 DEF Handshake
  <2>2. action' \in Actions \union FogActions \union {NoAction}
    <3>1. offer \in Actions
      BY OfferedType
    <3>2. Override(offer) \in Actions \union FogActions
      BY <3>1 DEF Override, TypeOK
    <3> QED
      BY <2>1, <3>2 DEF TypeOK
  <2>3. hasTask' \in BOOLEAN
    <3>1. CASE r.ok
      <4>1. hasTask' = (offer \in Tasks)
        BY <2>1, <3>1
      <4>2. (offer \in Tasks) \in BOOLEAN
        OBVIOUS
      <4> QED
        BY <4>1, <4>2, Zenon
    <3>2. CASE ~r.ok
      BY <2>1, <3>2, Zenon DEF TypeOK
    <3> QED
      BY <3>1, <3>2
  <2>4. /\ pc' \in {"inventory", "task", "end"}
        /\ end' \in {end, "exec", "1"}
    BY <2>1 DEF Route, Debug, Goto, Exit, Halt
  <2> QED
    BY <1>3, <2>2, <2>3, <2>4 DEF Handshake, TypeOK, given, server
<1>4. CASE Inventory
  BY <1>4 DEF Inventory, TypeOK, Goto, Exit, given, server
<1>5. CASE Register
  <2>1. PICK r \in Post : /\ registered' = (registered \/ r.performed)
                          /\ Sent(r, "register")
                          /\ IF r.ok THEN Goto("poweroff") ELSE Exit("0")
    BY <1>5 DEF Register
  <2>2. pending' \subseteq Verdicts \union {"register"}
    BY <2>1, SentType
  <2>3. pc' \in {"poweroff", "end"} /\ end' \in {end, "0"}
    BY <2>1 DEF Goto, Exit
  <2>4. registered' \in BOOLEAN
    BY <2>1, PostType, Zenon DEF TypeOK
  <2> QED
    BY <1>5, <2>2, <2>3, <2>4 DEF Register, TypeOK, given
<1>6. CASE PowerOff
  BY <1>6 DEF PowerOff, TypeOK, Exit, given, server
<1>7. CASE Work
  BY <1>7 DEF Work, TypeOK, Goto, given, server
<1>8. CASE Complete
  <2>1. PICK r \in Post : /\ Report(r, "success")
                          /\ IF r.ok THEN Exit("0") ELSE Halt
    BY <1>8 DEF Complete
  <2>2. /\ pending' \subseteq Verdicts \union {"register"}
        /\ outcome' \in Verdicts \union {"open"}
    BY <2>1, SentType DEF Report, Verdicts, TypeOK
  <2>3. pc' = "end" /\ end' \in {"0", "1"}
    BY <2>1 DEF Halt, Exit
  <2> QED
    BY <1>8, <2>2, <2>3 DEF Complete, TypeOK, given
<1>9. CASE ReportFail
  <2>1. PICK r \in Post : Report(r, "failure")
    BY <1>9 DEF ReportFail
  <2>2. /\ pending' \subseteq Verdicts \union {"register"}
        /\ outcome' \in Verdicts \union {"open"}
    BY <2>1, SentType DEF Report, Verdicts, TypeOK
  <2> QED
    BY <1>9, <2>2 DEF ReportFail, Exit, TypeOK, given
<1>10. CASE Cancel
  BY <1>10 DEF Cancel, TypeOK, server
<1>11. CASE Reboot
  <2>1. boots' \in 1..MaxBoots
    BY <1>0, <1>11 DEF Reboot, TypeOK
  <2> QED
    BY <1>11, <2>1 DEF Reboot, TypeOK, server
<1>12. CASE Arrive
  <2>1. UNCHANGED boot /\ UNCHANGED <<asked, pending>>
    BY <1>12 DEF Arrive
  <2>2. registered' \in BOOLEAN
    BY <1>12, Zenon DEF Arrive, TypeOK
  <2>3. outcome' \in Verdicts \union {"open"}
    BY <1>12 DEF Arrive, TypeOK
  <2> QED
    BY <2>1, <2>2, <2>3 DEF TypeOK, boot
<1>13. CASE UNCHANGED vars
  BY <1>13 DEF vars, boot, server, TypeOK
<1> QED
  BY <1>1, <1>2, <1>3, <1>4, <1>5, <1>6, <1>7, <1>8, <1>9, <1>10, <1>11,
     <1>12, <1>13 DEF Next, Step

LEMMA TypeInit == AgentAssumption /\ Init => TypeOK
<1> SUFFICES ASSUME AgentAssumption, Init PROVE TypeOK
  OBVIOUS
<1>1. 1 \in 1..MaxBoots
  <2>1. MaxBoots \in Nat \ {0}
    BY Zenon DEF AgentAssumption
  <2> QED
    BY <2>1
<1>2. asked \in Tasks \union {NoAction}
  BY DEF Init
<1> QED
  BY <1>1, <1>2 DEF Init, TypeOK

(* Every variable keeps its type, for any number of boots.                 *)
THEOREM TypeCorrect == ASSUME AgentAssumption PROVE Spec => []TypeOK
<1>1. Init => TypeOK
  BY TypeInit
<1>2. TypeOK /\ [Next]_vars => TypeOK'
  BY TypeStep
<1> QED
  BY <1>1, <1>2, PTL DEF Spec

-----------------------------------------------------------------------------
(* A host that is about to be switched off, or is, has been registered.    *)
OffInv == pc = "poweroff" \/ end = "off" => registered

LEMMA OffStep == TypeOK /\ OffInv /\ [Next]_vars => OffInv'
<1> SUFFICES ASSUME TypeOK, OffInv, [Next]_vars PROVE OffInv'
  OBVIOUS
<1> USE DEF OffInv
<1>1. CASE ReadCmdline
  BY <1>1 DEF ReadCmdline, Goto, Halt, Exit, given, server
<1>2. CASE BringUp
  BY <1>2 DEF BringUp, Goto, Halt, Exit, given, server
<1>3. CASE Handshake
  <2>1. /\ pc' \in {"inventory", "task", "end"} /\ end' \in {end, "exec", "1"}
        /\ registered' = registered
    BY <1>3 DEF Handshake, Route, Debug, Goto, Exit, Halt, given, server
  <2> QED
    BY <2>1
<1>4. CASE Inventory
  BY <1>4 DEF Inventory, Goto, Exit, given, server
<1>5. CASE Register
  <2>1. PICK r \in Post : /\ registered' = (registered \/ r.performed)
                          /\ Sent(r, "register")
                          /\ IF r.ok THEN Goto("poweroff") ELSE Exit("0")
    BY <1>5 DEF Register
  <2>2. r.ok => r.performed
    BY PostType
  <2> QED
    BY <2>1, <2>2 DEF Goto, Exit
<1>6. CASE PowerOff
  BY <1>6 DEF PowerOff, Exit, given, server
<1>7. CASE Work
  BY <1>7 DEF Work, Goto, given, server
<1>8. CASE Complete
  BY <1>8 DEF Complete, Exit, Halt
<1>9. CASE ReportFail
  BY <1>9 DEF ReportFail, Exit
<1>10. CASE Cancel
  BY <1>10 DEF Cancel, server
<1>11. CASE Reboot
  BY <1>11 DEF Reboot, server
<1>12. CASE Arrive
  BY <1>12 DEF Arrive, boot
<1>13. CASE UNCHANGED vars
  BY <1>13 DEF vars, boot, server
<1> QED
  BY <1>1, <1>2, <1>3, <1>4, <1>5, <1>6, <1>7, <1>8, <1>9, <1>10, <1>11,
     <1>12, <1>13 DEF Next, Step

(* The agent switches the machine off only when fog-next knows the host,   *)
(* whatever requests and answers are lost or late.  (actions.go:60-66)     *)
THEOREM OffIsKnown == ASSUME AgentAssumption PROVE Spec => []OffMeansRegistered
<1>1. Init => OffInv
  BY DEF Init, OffInv
<1>2. TypeOK /\ OffInv /\ [Next]_vars => OffInv'
  BY OffStep
<1>3. OffInv => OffMeansRegistered
  BY DEF OffInv, OffMeansRegistered
<1> QED
  BY <1>1, <1>2, <1>3, TypeCorrect, PTL DEF Spec

=============================================================================

---------------------------- MODULE ImagingTask ----------------------------
(***************************************************************************)
(* What fog-next may rely on once it has handed out an imaging task.       *)
(*                                                                         *)
(* The agent works on a disk (deploy) or on an image (capture), sends a    *)
(* verdict through POST /boot/complete and stops.  A request may be        *)
(* received long after it was sent, even when the machine has booted again *)
(* and was handed the task a second time; so a verdict says what held when *)
(* it was sent.  This module promises that "success" is sent only while    *)
(* the goal holds, that the goal is left alone between the sending and the *)
(* next hand-out, and that the server learns only what was sent.  Deploy   *)
(* and Capture are shown to implement it.                                  *)
(***************************************************************************)

VARIABLES
  goal,      \* does the disk (or the image) hold what the task asks for?
  working,   \* is an agent at work on the task?
  sent,      \* the verdicts ever sent: some may still be on their way
  outcome    \* what the server knows: "open", "success" or "failure"

vars == <<goal, working, sent, outcome>>

Verdicts == {"success", "failure"}

Init == /\ goal \in BOOLEAN
        /\ working = TRUE
        /\ sent = {}
        /\ outcome = "open"

(* The agent works, fails, retries: anything may happen to the goal, also  *)
(* when a late verdict of an earlier boot has closed the task meanwhile.   *)
Work == /\ working
        /\ goal' \in BOOLEAN
        /\ UNCHANGED <<working, sent, outcome>>

(* The agent sends its verdict and stops.                                  *)
Send(v) == /\ working
           /\ v = "success" => goal
           /\ working' = FALSE
           /\ sent' = sent \union {v}
           /\ UNCHANGED <<goal, outcome>>

(* The agent stops without a word: no request of it left the machine.      *)
GiveUp == /\ working
          /\ working' = FALSE
          /\ UNCHANGED <<goal, sent, outcome>>

(* The server receives a verdict.                                          *)
Arrive(v) == /\ v \in sent
             /\ outcome' = v
             /\ UNCHANGED <<goal, working, sent>>

(* The machine boots again, at work or not, and is handed the task, which  *)
(* the server still holds open.                                            *)
HandOut == /\ outcome = "open"
           /\ working' = TRUE
           /\ goal' \in BOOLEAN
           /\ UNCHANGED <<sent, outcome>>

Next == \/ Work \/ GiveUp \/ HandOut
        \/ \E v \in Verdicts : Send(v) \/ Arrive(v)

Spec == Init /\ [][Next]_vars
=============================================================================

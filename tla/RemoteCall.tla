----------------------------- MODULE RemoteCall -----------------------------
(***************************************************************************)
(* What a caller of the boot API may assume of one call.                   *)
(*                                                                         *)
(* The server may perform the operation several times, and even after the  *)
(* caller has its answer.  "ok" is the only answer that tells the caller   *)
(* anything: the operation was performed at least once.                    *)
(***************************************************************************)
EXTENDS Naturals

VARIABLES
  answer,     \* what the caller got: "none", "ok" or "error"
  performed   \* how often the server performed the operation

vars == <<answer, performed>>

Init == answer = "none" /\ performed = 0

Perform == /\ performed' = performed + 1
           /\ UNCHANGED answer

Succeed == /\ answer = "none" /\ performed > 0
           /\ answer' = "ok"
           /\ UNCHANGED performed

Fail == /\ answer = "none"
        /\ answer' = "error"
        /\ UNCHANGED performed

Next == Perform \/ Succeed \/ Fail

Spec == Init /\ [][Next]_vars
=============================================================================

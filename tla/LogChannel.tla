----------------------------- MODULE LogChannel -----------------------------
(***************************************************************************)
(* What the console and fog-next may assume of the remote log handler: a   *)
(* channel that loses messages and delays them past one another.           *)
(*                                                                         *)
(* Goroutines write records.  A message is a run of records as they were   *)
(* written, without a gap inside, and is stored as a whole.  Messages may  *)
(* be missing and arrive in any order, but no record arrives twice, none   *)
(* before it is written, and none that nobody wrote.                       *)
(***************************************************************************)
EXTENDS Naturals, Sequences

CONSTANTS
  Records,  \* what can be logged; no two records are the same
  Batch     \* the longest message

VARIABLES
  written,  \* the records logged so far, in order
  stored    \* what the server has, in order of arrival

vars == <<written, stored>>

Init == written = <<>> /\ stored = <<>>

Write(r) ==
  /\ \A i \in 1..Len(written) : written[i] # r
  /\ written' = Append(written, r)
  /\ UNCHANGED stored

(* The message with the records from place i to place j.                   *)
Deliver(i, j) ==
  /\ j - i < Batch
  /\ \A k \in i..j : \A l \in 1..Len(stored) : stored[l] # written[k]
  /\ stored' = stored \o SubSeq(written, i, j)
  /\ UNCHANGED written

Next ==
  \/ \E r \in Records : Write(r)
  \/ \E i \in 1..Len(written) : \E j \in i..Len(written) : Deliver(i, j)

Spec == Init /\ [][Next]_vars
=============================================================================

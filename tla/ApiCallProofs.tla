---------------------------- MODULE ApiCallProofs ----------------------------
(***************************************************************************)
(* ApiCall, proved for every attempt limit: what the result of a call      *)
(* means, how long it may pause, and that it implements RemoteCall.        *)
(***************************************************************************)
EXTENDS ApiCall, FiniteSetTheorems, TLAPS

(* While the call runs it has no result and attempts left.                 *)
Running == /\ pc # "done" => result = "none" /\ attempt < MaxAttempts
           /\ result = "ctx" => cancelled
           /\ result = "error" => attempt = MaxAttempts

(* A request is either on its way or performed, never both, and none was   *)
(* made for an attempt that has not begun.                                 *)
OneFate == /\ requests \intersect performed = {}
           /\ requests \union performed \subseteq 1..Current
           /\ pc \in {"send", "backoff"} =>
                Current \notin requests \union performed

(* A positive answer in hand belongs to the attempt in progress.           *)
AnswerIsCurrent ==
  pc = "wait" /\ reply \in {"ok", "garbled"} => Current \in performed

(* Each pause is twice the one before, so all pauses so far add up to two  *)
(* seconds less than the next one.                                         *)
PausesAddUp == backoff = waited + 2

(* The pause doubles once per attempt.                                     *)
Doubled(n) == /\ n = 0 => backoff = 2
              /\ n = 1 => backoff = 4
              /\ n = 2 => backoff = 8
              /\ n = 3 => backoff = 16
              /\ n = 4 => backoff = 32

PauseOfAttempt ==
  /\ pc \in {"send", "wait"} => Doubled(attempt)
  /\ pc = "backoff" => attempt > 0 /\ Doubled(attempt - 1)
  /\ pc = "done" /\ MaxAttempts <= 5 => backoff <= 32

IInv == /\ Running /\ OneFate /\ AnswerIsCurrent /\ PausesAddUp
        /\ PauseOfAttempt /\ OkMeansPerformed

-----------------------------------------------------------------------------
(* Every variable keeps its type; the attempt counter needs Running.       *)
LEMMA TypeStep == TypeOK /\ Running /\ [Next]_vars => TypeOK' /\ Running'
<1> SUFFICES ASSUME TypeOK, Running, [Next]_vars PROVE TypeOK' /\ Running'
  OBVIOUS
<1> USE CallAssumption DEF CallAssumption, TypeOK, client, net, Attempts
<1>1. CASE Send \/ Receive \/ TimeOut \/ Backoff
  <2> USE <1>1 DEF Send, Receive, TimeOut, Backoff, Fail, Current, Running
  <2>1. attempt' \in 0..MaxAttempts /\ backoff' \in Nat /\ waited' \in Nat
    OBVIOUS
  <2>2. /\ pc' \in {"send", "wait", "backoff", "done"}
        /\ result' \in {"none", "ok", "error", "ctx"}
        /\ reply' \in {"none", "ok", "garbled", "refused"}
    OBVIOUS
  <2>3. requests' \subseteq Attempts /\ performed' \subseteq Attempts
    <3>1. CASE Send
      <4>1. Current \in 1..MaxAttempts
        BY <3>1
      <4>2. requests' \subseteq requests \union {Current}
        BY <3>1, Zenon
      <4>3. performed' = performed
        BY <3>1
      <4>4. QED
        BY <4>1, <4>2, <4>3
    <3>2. CASE Receive \/ TimeOut \/ Backoff
      BY <3>2
    <3>3. QED
      BY <1>1, <3>1, <3>2
  <2>4. UNCHANGED <<wantsReply, cancelled>>
    BY Zenon
  <2>5. Running'
    OBVIOUS
  <2>6. QED
    BY <2>1, <2>2, <2>3, <2>4, <2>5
<1>2. CASE Server
  <2> USE <1>2 DEF Server, Perform, Refuse, Lose, Answer
  <2>1. reply' \in {"none", "ok", "garbled", "refused"}
    OBVIOUS
  <2>2. requests' \subseteq Attempts /\ performed' \subseteq Attempts
    OBVIOUS
  <2>3. UNCHANGED <<wantsReply, client, cancelled>>
    OBVIOUS
  <2>4. QED
    BY <2>1, <2>2, <2>3 DEF Running
<1>3. CASE Cancel
  BY <1>3 DEF Cancel, Running
<1>4. CASE UNCHANGED vars
  BY <1>4 DEF vars, Running
<1>5. QED
  BY <1>1, <1>2, <1>3, <1>4 DEF Next, Step

(* Every variable keeps its type, for any attempt limit.                   *)
THEOREM TypeCorrect == Spec => [](TypeOK /\ Running)
<1>1. Init => TypeOK /\ Running
  BY CallAssumption DEF CallAssumption, Init, TypeOK, Running, Attempts
<1>2. QED
  BY <1>1, TypeStep, PTL DEF Spec

-----------------------------------------------------------------------------
(* The inductive invariant behind the meaning of a result.                 *)
THEOREM Invariance == Spec => []IInv
<1>1. Init => IInv
  BY CallAssumption
     DEF CallAssumption, Init, IInv, Running, OneFate, AnswerIsCurrent,
         PausesAddUp, PauseOfAttempt, Doubled, OkMeansPerformed, Current
<1>2. TypeOK /\ TypeOK' /\ Running' /\ IInv /\ [Next]_vars => IInv'
  <2> SUFFICES ASSUME TypeOK, TypeOK', Running', IInv, [Next]_vars
               PROVE  IInv'
    OBVIOUS
  <2> USE DEF IInv, client, net, Current
  <2>0. /\ attempt \in Nat /\ backoff \in Nat /\ waited \in Nat
        /\ MaxAttempts \in Nat
    BY CallAssumption DEF CallAssumption, TypeOK
  <2>1. OneFate'
    <3>1. CASE Send
      BY <2>0, <3>1 DEF Send, Fail, OneFate
    <3>2. CASE Receive
      BY <2>0, <3>2 DEF Receive, Fail, OneFate
    <3>3. CASE TimeOut
      BY <2>0, <3>3 DEF TimeOut, Fail, OneFate
    <3>4. CASE Backoff
      BY <2>0, <3>4 DEF Backoff, OneFate
    <3>5. CASE Server
      BY <2>0, <3>5 DEF Server, Perform, Refuse, Lose, OneFate
    <3>6. CASE Cancel \/ UNCHANGED vars
      BY <2>0, <3>6 DEF Cancel, vars, OneFate
    <3>7. QED
      BY <3>1, <3>2, <3>3, <3>4, <3>5, <3>6 DEF Next, Step
  <2>2. AnswerIsCurrent' /\ OkMeansPerformed'
    <3> USE DEF AnswerIsCurrent, OkMeansPerformed
    <3>1. CASE Send
      BY <3>1 DEF Send, Fail, Running
    <3>2. CASE Receive
      BY <3>2 DEF Receive, Fail, Running, Accepted
    <3>3. CASE TimeOut
      BY <3>3 DEF TimeOut, Fail, Running
    <3>4. CASE Backoff
      BY <3>4 DEF Backoff, Running
    <3>5. CASE Server
      BY <3>5 DEF Server, Perform, Refuse, Lose, Answer
    <3>6. CASE Cancel \/ UNCHANGED vars
      BY <3>6 DEF Cancel, vars
    <3>7. QED
      BY <3>1, <3>2, <3>3, <3>4, <3>5, <3>6 DEF Next, Step
  <2>3. PausesAddUp' /\ PauseOfAttempt'
    <3> USE <2>0 DEF PausesAddUp, PauseOfAttempt, Doubled, Running
    <3>1. CASE Send
      BY <3>1 DEF Send, Fail
    <3>2. CASE Receive
      BY <3>2 DEF Receive, Fail
    <3>3. CASE TimeOut
      BY <3>3 DEF TimeOut, Fail
    <3>4. CASE Backoff
      BY <3>4 DEF Backoff
    <3>5. CASE Server
      BY <3>5 DEF Server, Perform, Refuse, Lose
    <3>6. CASE Cancel \/ UNCHANGED vars
      BY <3>6 DEF Cancel, vars
    <3>7. QED
      BY <3>1, <3>2, <3>3, <3>4, <3>5, <3>6 DEF Next, Step
  <2>4. QED
    BY <2>1, <2>2, <2>3
<1>3. QED
  BY <1>1, <1>2, TypeCorrect, PTL DEF Spec

(* A nil result means that the server performed the operation, in the      *)
(* attempt whose answer was read, and five attempts never pause for more   *)
(* than thirty seconds.                                                    *)
THEOREM ResultMeans ==
  Spec => [](OkMeansPerformed /\ PausesBounded)
<1>1. TypeOK /\ IInv => OkMeansPerformed /\ PausesBounded
  <2> SUFFICES ASSUME TypeOK, IInv
               PROVE  OkMeansPerformed /\ PausesBounded
    OBVIOUS
  <2>1. OkMeansPerformed
    BY DEF IInv
  <2>2. ASSUME MaxAttempts <= 5 PROVE backoff <= 32
    <3>1. attempt \in 0..4 \/ pc = "done"
      BY <2>2, CallAssumption DEF CallAssumption, TypeOK, IInv, Running
    <3>2. QED
      BY <2>2, <3>1 DEF TypeOK, IInv, PauseOfAttempt, Doubled
  <2>3. PausesBounded
    BY <2>2 DEF TypeOK, IInv, PausesAddUp, PausesBounded
  <2>4. QED
    BY <2>1, <2>3
<1>2. QED
  BY <1>1, Invariance, TypeCorrect, PTL

-----------------------------------------------------------------------------
(* The number of performed requests, which RemoteCall counts, is finite.   *)
LEMMA PerformedFinite ==
  TypeOK => /\ IsFiniteSet(performed)
            /\ Cardinality(performed) \in Nat
            /\ performed # {} => Cardinality(performed) > 0
<1> SUFFICES ASSUME TypeOK
             PROVE  /\ IsFiniteSet(performed)
                    /\ Cardinality(performed) \in Nat
                    /\ performed # {} => Cardinality(performed) > 0
  OBVIOUS
<1>1. IsFiniteSet(performed)
  <2>1. IsFiniteSet(1..MaxAttempts)
    BY CallAssumption, FS_Interval DEF CallAssumption
  <2>2. performed \in SUBSET (1..MaxAttempts)
    BY DEF TypeOK, Attempts
  <2>3. QED
    BY <2>1, <2>2, FS_Subset
<1>2. Cardinality(performed) \in Nat
  BY <1>1, FS_CardinalityType
<1>3. QED
  BY <1>1, <1>2, FS_EmptySet

(* A call keeps the promise of RemoteCall: each Perform is one more        *)
(* operation at the server, because no request has two fates; success is   *)
(* told only after one; everything else is invisible to the caller.        *)
THEOREM Implementation == Spec => ImplementsCall
<1>1. Init => Call!Init
  <2>1. Init => result = "none" /\ performed = {}
    BY DEF Init
  <2>2. QED
    BY <2>1, FS_EmptySet DEF Call!Init
<1>2. TypeOK /\ Running /\ IInv /\ IInv' /\ [Next]_vars
        => [Call!Next]_(Call!vars)
  <2> SUFFICES ASSUME TypeOK, Running, IInv, IInv', [Next]_vars
               PROVE  [Call!Next]_(Call!vars)
    OBVIOUS
  <2> USE DEF client, net
  <2>1. ASSUME NEW a \in Attempts, Perform(a) PROVE Call!Perform
    <3>1. a \notin performed /\ performed' = performed \union {a}
      BY <2>1 DEF Perform, IInv, OneFate
    <3>2. Cardinality(performed') = Cardinality(performed) + 1
      BY <3>1, PerformedFinite, FS_AddElement
    <3>3. QED
      BY <2>1, <3>2 DEF Perform, Call!Perform
  <2>2. CASE performed' = performed /\ result' = result
    BY <2>2 DEF Call!vars
  <2>3. CASE performed' = performed /\ result' # result
    <3>1. result = "none" /\ result' \in {"ok", "error", "ctx"}
      BY <2>3 DEF Next, Step, Server, Send, Receive, TimeOut, Backoff, Perform,
         Refuse, Lose, Cancel, Fail, vars, Running
    <3>2. CASE result' = "ok"
      <4>1. performed # {}
        BY <2>3, <3>2 DEF IInv, OkMeansPerformed
      <4>2. QED
        BY <2>3, <3>1, <3>2, <4>1, PerformedFinite DEF Call!Next, Call!Succeed
    <3>3. CASE result' # "ok"
      BY <2>3, <3>1, <3>3 DEF Call!Next, Call!Fail
    <3>4. QED
      BY <3>2, <3>3
  <2>4. performed' = performed \/ \E a \in Attempts : Perform(a)
    BY DEF Next, Step, Server, Send, Receive, TimeOut, Backoff, Refuse, Lose,
       Cancel, vars
  <2>5. QED
    BY <2>1, <2>2, <2>3, <2>4 DEF Call!Next
<1>3. QED
  BY <1>1, <1>2, Invariance, TypeCorrect, PTL DEF Spec, ImplementsCall, Call!Spec
=============================================================================

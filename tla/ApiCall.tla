------------------------------ MODULE ApiCall ------------------------------
(***************************************************************************)
(* One call of Client.post: up to five POST requests with a doubling pause *)
(* between them, until one succeeds or the context ends.                   *)
(*                                                                         *)
(* The network may lose a request or its answer, or deliver the request    *)
(* after the client's timeout: the server then performs the operation for  *)
(* a client that has given the attempt up.                                 *)
(***************************************************************************)
EXTENDS Naturals, FiniteSets

CONSTANT MaxAttempts   \* the 5 in post

ASSUME CallAssumption == MaxAttempts \in Nat \ {0}

Attempts == 1..MaxAttempts

VARIABLES
  wantsReply, \* does the caller decode the response body? (Handshake does)
  pc,         \* "send", "wait", "backoff" or "done"
  attempt,    \* failed attempts so far
  backoff,    \* seconds of the next pause
  waited,     \* seconds of all pauses so far
  result,     \* "none", "ok", "error" (of the last attempt), "ctx" (ctx.Err())
  cancelled,  \* is the context done?
  requests,   \* attempts whose request is on its way to the server
  reply,      \* the answer to the attempt in progress
  performed   \* attempts the server has performed

client == <<pc, attempt, backoff, waited, result>>
net    == <<requests, reply, performed>>
vars   == <<wantsReply, client, cancelled, net>>

Current == attempt + 1

TypeOK ==
  /\ wantsReply \in BOOLEAN
  /\ pc \in {"send", "wait", "backoff", "done"}
  /\ attempt \in 0..MaxAttempts
  /\ backoff \in Nat /\ waited \in Nat
  /\ result \in {"none", "ok", "error", "ctx"}
  /\ cancelled \in BOOLEAN
  /\ requests \subseteq Attempts /\ performed \subseteq Attempts
  /\ reply \in {"none", "ok", "garbled", "refused"}

Init ==
  /\ wantsReply \in BOOLEAN
  /\ pc = "send" /\ attempt = 0 /\ backoff = 2 /\ waited = 0
  /\ result = "none" /\ cancelled \in BOOLEAN
  /\ requests = {} /\ reply = "none" /\ performed = {}

-----------------------------------------------------------------------------
FailWithoutLimit == /\ attempt' = attempt + 1 /\ pc' = "backoff"
                    /\ UNCHANGED result

(* An attempt fails: give up after the last one, pause otherwise.          *)
Fail == /\ attempt' = Current
        /\ IF Current >= MaxAttempts
             THEN pc' = "done" /\ result' = "error"
             ELSE pc' = "backoff" /\ UNCHANGED result

(* doPost up to httpClient.Do: the request leaves, or the dial fails, as   *)
(* it does at once when the context is done.                               *)
Send ==
  /\ pc = "send"
  /\ \/ /\ ~cancelled
        /\ requests' = requests \union {Current}
        /\ pc' = "wait"
        /\ UNCHANGED <<attempt, result>>
     \/ Fail /\ UNCHANGED requests
  /\ reply' = "none"
  /\ UNCHANGED <<wantsReply, backoff, waited, cancelled, performed>>

AcceptAny(answer) == answer # "none"

(* A status below 400, and a body that decodes when the caller wants one.  *)
Accepted(answer) == answer = "ok" \/ (answer = "garbled" /\ ~wantsReply)

(* The answer of the attempt in progress arrives.                          *)
Receive ==
  /\ pc = "wait" /\ reply # "none"
  /\ \/ /\ Accepted(reply)
        /\ pc' = "done" /\ result' = "ok"
        /\ UNCHANGED attempt
     \/ ~Accepted(reply) /\ Fail
  /\ UNCHANGED <<wantsReply, backoff, waited, cancelled, net>>

(* Thirty seconds pass, the connection breaks, or the context ends.        *)
TimeOut ==
  /\ pc = "wait"
  /\ Fail
  /\ UNCHANGED <<wantsReply, backoff, waited, cancelled, net>>

BackoffAfterPause ==
  /\ pc = "backoff"
  /\ waited' = waited + 2 * backoff /\ backoff' = 2 * backoff
  /\ pc' = "send"
  /\ UNCHANGED <<wantsReply, attempt, result, cancelled, net>>

BackoffWithoutTimer ==
  /\ pc = "backoff" /\ cancelled
  /\ pc' = "done" /\ result' = "ctx"
  /\ UNCHANGED <<wantsReply, attempt, waited, backoff, cancelled, net>>

(* The select of post: the timer, or the end of the context.               *)
Backoff ==
  /\ pc = "backoff"
  /\ \/ /\ waited' = waited + backoff /\ backoff' = 2 * backoff
        /\ pc' = "send"
        /\ UNCHANGED result
     \/ /\ cancelled
        /\ pc' = "done" /\ result' = "ctx"
        /\ UNCHANGED <<waited, backoff>>
  /\ UNCHANGED <<wantsReply, attempt, cancelled, net>>

-----------------------------------------------------------------------------
(* The client reads the answer only of the request it still waits for.     *)
Answer(a, answer) == reply' = IF pc = "wait" /\ a = Current THEN answer ELSE reply

(* The server performs the operation; its answer may get lost or garbled.  *)
Perform(a) ==
  /\ a \in requests
  /\ requests' = requests \ {a}
  /\ performed' = performed \union {a}
  /\ \E answer \in {"none", "ok", "garbled"} : Answer(a, answer)
  /\ UNCHANGED <<wantsReply, client, cancelled>>

(* The server answers with a status of 400 or more.                        *)
Refuse(a) ==
  /\ a \in requests
  /\ requests' = requests \ {a}
  /\ Answer(a, "refused")
  /\ UNCHANGED <<wantsReply, client, cancelled, performed>>

Lose(a) ==
  /\ a \in requests
  /\ requests' = requests \ {a}
  /\ UNCHANGED <<wantsReply, client, cancelled, reply, performed>>

Cancel ==
  /\ ~cancelled /\ cancelled' = TRUE
  /\ UNCHANGED <<wantsReply, client, net>>

Step == Send \/ Receive \/ TimeOut \/ Backoff

Server == \E a \in Attempts : Perform(a) \/ Refuse(a) \/ Lose(a)

Next == Step \/ Server \/ Cancel

Spec == Init /\ [][Next]_vars

(* The client has timers for everything it waits for; nothing is assumed   *)
(* about the server or the network.                                        *)
FairSpec == Spec /\ WF_vars(Step)

-----------------------------------------------------------------------------
(* A call that returns nil was performed, by the attempt it returned for:  *)
(* no lost, refused or late request is taken for a success.                *)
(* (client.go:249-260)                                                     *)
OkMeansPerformed == result = "ok" => Current \in performed

(* With five attempts the pauses of one call add up to 30 seconds at most  *)
(* (2 + 4 + 8 + 16): the doubling never runs past the fourth pause.        *)
(* (client.go:216,231)                                                     *)
PausesBounded == MaxAttempts <= 5 => waited <= 30

(* The call returns, whatever the server and the network do.               *)
Returns == <>(pc = "done")

(* A call keeps the promise of RemoteCall.                                 *)
Call == INSTANCE RemoteCall WITH
          answer <- IF result = "ctx" THEN "error" ELSE result,
          performed <- Cardinality(performed)
ImplementsCall == Call!Spec
=============================================================================

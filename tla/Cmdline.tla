------------------------------ MODULE Cmdline ------------------------------
(***************************************************************************)
(* cmdline.ParseString: the parameters of the agent from the tokens of the *)
(* kernel command line, read from left to right.                           *)
(*                                                                         *)
(* A key may occur twice, and a token may be a bare key: strings.Cut then  *)
(* gives it the empty value.  FogDebug is read off the value of its field, *)
(* the empty value meaning no.                                             *)
(***************************************************************************)
EXTENDS Naturals, Sequences

CONSTANTS
  Keys,    \* the keys of tokens
  Fields,  \* those ParseString knows: fog_server, fog_action, fog_host, fog_debug
  Values,  \* the values of tokens
  Empty,   \* the empty value: of a bare key, and of a field without a token
  MaxLen   \* bound on the tokens of a command line

CmdlineAssumption ==
  Fields \subseteq Keys /\ Empty \in Values /\ MaxLen \in Nat

Token == [key : Keys, value : Values]

VARIABLES
  tokens,  \* the command line
  next,    \* the first token not yet looked at
  params   \* the value of each field

vars == <<tokens, next, params>>

TypeOK ==
  /\ tokens \in Seq(Token)
  /\ next \in 1..(Len(tokens) + 1)
  /\ params \in [Fields -> Values]

Init ==
  /\ tokens \in UNION {[1..n -> Token] : n \in 0..MaxLen}
  /\ next = 1
  /\ params = [f \in Fields |-> Empty]

-----------------------------------------------------------------------------
SetFirst(p, t) == [f \in Fields |-> IF f = t.key /\ p[f] = Empty THEN t.value ELSE p[f]]

(* The switch: a key it does not know leaves the parameters as they are.   *)
Set(p, t) == [f \in Fields |-> IF f = t.key THEN t.value ELSE p[f]]

Read ==
  /\ next <= Len(tokens)
  /\ params' = Set(params, tokens[next])
  /\ next' = next + 1
  /\ UNCHANGED tokens

Next == Read

Spec == Init /\ [][Next]_vars

-----------------------------------------------------------------------------
(* What a field holds is the value of its last token so far, whatever      *)
(* comes before and between: a later bare key erases an earlier value, and *)
(* a field without a token is empty.  (cmdline.go:37-50)                   *)
LastTokenWins ==
  \A f \in Fields :
    \/ /\ params[f] = Empty
       /\ \A i \in 1..(next - 1) : tokens[i].key # f
    \/ \E i \in 1..(next - 1) :
         /\ tokens[i] = [key |-> f, value |-> params[f]]
         /\ \A j \in (i + 1)..(next - 1) : tokens[j].key # f
=============================================================================

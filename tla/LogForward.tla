---------------------------- MODULE LogForward ----------------------------
(***************************************************************************)
(* RemoteHandler: every log record goes to the console and into a bounded  *)
(* buffer, which a background goroutine forwards to fog-next in batches.   *)
(*                                                                         *)
(* Any goroutine may log at any time; the buffer is shared under a mutex,  *)
(* the request is sent outside it.  A batch is sent once: it may be lost,  *)
(* refused, or arrive after the client's timeout, behind later batches.    *)
(* The process may exit (or exec a shell) at any time.                     *)
(***************************************************************************)
EXTENDS Naturals, Sequences, SequencesExt

CONSTANTS
  Threads,      \* goroutines that log
  Cap,          \* remoteBufferCap
  Batch,        \* remoteDrainBatch
  MaxRecords    \* bound on the records of one behaviour

ASSUME LogAssumption == /\ Cap \in Nat \ {0} /\ Batch \in Nat \ {0}
                        /\ MaxRecords \in Nat

Records == 1..MaxRecords
None == 0

VARIABLES
  logged,     \* records given to Handle so far; record n is the n-th
  pending,    \* thread |-> the record between its console and buffer writes
  history,    \* all records appended to the buffer, in that order
  buf,        \* the buffer
  taken,      \* records that left the buffer in a batch
  drain,      \* the drain goroutine: "off", "idle", "post" or "wait"
  batch,      \* the batch being sent
  wire,       \* batches on their way to the server
  received,   \* what the server has stored, in order of arrival
  running     \* has the process not exited?

buffer == <<history, buf, taken>>
sender == <<drain, batch>>
vars   == <<logged, pending, buffer, sender, wire, received, running>>

TypeOK ==
  /\ logged \in 0..MaxRecords
  /\ pending \in [Threads -> Records \union {None}]
  /\ history \in Seq(Records)
  /\ buf \in Seq(Records) /\ Len(buf) <= Cap
  /\ taken \subseteq Records
  /\ drain \in {"off", "idle", "post", "wait"}
  /\ batch \in Seq(Records) /\ Len(batch) <= Batch
  /\ wire \subseteq Seq(Records)
  /\ received \in Seq(Records)
  /\ running \in BOOLEAN

Init ==
  /\ logged = 0 /\ pending = [t \in Threads |-> None]
  /\ history = <<>> /\ buf = <<>> /\ taken = {}
  /\ drain = "off" /\ batch = <<>>
  /\ wire = {} /\ received = <<>>
  /\ running = TRUE

-----------------------------------------------------------------------------
(* Handle up to the lock: the record is on the console.                    *)
Log(t) ==
  /\ running /\ pending[t] = None /\ logged < MaxRecords
  /\ logged' = logged + 1
  /\ pending' = [pending EXCEPT ![t] = logged + 1]
  /\ UNCHANGED <<buffer, sender, wire, received, running>>

RoomByNewest == IF Len(buf) >= Cap THEN Front(buf) ELSE buf
RoomOffByOne == IF Len(buf) > Cap THEN Tail(buf) ELSE buf
RoomEarly    == IF Len(buf) + 1 >= Cap /\ buf # <<>> THEN Tail(buf) ELSE buf

(* The buffer with room for one more record: a full one loses its oldest.  *)
Room == IF Len(buf) >= Cap THEN Tail(buf) ELSE buf

AppendAfterSend(t) ==
  /\ running /\ pending[t] # None
  /\ drain \notin {"post", "wait"}
  /\ buf' = Append(Room, pending[t])
  /\ history' = Append(history, pending[t])
  /\ pending' = [pending EXCEPT ![t] = None]
  /\ UNCHANGED <<logged, taken, sender, wire, received, running>>

(* The locked part of Handle.                                              *)
AppendRecord(t) ==
  /\ running /\ pending[t] # None
  /\ buf' = Append(Room, pending[t])
  /\ history' = Append(history, pending[t])
  /\ pending' = [pending EXCEPT ![t] = None]
  /\ UNCHANGED <<logged, taken, sender, wire, received, running>>

(* The client is set under the lock, then the drain goroutine starts.      *)
SetClient ==
  /\ running /\ drain = "off"
  /\ drain' = "idle"
  /\ UNCHANGED <<logged, pending, buffer, batch, wire, received, running>>

BatchLen == IF Len(buf) > Batch THEN Batch ELSE Len(buf)

(* A tick: flush takes the oldest records, under the lock.                 *)
Take ==
  /\ running /\ drain = "idle" /\ buf # <<>>
  /\ batch' = SubSeq(buf, 1, BatchLen)
  /\ buf' = SubSeq(buf, BatchLen + 1, Len(buf))
  /\ taken' = taken \union Range(SubSeq(buf, 1, BatchLen))
  /\ drain' = "post"
  /\ UNCHANGED <<logged, pending, history, wire, received, running>>

(* SendLogs: one attempt, outside the lock.  The request may not leave.    *)
Post ==
  /\ running /\ drain = "post"
  /\ \/ wire' = wire \union {batch} /\ drain' = "wait" /\ UNCHANGED batch
     \/ drain' = "idle" /\ batch' = <<>> /\ UNCHANGED wire
  /\ UNCHANGED <<logged, pending, buffer, received, running>>

ReturnRequeues ==
  /\ running /\ drain = "wait"
  /\ drain' = "idle" /\ batch' = <<>>
  /\ \/ UNCHANGED buf
     \/ buf' = batch \o buf /\ Len(batch \o buf) <= Cap
  /\ UNCHANGED <<logged, pending, history, taken, wire, received, running>>

ReturnWaitsForServer ==
  /\ running /\ drain = "wait" /\ batch \notin wire
  /\ drain' = "idle" /\ batch' = <<>>
  /\ UNCHANGED <<logged, pending, buffer, wire, received, running>>

(* SendLogs returns: an answer, a broken connection or the client timeout. *)
(* The batch is given up in every case; an error goes to the delegate.     *)
Return ==
  /\ running /\ drain = "wait"
  /\ drain' = "idle" /\ batch' = <<>>
  /\ UNCHANGED <<logged, pending, buffer, wire, received, running>>

-----------------------------------------------------------------------------
(* The server stores a batch that arrives, in time or late.                *)
Arrive(b) ==
  /\ b \in wire
  /\ wire' = wire \ {b} /\ received' = received \o b
  /\ UNCHANGED <<logged, pending, buffer, sender, running>>

(* A batch is lost on the way or refused.                                  *)
Lose(b) ==
  /\ b \in wire
  /\ wire' = wire \ {b}
  /\ UNCHANGED <<logged, pending, buffer, sender, received, running>>

(* main returns, halt exits, or Debug execs a shell: nothing is flushed.   *)
Exit ==
  /\ running /\ running' = FALSE
  /\ UNCHANGED <<logged, pending, buffer, sender, wire, received>>

Handle(t) == Log(t) \/ AppendRecord(t)
Flush == Take \/ Post \/ Return
Network == \E b \in wire : Arrive(b) \/ Lose(b)

Next == (\E t \in Threads : Handle(t)) \/ SetClient \/ Flush \/ Network \/ Exit

Spec == Init /\ [][Next]_vars

(* The goroutines that log are scheduled; the sender may hang in one       *)
(* request for ever.                                                       *)
FairSpec == Spec /\ \A t \in Threads : WF_vars(AppendRecord(t))

(* The drain goroutine is scheduled too, the ticker ticks, and the         *)
(* client's timeout ends every request.  Nothing is assumed about the      *)
(* server.                                                                 *)
FairFlush == WF_vars(Flush)

-----------------------------------------------------------------------------
(* The buffer holds the most recent records, oldest first, without a gap:  *)
(* neither an overflow nor a flush reorders, skips or repeats one.         *)
(* (loghandler.go:80-87, 130-136)                                          *)
BufferIsNewest ==
  /\ Len(buf) <= Len(history)
  /\ \A i \in 1..Len(buf) : buf[i] = history[Len(history) - Len(buf) + i]

(* A record that is neither buffered nor handed to the sender was pushed   *)
(* out by Cap younger ones.  (loghandler.go:72-73)                         *)
OnlyOverflowDrops ==
  \A i \in 1..Len(history) :
    history[i] \notin taken /\ (\A j \in 1..Len(buf) : buf[j] # history[i])
      => Len(history) - i >= Cap

(* No record is stored twice, although a request that timed out may still  *)
(* arrive: a batch is never sent again.  (client.go:157-161)               *)
StoredOnce ==
  \A i, j \in 1..Len(received) : received[i] = received[j] => i = j

(* Towards the server the handler is a lossy channel: overflows, flushes   *)
(* and late answers, in any order, never put a gap or a stranger into a    *)
(* batch, and nothing arrives twice.  (loghandler.go:124-144)              *)
Channel == INSTANCE LogChannel WITH written <- history, stored <- received

ImplementsChannel == Channel!Spec

(* Handle returns even while the server does not answer: "the agent is     *)
(* never blocked by a slow server".  (loghandler.go:72-73)                 *)
HandleReturns ==
  \A t \in Threads : pending[t] # None ~> (pending[t] = None \/ ~running)

(* Once the client is set, the buffer drains whenever logging pauses, if   *)
(* the sender is scheduled.  (loghandler.go:112-122)                       *)
Drains == FairFlush => ((drain # "off") ~> (buf = <<>> \/ ~running))
=============================================================================

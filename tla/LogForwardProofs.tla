-------------------------- MODULE LogForwardProofs --------------------------
(***************************************************************************)
(* LogForward, proved for every number of goroutines, every capacity and   *)
(* every batch length: the buffer holds the newest records in order, loses *)
(* one only to an overflow, and nothing is stored twice.  Towards the      *)
(* server the handler implements the lossy channel of LogChannel.          *)
(***************************************************************************)
EXTENDS LogForward, SequenceTheorems, TLAPS

In(r, s) == \E i \in 1..Len(s) : s[i] = r

Injective(s) == \A i, j \in 1..Len(s) : s[i] = s[j] => i = j

(* What lies before the buffer in the history was taken or pushed out.     *)
DroppedOrTaken ==
  \A i \in 1..(Len(history) - Len(buf)) :
    history[i] \in taken \/ Len(history) - i >= Cap

(* Records are handed out once: the history repeats none, and a record     *)
(* that is still pending in one goroutine is neither there nor elsewhere.  *)
Fresh ==
  /\ \A i \in 1..Len(history) : history[i] <= logged
  /\ Injective(history)
  /\ \A t \in Threads :
       pending[t] # None => /\ pending[t] <= logged
                            /\ ~In(pending[t], history)
                            /\ \A u \in Threads : pending[u] = pending[t] => u = t

(* A record is pending, buffered or taken, and only one of these.          *)
TakenApart ==
  \A r \in taken : In(r, history) /\ ~In(r, buf)

(* The batch that is about to leave is new to the wire and the server.     *)
BatchIsNew ==
  drain = "post" =>
    /\ Injective(batch)
    /\ \A r \in Records : In(r, batch) =>
         /\ r \in taken /\ ~In(r, received)
         /\ \A b \in wire : ~In(r, b)

(* Batches on the wire share no record with each other or with the server. *)
WireApart ==
  \A b \in wire :
    /\ Injective(b)
    /\ \A r \in Records : In(r, b) =>
         /\ r \in taken /\ ~In(r, received)
         /\ \A c \in wire : In(r, c) => c = b

Stored == /\ Injective(received)
          /\ \A r \in Records : In(r, received) => r \in taken

IInv == /\ BufferIsNewest /\ DroppedOrTaken /\ Fresh /\ TakenApart
        /\ BatchIsNew /\ WireApart /\ Stored

-----------------------------------------------------------------------------
(* A buffer that has made room is shorter than its capacity.               *)
LEMMA RoomType ==
  TypeOK => /\ Room \in Seq(Records) /\ Len(Room) < Cap
            /\ Len(Room) = IF Len(buf) >= Cap THEN Len(buf) - 1 ELSE Len(buf)
            /\ \A i \in 1..Len(Room) :
                 Room[i] = buf[i + (Len(buf) - Len(Room))]
<1> SUFFICES ASSUME TypeOK
             PROVE  /\ Room \in Seq(Records) /\ Len(Room) < Cap
                    /\ Len(Room) = IF Len(buf) >= Cap THEN Len(buf) - 1 ELSE Len(buf)
                    /\ \A i \in 1..Len(Room) :
                         Room[i] = buf[i + (Len(buf) - Len(Room))]
  OBVIOUS
<1>0. buf \in Seq(Records) /\ Len(buf) \in 0..Cap /\ Cap \in Nat \ {0}
  BY LogAssumption DEF LogAssumption, TypeOK
<1>1. CASE Len(buf) >= Cap
  <2>1. Room = Tail(buf) /\ buf # <<>>
    BY <1>0, <1>1 DEF Room
  <2>2. /\ Room \in Seq(Records) /\ Len(Room) = Len(buf) - 1
        /\ \A i \in 1..Len(Room) : Room[i] = buf[i + 1]
    BY <1>0, <2>1
  <2>3. QED
    BY <1>0, <1>1, <2>2
<1>2. CASE Len(buf) < Cap
  <2>1. Room = buf
    BY <1>0, <1>2 DEF Room
  <2>2. QED
    BY <1>0, <1>2, <2>1
<1>3. QED
  BY <1>0, <1>1, <1>2

(* A batch is the front of the buffer and leaves the rest of it.           *)
LEMMA BatchType ==
  ASSUME TypeOK, Take
  PROVE  /\ BatchLen \in 1..Len(buf) /\ BatchLen <= Batch
         /\ batch' \in Seq(Records) /\ Len(batch') = BatchLen
         /\ \A i \in 1..BatchLen : batch'[i] = buf[i]
         /\ buf' \in Seq(Records) /\ Len(buf') = Len(buf) - BatchLen
         /\ \A i \in 1..Len(buf') : buf'[i] = buf[i + BatchLen]
         /\ taken' = taken \union {buf[i] : i \in 1..BatchLen}
<1>1. BatchLen \in 1..Len(buf) /\ BatchLen <= Batch
  BY LogAssumption DEF LogAssumption, TypeOK, Take, BatchLen
<1>2. /\ batch' \in Seq(Records) /\ Len(batch') = BatchLen
      /\ \A i \in 1..BatchLen : batch'[i] = buf[i]
  BY <1>1 DEF TypeOK, Take
<1>3. /\ buf' \in Seq(Records) /\ Len(buf') = Len(buf) - BatchLen
      /\ \A i \in 1..Len(buf') : buf'[i] = buf[i + BatchLen]
  BY <1>1 DEF TypeOK, Take
<1>4. taken' = taken \union {buf[i] : i \in 1..BatchLen}
  <2>1. Range(batch') = {batch'[i] : i \in 1..BatchLen}
    BY <1>2 DEF Range
  <2>2. {batch'[i] : i \in 1..BatchLen} = {buf[i] : i \in 1..BatchLen}
    BY <1>2
  <2>3. QED
    BY <2>1, <2>2 DEF Take
<1>5. QED
  BY <1>1, <1>2, <1>3, <1>4

(* Every variable keeps its type; the buffer never exceeds its capacity.   *)
THEOREM TypeCorrect == Spec => []TypeOK
<1>1. Init => TypeOK
  BY LogAssumption DEF LogAssumption, Init, TypeOK, None
<1>2. TypeOK /\ [Next]_vars => TypeOK'
  <2> SUFFICES ASSUME TypeOK, [Next]_vars PROVE TypeOK'
    OBVIOUS
  <2> USE LogAssumption DEF LogAssumption, buffer, sender, Records, None
  <2>1. ASSUME NEW t \in Threads, Log(t) PROVE TypeOK'
    BY <2>1 DEF Log, TypeOK
  <2>2. ASSUME NEW t \in Threads, AppendRecord(t) PROVE TypeOK'
    <3>1. pending[t] \in Records
      BY <2>2 DEF AppendRecord, TypeOK
    <3>2. /\ buf' \in Seq(Records) /\ Len(buf') <= Cap
          /\ history' \in Seq(Records)
      BY <2>2, <3>1, RoomType DEF AppendRecord, TypeOK
    <3>3. QED
      BY <2>2, <3>2 DEF AppendRecord, TypeOK
  <2>3. CASE SetClient
    BY <2>3 DEF SetClient, TypeOK
  <2>4. CASE Take
    <3>1. taken' \subseteq Records
      <4>1. \A i \in 1..BatchLen : buf[i] \in Records
        <5>1. BatchLen \in 1..Len(buf) /\ buf \in Seq(Records)
          BY <2>4, BatchType DEF TypeOK
        <5>2. QED
          BY <5>1
      <4>2. taken' = taken \union {buf[i] : i \in 1..BatchLen}
        BY <2>4, BatchType
      <4>3. taken \in SUBSET Records
        BY DEF TypeOK
      <4>4. QED
        BY <4>1, <4>2, <4>3
    <3>2. /\ batch' \in Seq(Records) /\ Len(batch') <= Batch
          /\ buf' \in Seq(Records) /\ Len(buf') <= Cap
      BY <2>4, BatchType DEF TypeOK
    <3>3. QED
      BY <2>4, <3>1, <3>2 DEF Take, TypeOK
  <2>5. CASE Post
    <3>1. wire' \subseteq Seq(Records) /\ drain' \in {"idle", "wait"}
      <4>1. wire' \subseteq wire \union {batch} /\ drain' \in {"idle", "wait"}
        BY <2>5 DEF Post
      <4>2. wire \subseteq Seq(Records) /\ batch \in Seq(Records)
        BY DEF TypeOK
      <4>3. QED
        BY <4>1, <4>2
    <3>2. batch' \in Seq(Records) /\ Len(batch') <= Batch
      <4>1. batch' = batch \/ batch' = <<>>
        BY <2>5 DEF Post
      <4>2. <<>> \in Seq(Records) /\ Len(<<>>) <= Batch
        OBVIOUS
      <4>3. batch \in Seq(Records) /\ Len(batch) <= Batch
        BY DEF TypeOK
      <4>4. QED
        BY <4>1, <4>2, <4>3, Zenon
    <3>3. QED
      BY <2>5, <3>1, <3>2 DEF Post, TypeOK
  <2>6. CASE Return
    BY <2>6 DEF Return, TypeOK
  <2>7. ASSUME NEW b \in wire, Arrive(b) PROVE TypeOK'
    BY <2>7 DEF Arrive, TypeOK
  <2>8. ASSUME NEW b \in wire, Lose(b) PROVE TypeOK'
    BY <2>8 DEF Lose, TypeOK
  <2>9. CASE Exit \/ UNCHANGED vars
    BY <2>9 DEF Exit, vars, TypeOK
  <2>10. QED
    BY <2>1, <2>2, <2>3, <2>4, <2>5, <2>6, <2>7, <2>8, <2>9
       DEF Next, Handle, Flush, Network
<1>3. QED
  BY <1>1, <1>2, PTL DEF Spec

-----------------------------------------------------------------------------
(* One more record, element by element.                                    *)
LEMMA AppendType ==
  ASSUME TypeOK, NEW t \in Threads, AppendRecord(t)
  PROVE  /\ Len(buf') = Len(Room) + 1 /\ buf'[Len(buf')] = pending[t]
         /\ \A i \in 1..Len(Room) : buf'[i] = buf[i + (Len(buf) - Len(Room))]
         /\ Len(history') = Len(history) + 1
         /\ history'[Len(history')] = pending[t]
         /\ \A i \in 1..Len(history) : history'[i] = history[i]
         /\ Len(Room) = IF Len(buf) >= Cap THEN Len(buf) - 1 ELSE Len(buf)
<1>1. /\ Room \in Seq(Records) /\ history \in Seq(Records)
      /\ pending[t] \in Records
  BY RoomType DEF TypeOK, AppendRecord
<1>2. buf' = Append(Room, pending[t]) /\ history' = Append(history, pending[t])
  BY DEF AppendRecord
<1>3. /\ Len(buf') = Len(Room) + 1 /\ buf'[Len(Room) + 1] = pending[t]
      /\ \A i \in 1..Len(Room) : buf'[i] = Room[i]
  BY <1>1, <1>2
<1>4. /\ Len(history') = Len(history) + 1
      /\ history'[Len(history) + 1] = pending[t]
      /\ \A i \in 1..Len(history) : history'[i] = history[i]
  BY <1>1, <1>2
<1>5. QED
  BY <1>3, <1>4, RoomType

(* The buffer is the end of the history; what lies before it was taken or  *)
(* pushed out by Cap younger records.                                      *)
LEMMA BufferStep ==
  TypeOK /\ BufferIsNewest /\ DroppedOrTaken /\ [Next]_vars
    => BufferIsNewest' /\ DroppedOrTaken'
<1> SUFFICES ASSUME TypeOK, BufferIsNewest, DroppedOrTaken, [Next]_vars
             PROVE  BufferIsNewest' /\ DroppedOrTaken'
  OBVIOUS
<1>0. /\ Len(buf) \in 0..Cap /\ Len(history) \in Nat /\ Cap \in Nat \ {0}
      /\ Len(buf) <= Len(history)
  BY LogAssumption DEF LogAssumption, TypeOK, BufferIsNewest
<1>1. ASSUME NEW t \in Threads, AppendRecord(t)
      PROVE  BufferIsNewest' /\ DroppedOrTaken'
  <2>0. /\ Len(buf') = Len(Room) + 1 /\ Len(history') = Len(history) + 1
        /\ Len(Room) \in Nat
    BY <1>0, <1>1, AppendType
  <2>1. BufferIsNewest'
    <3>1. Len(buf') <= Len(history')
      BY <1>0, <1>1, AppendType
    <3>2. ASSUME NEW i \in 1..Len(buf')
          PROVE  buf'[i] = history'[Len(history') - Len(buf') + i]
      <4>1. CASE i = Len(buf')
        BY <1>0, <1>1, <4>1, AppendType
      <4>2. CASE i # Len(buf')
        <5>1. /\ i \in 1..Len(Room)
              /\ i + (Len(buf) - Len(Room)) \in 1..Len(buf)
          BY <1>0, <1>1, <4>2, AppendType
        <5>2. buf'[i] = buf[i + (Len(buf) - Len(Room))]
          BY <1>1, <5>1, AppendType
        <5>3. buf[i + (Len(buf) - Len(Room))]
                = history[Len(history) - Len(Room) + i]
          <6>1. buf[i + (Len(buf) - Len(Room))]
                  = history[Len(history) - Len(buf)
                            + (i + (Len(buf) - Len(Room)))]
            BY <5>1 DEF BufferIsNewest
          <6>2. Len(history) - Len(buf) + (i + (Len(buf) - Len(Room)))
                  = Len(history) - Len(Room) + i
            BY <1>0, <1>1, <5>1, AppendType
          <6>3. QED
            BY <6>1, <6>2
        <5>4. Len(history) - Len(Room) + i \in 1..Len(history)
          BY <1>0, <1>1, <5>1, AppendType
        <5>5. history'[Len(history) - Len(Room) + i]
                = history[Len(history) - Len(Room) + i]
          BY <1>1, <5>4, AppendType
        <5>6. Len(history') - Len(buf') = Len(history) - Len(Room)
          BY <1>0, <2>0
        <5>7. QED
          BY <5>2, <5>3, <5>5, <5>6
      <4>3. QED
        BY <4>1, <4>2
    <3>3. QED
      BY <3>1, <3>2 DEF BufferIsNewest
  <2>2. DroppedOrTaken'
    <3> SUFFICES ASSUME NEW i \in 1..(Len(history') - Len(buf'))
                 PROVE  history'[i] \in taken' \/ Len(history') - i >= Cap
      BY DEF DroppedOrTaken
    <3>1. i \in 1..Len(history) /\ history'[i] = history[i]
      BY <1>0, <1>1, AppendType
    <3>2. CASE i <= Len(history) - Len(buf)
      <4>1. history[i] \in taken \/ Len(history) - i >= Cap
        BY <1>0, <3>1, <3>2 DEF DroppedOrTaken
      <4>2. taken' = taken
        BY <1>1 DEF AppendRecord
      <4>3. Len(history') - i > Len(history) - i
        BY <1>0, <1>1, AppendType
      <4>4. QED
        BY <1>0, <1>1, <3>1, <4>1, <4>2, <4>3, AppendType
    <3>3. CASE i > Len(history) - Len(buf)
      BY <1>0, <1>1, <3>1, <3>3, AppendType
    <3>4. QED
      BY <1>0, <3>1, <3>2, <3>3
  <2>3. QED
    BY <2>1, <2>2
<1>2. CASE Take
  <2>1. /\ history' = history /\ Len(buf') = Len(buf) - BatchLen
        /\ BatchLen \in 1..Len(buf)
    BY <1>2, BatchType DEF Take
  <2>2. BufferIsNewest'
    <3> SUFFICES ASSUME NEW i \in 1..Len(buf')
                 PROVE  buf'[i] = history[Len(history) - Len(buf') + i]
      BY <1>0, <2>1 DEF BufferIsNewest
    <3>1. buf'[i] = buf[i + BatchLen] /\ i + BatchLen \in 1..Len(buf)
      BY <1>0, <1>2, <2>1, BatchType
    <3>2. buf[i + BatchLen] = history[Len(history) - Len(buf) + (i + BatchLen)]
      BY <3>1 DEF BufferIsNewest
    <3>3. QED
      BY <1>0, <2>1, <3>1, <3>2
  <2>3. DroppedOrTaken'
    <3> SUFFICES ASSUME NEW i \in 1..(Len(history) - Len(buf'))
                 PROVE  history[i] \in taken' \/ Len(history) - i >= Cap
      BY <2>1 DEF DroppedOrTaken
    <3>1. CASE i <= Len(history) - Len(buf)
      <4>1. history[i] \in taken \/ Len(history) - i >= Cap
        BY <1>0, <2>1, <3>1 DEF DroppedOrTaken
      <4>2. QED
        BY <1>2, <4>1, BatchType
    <3>2. CASE i > Len(history) - Len(buf)
      <4>1. i - (Len(history) - Len(buf)) \in 1..BatchLen
        BY <1>0, <2>1, <3>2
      <4>2. buf[i - (Len(history) - Len(buf))] = history[i]
        <5>1. i - (Len(history) - Len(buf)) \in 1..Len(buf)
          BY <1>0, <2>1, <4>1
        <5>2. buf[i - (Len(history) - Len(buf))]
                = history[Len(history) - Len(buf)
                          + (i - (Len(history) - Len(buf)))]
          BY <5>1 DEF BufferIsNewest
        <5>3. Len(history) - Len(buf) + (i - (Len(history) - Len(buf))) = i
          BY <1>0, <5>1
        <5>4. QED
          BY <5>2, <5>3
      <4>3. QED
        BY <1>2, <4>1, <4>2, BatchType
    <3>3. QED
      BY <1>0, <2>1, <3>1, <3>2
  <2>4. QED
    BY <2>2, <2>3
<1>3. CASE UNCHANGED buffer
  BY <1>3 DEF buffer, BufferIsNewest, DroppedOrTaken
<1>4. QED
  BY <1>1, <1>2, <1>3
     DEF Next, Handle, Flush, Network, Log, SetClient, Post, Return, Arrive,
         Lose, Exit, vars

-----------------------------------------------------------------------------
(* No record is handed out twice.                                          *)
LEMMA FreshStep == TypeOK /\ Fresh /\ [Next]_vars => Fresh'
<1> SUFFICES ASSUME TypeOK, Fresh, [Next]_vars PROVE Fresh'
  OBVIOUS
<1>0. /\ logged \in Nat /\ history \in Seq(Records)
      /\ \A i \in 1..Len(history) : history[i] \in Nat
      /\ pending \in [Threads -> Records \union {None}] /\ None = 0
      /\ \A u \in Threads : pending[u] \in Nat
  BY LogAssumption DEF LogAssumption, TypeOK, Records, None
<1>1. ASSUME NEW t \in Threads, Log(t) PROVE Fresh'
  <2>1. /\ logged' = logged + 1 /\ history' = history
        /\ pending' = [pending EXCEPT ![t] = logged + 1]
    BY <1>1 DEF Log, buffer
  <2>2. \A i \in 1..Len(history') : history'[i] <= logged'
    BY <1>0, <2>1 DEF Fresh
  <2>3. ASSUME NEW u \in Threads, pending'[u] # None
        PROVE  /\ pending'[u] <= logged' /\ ~In(pending'[u], history')
               /\ \A v \in Threads : pending'[v] = pending'[u] => v = u
    <3>1. CASE u = t
      <4>1. pending'[u] = logged + 1
        BY <1>0, <2>1, <3>1
      <4>2. \A v \in Threads : v # t => pending'[v] <= logged
        BY <1>0, <2>1 DEF Fresh
      <4>3. ~In(logged + 1, history)
        BY <1>0 DEF Fresh, In
      <4>4. \A v \in Threads : v # t => pending'[v] # logged + 1
        BY <1>0, <2>1, <4>2
      <4>5. QED
        BY <1>0, <2>1, <3>1, <4>1, <4>3, <4>4
    <3>2. CASE u # t
      <4>1. pending'[u] = pending[u]
        BY <1>0, <2>1, <3>2
      <4>2. pending[u] <= logged /\ ~In(pending[u], history)
        BY <2>3, <4>1 DEF Fresh
      <4>3. \A v \in Threads : pending'[v] = pending[u] => v = u
        BY <1>0, <2>1, <2>3, <4>1, <4>2 DEF Fresh
      <4>4. QED
        BY <1>0, <2>1, <4>1, <4>2, <4>3
    <3>3. QED
      BY <3>1, <3>2
  <2>4. Injective(history')
    BY <2>1 DEF Fresh
  <2>5. QED
    BY <2>2, <2>3, <2>4 DEF Fresh
<1>2. ASSUME NEW t \in Threads, AppendRecord(t) PROVE Fresh'
  <2>1. /\ logged' = logged /\ pending' = [pending EXCEPT ![t] = None]
        /\ pending[t] # None
    BY <1>2 DEF AppendRecord
  <2>2. /\ Len(history) \in Nat /\ Len(history') = Len(history) + 1
        /\ history'[Len(history) + 1] = pending[t]
        /\ \A i \in 1..Len(history) : history'[i] = history[i]
    BY <1>0, <1>2, AppendType
  <2>3. pending[t] <= logged /\ ~In(pending[t], history)
    BY <2>1 DEF Fresh
  <2>4. \A i \in 1..Len(history') : history'[i] <= logged'
    BY <2>1, <2>2, <2>3 DEF Fresh
  <2>5. Injective(history')
    <3> SUFFICES ASSUME NEW i \in 1..Len(history'), NEW j \in 1..Len(history'),
                        history'[i] = history'[j]
                 PROVE  i = j
      BY DEF Injective
    <3>1. \A k \in 1..Len(history) : history'[k] # pending[t]
      BY <2>2, <2>3 DEF In
    <3>2. CASE i \in 1..Len(history) /\ j \in 1..Len(history)
      BY <2>2, <3>2 DEF Fresh, Injective
    <3>3. CASE i = Len(history) + 1 \/ j = Len(history) + 1
      BY <2>2, <3>1, <3>3
    <3>4. QED
      BY <2>2, <3>2, <3>3
  <2>6. ASSUME NEW u \in Threads, pending'[u] # None
        PROVE  /\ pending'[u] <= logged' /\ ~In(pending'[u], history')
               /\ \A v \in Threads : pending'[v] = pending'[u] => v = u
    <3>1. u # t /\ pending'[u] = pending[u]
      BY <1>0, <2>1, <2>6
    <3>2. /\ pending[u] <= logged /\ ~In(pending[u], history)
          /\ \A v \in Threads : pending[v] = pending[u] => v = u
      BY <2>6, <3>1 DEF Fresh
    <3>3. ~In(pending[u], history')
      <4>1. pending[t] # pending[u]
        BY <3>1, <3>2
      <4>2. QED
        BY <2>2, <3>2, <4>1 DEF In
    <3>4. \A v \in Threads : pending'[v] = pending[u] => v = u
      BY <1>0, <2>1, <2>6, <3>1, <3>2
    <3>5. QED
      BY <2>1, <3>1, <3>2, <3>3, <3>4
  <2>7. QED
    BY <2>4, <2>5, <2>6 DEF Fresh
<1>3. CASE UNCHANGED <<logged, pending, history>>
  BY <1>3 DEF Fresh, Injective, In
<1>4. QED
  BY <1>1, <1>2, <1>3
     DEF Next, Handle, Flush, Network, SetClient, Take, Post, Return, Arrive,
         Lose, Exit, vars, buffer

(* What holds of the history holds of its end.                             *)
LEMMA BufferInjective ==
  TypeOK /\ BufferIsNewest /\ Fresh
    => Injective(buf) /\ \A i \in 1..Len(buf) : In(buf[i], history)
<1> SUFFICES ASSUME TypeOK, BufferIsNewest, Fresh
             PROVE  Injective(buf) /\ \A i \in 1..Len(buf) : In(buf[i], history)
  OBVIOUS
<1>0. /\ Len(buf) \in Nat /\ Len(history) \in Nat /\ Len(buf) <= Len(history)
  BY DEF TypeOK, BufferIsNewest
<1>1. \A i \in 1..Len(buf) :
        /\ Len(history) - Len(buf) + i \in 1..Len(history)
        /\ buf[i] = history[Len(history) - Len(buf) + i]
  BY <1>0 DEF BufferIsNewest
<1>2. ASSUME NEW i \in 1..Len(buf), NEW j \in 1..Len(buf), buf[i] = buf[j]
      PROVE  i = j
  <2>1. Len(history) - Len(buf) + i = Len(history) - Len(buf) + j
    BY <1>1, <1>2 DEF Fresh, Injective
  <2>2. QED
    BY <1>0, <2>1
<1>3. QED
  BY <1>1, <1>2 DEF Injective, In

(* Joining two sequences without a common element.                         *)
LEMMA Join ==
  ASSUME NEW s \in Seq(Records), NEW u \in Seq(Records)
  PROVE  /\ \A r : In(r, s \o u) => In(r, s) \/ In(r, u)
         /\ Injective(s) /\ Injective(u) /\ (\A r \in Records : In(r, u) => ~In(r, s))
              => Injective(s \o u)
<1>1. /\ Len(s) \in Nat /\ Len(u) \in Nat /\ Len(s \o u) = Len(s) + Len(u)
      /\ \A i \in 1..Len(s) : (s \o u)[i] = s[i]
      /\ \A i \in (Len(s) + 1)..(Len(s) + Len(u)) :
           (s \o u)[i] = u[i - Len(s)] /\ i - Len(s) \in 1..Len(u)
  OBVIOUS
<1>2. \A r : In(r, s \o u) => In(r, s) \/ In(r, u)
  <2> SUFFICES ASSUME NEW r, NEW i \in 1..Len(s \o u), (s \o u)[i] = r
               PROVE  In(r, s) \/ In(r, u)
    BY DEF In
  <2>1. i \in 1..Len(s) \/ i \in (Len(s) + 1)..(Len(s) + Len(u))
    BY <1>1
  <2>2. QED
    BY <1>1, <2>1 DEF In
<1>3. ASSUME Injective(s), Injective(u), \A r \in Records : In(r, u) => ~In(r, s),
             NEW i \in 1..Len(s \o u), NEW j \in 1..Len(s \o u),
             (s \o u)[i] = (s \o u)[j]
      PROVE  i = j
  <2>0. \A k \in 1..Len(s), l \in 1..Len(u) : s[k] # u[l]
    <3> SUFFICES ASSUME NEW k \in 1..Len(s), NEW l \in 1..Len(u), s[k] = u[l]
                 PROVE  FALSE
      OBVIOUS
    <3>1. u[l] \in Records /\ In(u[l], u) /\ In(u[l], s)
      BY DEF In
    <3>2. QED
      BY <1>3, <3>1
  <2>1. CASE i \in 1..Len(s) /\ j \in 1..Len(s)
    BY <1>1, <1>3, <2>1 DEF Injective
  <2>2. CASE i > Len(s) /\ j > Len(s)
    <3>1. i - Len(s) = j - Len(s)
      <4>1. /\ i \in (Len(s) + 1)..(Len(s) + Len(u))
            /\ j \in (Len(s) + 1)..(Len(s) + Len(u))
        BY <1>1, <2>2
      <4>2. QED
        BY <1>1, <1>3, <4>1 DEF Injective
    <3>2. QED
      BY <1>1, <3>1
  <2>3. CASE i \in 1..Len(s) /\ j > Len(s)
    <3>1. j \in (Len(s) + 1)..(Len(s) + Len(u))
      BY <1>1, <2>3
    <3>2. QED
      BY <1>1, <1>3, <2>0, <2>3, <3>1
  <2>4. CASE i > Len(s) /\ j \in 1..Len(s)
    <3>1. i \in (Len(s) + 1)..(Len(s) + Len(u))
      BY <1>1, <2>4
    <3>2. QED
      BY <1>1, <1>3, <2>0, <2>4, <3>1
  <2>5. QED
    BY <1>1, <2>1, <2>2, <2>3, <2>4
<1>4. QED
  BY <1>2, <1>3 DEF Injective

-----------------------------------------------------------------------------
(* A taken record never comes back into the buffer.                        *)
LEMMA TakenStep ==
  TypeOK /\ BufferIsNewest /\ Fresh /\ TakenApart /\ [Next]_vars => TakenApart'
<1> SUFFICES ASSUME TypeOK, BufferIsNewest, Fresh, TakenApart, [Next]_vars
             PROVE  TakenApart'
  OBVIOUS
<1>0. Len(buf) \in Nat /\ Len(history) \in Nat /\ Cap \in Nat \ {0}
  BY LogAssumption DEF LogAssumption, TypeOK
<1>1. ASSUME NEW t \in Threads, AppendRecord(t) PROVE TakenApart'
  <2>1. taken' = taken /\ ~In(pending[t], history)
    BY <1>1 DEF AppendRecord, Fresh
  <2> SUFFICES ASSUME NEW r \in taken PROVE In(r, history') /\ ~In(r, buf')
    BY <2>1 DEF TakenApart
  <2>2. In(r, history) /\ ~In(r, buf) /\ r # pending[t]
    BY <2>1 DEF TakenApart
  <2>3. In(r, history')
    BY <1>0, <1>1, <2>2, AppendType DEF In
  <2>4. ASSUME NEW i \in 1..Len(buf') PROVE buf'[i] # r
    <3>1. Len(buf') = Len(Room) + 1 /\ Len(Room) \in Nat
      BY <1>0, <1>1, AppendType
    <3>2. CASE i = Len(buf')
      BY <1>1, <2>2, <3>2, AppendType
    <3>3. CASE i # Len(buf')
      <4>1. i \in 1..Len(Room)
        BY <3>1, <3>3
      <4>2. i + (Len(buf) - Len(Room)) \in 1..Len(buf)
        BY <1>0, <1>1, <4>1, AppendType
      <4>3. QED
        BY <1>1, <2>2, <4>1, <4>2, AppendType DEF In
    <3>4. QED
      BY <3>2, <3>3
  <2>5. QED
    BY <2>3, <2>4 DEF In
<1>2. CASE Take
  <2>1. /\ history' = history /\ Len(buf') = Len(buf) - BatchLen
        /\ BatchLen \in 1..Len(buf)
        /\ \A i \in 1..Len(buf') : buf'[i] = buf[i + BatchLen]
        /\ taken' = taken \union {buf[i] : i \in 1..BatchLen}
    BY <1>2, BatchType DEF Take
  <2> SUFFICES ASSUME NEW r \in taken', In(r, buf') \/ ~In(r, history)
               PROVE  FALSE
    BY <2>1 DEF TakenApart
  <2>2. CASE r \in taken
    <3>1. In(r, history) /\ ~In(r, buf)
      BY <2>2 DEF TakenApart
    <3>2. \A i \in 1..Len(buf') : i + BatchLen \in 1..Len(buf)
      BY <1>0, <2>1
    <3>3. QED
      BY <2>1, <3>1, <3>2 DEF In
  <2>3. ASSUME NEW k \in 1..BatchLen, r = buf[k] PROVE FALSE
    <3>1. k \in 1..Len(buf) /\ In(r, history)
      BY <1>0, <2>1, <2>3, BufferInjective
    <3>2. PICK i \in 1..Len(buf') : buf'[i] = r
      BY <3>1 DEF In
    <3>3. i + BatchLen \in 1..Len(buf) /\ buf[i + BatchLen] = buf[k]
      BY <1>0, <2>1, <2>3, <3>2
    <3>4. i + BatchLen = k
      BY <3>1, <3>3, BufferInjective DEF Injective
    <3>5. QED
      BY <1>0, <2>1, <3>4
  <2>4. QED
    BY <2>1, <2>2, <2>3
<1>3. CASE UNCHANGED <<history, buf, taken>>
  BY <1>3 DEF TakenApart, In
<1>4. QED
  BY <1>1, <1>2, <1>3
     DEF Next, Handle, Flush, Network, Log, SetClient, Post, Return, Arrive,
         Lose, Exit, vars, buffer

(* The rest of the journey, from the sender to the server.                 *)
SentOnce == BatchIsNew /\ WireApart /\ Stored

(* No step sends a record that was sent before.                            *)
LEMMA SentStep ==
  TypeOK /\ BufferIsNewest /\ Fresh /\ TakenApart /\ SentOnce /\ [Next]_vars
    => SentOnce'
<1> SUFFICES ASSUME TypeOK, BufferIsNewest, Fresh, TakenApart, SentOnce,
                    [Next]_vars
             PROVE  SentOnce'
  OBVIOUS
<1> USE DEF SentOnce
<1>1. CASE Take
  <2>1. /\ taken' = taken \union {buf[i] : i \in 1..BatchLen}
        /\ Len(batch') = BatchLen /\ BatchLen \in 1..Len(buf)
        /\ \A i \in 1..BatchLen : batch'[i] = buf[i]
    BY <1>1, BatchType
  <2>2. wire' = wire /\ received' = received
    BY <1>1 DEF Take
  <2>3. \A i \in 1..BatchLen : i \in 1..Len(buf)
    BY <2>1 DEF TypeOK
  <2>4. Injective(batch')
    BY <2>1, <2>3, BufferInjective DEF Injective
  <2>5. ASSUME NEW r \in Records, In(r, batch')
        PROVE  /\ r \in taken' /\ ~In(r, received)
               /\ \A b \in wire : ~In(r, b)
    <3>1. In(r, buf) /\ r \in taken'
      BY <2>1, <2>3, <2>5 DEF In
    <3>2. r \notin taken
      BY <3>1 DEF TakenApart
    <3>3. QED
      BY <3>1, <3>2 DEF Stored, WireApart
  <2>6. BatchIsNew'
    BY <2>2, <2>4, <2>5 DEF BatchIsNew
  <2>7. WireApart' /\ Stored'
    BY <2>1, <2>2 DEF WireApart, Stored
  <2>8. QED
    BY <2>6, <2>7
<1>2. CASE Post
  <2>1. /\ taken' = taken /\ received' = received /\ drain = "post"
        /\ drain' # "post" /\ wire' \in {wire, wire \union {batch}}
    BY <1>2 DEF Post, buffer
  <2>2. BatchIsNew' /\ Stored'
    BY <2>1 DEF BatchIsNew, Stored
  <2>3. WireApart'
    BY <2>1 DEF WireApart, BatchIsNew
  <2>4. QED
    BY <2>2, <2>3
<1>3. ASSUME NEW b \in wire, Arrive(b) PROVE SentOnce'
  <2>1. /\ wire' = wire \ {b} /\ received' = received \o b /\ taken' = taken
        /\ drain' = drain /\ batch' = batch
    BY <1>3 DEF Arrive, buffer, sender
  <2>2. /\ b \in Seq(Records) /\ received \in Seq(Records)
    BY DEF TypeOK
  <2>3. \A r : In(r, received') => In(r, received) \/ In(r, b)
    BY <2>1, <2>2, Join
  <2>4. Injective(received')
    <3>1. Injective(received) /\ Injective(b)
      BY DEF Stored, WireApart
    <3>2. \A r \in Records : In(r, b) => ~In(r, received)
      BY DEF WireApart
    <3>3. QED
      BY <2>1, <2>2, <3>1, <3>2, Join
  <2>5. Stored'
    BY <2>1, <2>3, <2>4 DEF Stored, WireApart
  <2>6. BatchIsNew'
    BY <2>1, <2>3 DEF BatchIsNew
  <2>7. WireApart'
    BY <2>1, <2>3 DEF WireApart
  <2>8. QED
    BY <2>5, <2>6, <2>7
<1>4. ASSUME NEW b \in wire, Lose(b) PROVE SentOnce'
  BY <1>4 DEF Lose, buffer, sender, BatchIsNew, WireApart, Stored
<1>5. CASE SetClient \/ Return
  BY <1>5 DEF SetClient, Return, buffer, BatchIsNew, WireApart, Stored
<1>6. CASE UNCHANGED <<taken, drain, batch, wire, received>>
  BY <1>6 DEF BatchIsNew, WireApart, Stored
<1>7. QED
  BY <1>1, <1>2, <1>3, <1>4, <1>5, <1>6
     DEF Next, Handle, Flush, Network, Log, AppendRecord, Exit, vars, buffer,
         sender

-----------------------------------------------------------------------------
(* The inductive invariant behind the promises of the handler.             *)
THEOREM Invariance == Spec => []IInv
<1>1. Init => IInv
  <2> SUFFICES ASSUME Init PROVE IInv
    OBVIOUS
  <2>1. /\ Len(history) = 0 /\ Len(buf) = 0 /\ Len(received) = 0
        /\ taken = {} /\ wire = {} /\ drain = "off"
        /\ \A t \in Threads : pending[t] = None
    BY DEF Init
  <2>2. BufferIsNewest /\ DroppedOrTaken
    BY <2>1 DEF BufferIsNewest, DroppedOrTaken
  <2>3. Fresh /\ TakenApart
    BY <2>1 DEF Fresh, Injective, TakenApart
  <2>4. BatchIsNew /\ WireApart /\ Stored
    BY <2>1 DEF BatchIsNew, WireApart, Stored, Injective, In
  <2>5. QED
    BY <2>2, <2>3, <2>4 DEF IInv
<1>2. TypeOK /\ IInv /\ [Next]_vars => IInv'
  BY BufferStep, FreshStep, TakenStep, SentStep DEF IInv, SentOnce
<1>3. QED
  BY <1>1, <1>2, TypeCorrect, PTL DEF Spec

(* The buffer holds the newest records in order, a record is dropped only  *)
(* by an overflow, and none is stored twice.                               *)
THEOREM HandlerPromises ==
  Spec => [](BufferIsNewest /\ OnlyOverflowDrops /\ StoredOnce)
<1>1. IInv => BufferIsNewest /\ StoredOnce
  BY DEF IInv, Stored, Injective, StoredOnce
<1>2. TypeOK /\ IInv => OnlyOverflowDrops
  <2> SUFFICES ASSUME TypeOK, IInv, NEW i \in 1..Len(history),
                      history[i] \notin taken,
                      \A j \in 1..Len(buf) : buf[j] # history[i]
               PROVE  Len(history) - i >= Cap
    BY DEF OnlyOverflowDrops
  <2>0. Len(buf) \in Nat /\ Len(history) \in Nat /\ Len(buf) <= Len(history)
    BY DEF TypeOK, IInv, BufferIsNewest
  <2>1. CASE i <= Len(history) - Len(buf)
    BY <2>0, <2>1 DEF IInv, DroppedOrTaken
  <2>2. CASE i > Len(history) - Len(buf)
    <3>1. i - (Len(history) - Len(buf)) \in 1..Len(buf)
      BY <2>0, <2>2
    <3>2. buf[i - (Len(history) - Len(buf))]
            = history[Len(history) - Len(buf) + (i - (Len(history) - Len(buf)))]
      BY <3>1 DEF IInv, BufferIsNewest
    <3>3. Len(history) - Len(buf) + (i - (Len(history) - Len(buf))) = i
      BY <2>0
    <3>4. QED
      BY <3>1, <3>2, <3>3
  <2>3. QED
    BY <2>0, <2>1, <2>2
<1>3. QED
  BY <1>1, <1>2, Invariance, TypeCorrect, PTL
-----------------------------------------------------------------------------
(* A sequence is a message of the channel: a run of the history.           *)
Message(b) ==
  /\ b # <<>> /\ Len(b) <= Batch
  /\ \E i \in 1..Len(history) :
       /\ i + Len(b) - 1 <= Len(history)
       /\ \A k \in 1..Len(b) : b[k] = history[i + k - 1]

(* What is about to leave or has left is one, whatever was pushed out of   *)
(* the buffer before it and after it.                                      *)
Messages ==
  /\ drain = "post" => Message(batch)
  /\ \A b \in wire : Message(b)

(* The history only grows at its end, so that a message stays one.         *)
LEMMA MessageStays ==
  ASSUME TypeOK, NEW b \in Seq(Records), Message(b), NEW r \in Records,
         history' = Append(history, r)
  PROVE  Message(b)'
<1>1. PICK i \in 1..Len(history) :
        /\ i + Len(b) - 1 <= Len(history)
        /\ \A k \in 1..Len(b) : b[k] = history[i + k - 1]
  BY DEF Message
<1>2. /\ Len(b) \in Nat /\ Len(history) \in Nat
      /\ Len(history') = Len(history) + 1
      /\ \A n \in 1..Len(history) : history'[n] = history[n]
  BY DEF TypeOK
<1>3. ASSUME NEW k \in 1..Len(b)
      PROVE  i + k - 1 \in 1..Len(history)
  BY <1>1, <1>2
<1>4. /\ i \in 1..Len(history') /\ i + Len(b) - 1 <= Len(history')
      /\ \A k \in 1..Len(b) : b[k] = history'[i + k - 1]
  BY <1>1, <1>2, <1>3
<1>5. QED
  BY <1>4 DEF Message

(* The batch is cut from a buffer that is the end of the history.          *)
LEMMA BatchIsMessage ==
  ASSUME TypeOK, BufferIsNewest, Take
  PROVE  Message(batch')
<1> DEFINE i == Len(history) - Len(buf) + 1
<1>1. /\ BatchLen \in 1..Len(buf) /\ BatchLen <= Batch
      /\ batch' \in Seq(Records) /\ Len(batch') = BatchLen
      /\ \A k \in 1..BatchLen : batch'[k] = buf[k]
  BY BatchType
<1>2. Len(buf) \in Nat /\ Len(history) \in Nat /\ Len(buf) <= Len(history)
  BY DEF TypeOK, BufferIsNewest
<1>3. \A k \in 1..Len(buf) : buf[k] = history[Len(history) - Len(buf) + k]
  BY DEF BufferIsNewest
<1>4. i \in 1..Len(history) /\ i + Len(batch') - 1 <= Len(history)
  BY <1>1, <1>2
<1>5. ASSUME NEW k \in 1..Len(batch') PROVE batch'[k] = history[i + k - 1]
  <2>1. k \in 1..Len(buf) /\ i + k - 1 = Len(history) - Len(buf) + k
    BY <1>1, <1>2
  <2>2. QED
    BY <1>1, <1>3, <2>1
<1>6. batch' # <<>>
  BY <1>1
<1>7. QED
  BY <1>1, <1>4, <1>5, <1>6 DEF Message

LEMMA MessageStep ==
  TypeOK /\ BufferIsNewest /\ Messages /\ [Next]_vars => Messages'
<1> SUFFICES ASSUME TypeOK, BufferIsNewest, Messages, [Next]_vars
             PROVE  Messages'
  OBVIOUS
<1>0. batch \in Seq(Records) /\ wire \subseteq Seq(Records)
  BY DEF TypeOK
<1>1. ASSUME NEW t \in Threads, AppendRecord(t) PROVE Messages'
  <2>1. /\ pending[t] \in Records /\ history' = Append(history, pending[t])
        /\ UNCHANGED <<drain, batch, wire>>
    BY <1>1 DEF TypeOK, AppendRecord, sender
  <2>2. drain' = "post" => Message(batch)'
    BY <1>0, <2>1, MessageStays DEF Messages
  <2>3. \A b \in wire : Message(b)'
    BY <1>0, <2>1, MessageStays DEF Messages
  <2>4. QED
    BY <2>1, <2>2, <2>3 DEF Messages, Message
<1>2. CASE Take
  <2>1. UNCHANGED <<history, wire>>
    BY <1>2 DEF Take
  <2>2. QED
    BY <1>2, <2>1, BatchIsMessage DEF Messages, Message
<1>3. CASE Post
  BY <1>3 DEF Post, buffer, Messages, Message
<1>4. CASE SetClient \/ Return
  BY <1>4 DEF SetClient, Return, buffer, Messages, Message
<1>5. CASE UNCHANGED <<history, drain, batch>> /\ wire' \subseteq wire
  BY <1>5 DEF Messages, Message
<1>6. QED
  BY <1>1, <1>2, <1>3, <1>4, <1>5
     DEF Next, Handle, Flush, Network, Log, Arrive, Lose, Exit, vars, buffer,
         sender

LEMMA MessagesInvariant == Spec => []Messages
<1>1. Init => Messages
  BY DEF Init, Messages
<1>2. IInv => BufferIsNewest
  BY DEF IInv
<1>3. QED
  BY <1>1, <1>2, MessageStep, Invariance, TypeCorrect, PTL DEF Spec

(* A message that arrives is one the channel may deliver.                  *)
LEMMA ArrivalDelivers ==
  ASSUME TypeOK, IInv, Messages, NEW b \in wire, Arrive(b)
  PROVE  Channel!Next
<1>0. b # <<>>
  BY DEF Messages, Message
<1>1. PICK i \in 1..Len(history) :
        /\ i + Len(b) - 1 <= Len(history)
        /\ \A k \in 1..Len(b) : b[k] = history[i + k - 1]
  BY DEF Messages, Message
<1> DEFINE j == i + Len(b) - 1
<1>2. /\ b \in Seq(Records) /\ history \in Seq(Records)
      /\ Len(b) \in Nat \ {0} /\ Len(history) \in Nat
      /\ Len(b) <= Batch /\ Batch \in Nat
  BY <1>0, LogAssumption DEF TypeOK, Messages, Message, LogAssumption
<1>3. i \in Nat /\ j \in i..Len(history) /\ j - i < Batch
  BY <1>1, <1>2
<1>4. ASSUME NEW k \in i..j
      PROVE  /\ k - i + 1 \in 1..Len(b) /\ history[k] = b[k - i + 1]
             /\ history[k] \in Records
  <2>1. k - i + 1 \in 1..Len(b) /\ i + (k - i + 1) - 1 = k /\ k \in 1..Len(history)
    BY <1>2, <1>3
  <2>2. QED
    BY <1>1, <1>2, <2>1
<1>5. SubSeq(history, i, j) = b
  <2>1. /\ SubSeq(history, i, j) \in Seq(Records)
        /\ Len(SubSeq(history, i, j)) = Len(b)
        /\ \A k \in 1..Len(b) : SubSeq(history, i, j)[k] = history[i + k - 1]
    BY <1>2, <1>3, <1>4, SubSeqProperties
  <2>2. QED
    BY <1>1, <1>2, <2>1, SeqEqual
<1>6. ASSUME NEW k \in i..j, NEW l \in 1..Len(received)
      PROVE  received[l] # history[k]
  <2>1. history[k] \in Records /\ In(history[k], b)
    BY <1>4 DEF In
  <2>2. QED
    BY <2>1 DEF IInv, WireApart, In
<1>7. received' = received \o b /\ UNCHANGED history
  BY DEF Arrive, buffer
<1>8. Channel!Deliver(i, j)
  BY <1>3, <1>5, <1>6, <1>7 DEF Channel!Deliver
<1>9. QED
  BY <1>1, <1>3, <1>8 DEF Channel!Next

(* The handler implements the lossy channel: the locked part of Handle is  *)
(* Write, the arrival of a batch Deliver, and all else is invisible.       *)
THEOREM Implementation == Spec => ImplementsChannel
<1>1. Init => Channel!Init
  BY DEF Init, Channel!Init
<1>2. TypeOK /\ IInv /\ Messages /\ [Next]_vars => [Channel!Next]_(Channel!vars)
  <2> SUFFICES ASSUME TypeOK, IInv, Messages, [Next]_vars
               PROVE  [Channel!Next]_(Channel!vars)
    OBVIOUS
  <2>1. ASSUME NEW t \in Threads, AppendRecord(t) PROVE Channel!Next
    <3>1. /\ pending[t] \in Records /\ ~In(pending[t], history)
          /\ history' = Append(history, pending[t]) /\ UNCHANGED received
      BY <2>1 DEF TypeOK, AppendRecord, IInv, Fresh
    <3>2. Channel!Write(pending[t])
      BY <3>1 DEF Channel!Write, In
    <3>3. QED
      BY <3>1, <3>2 DEF Channel!Next
  <2>2. ASSUME NEW b \in wire, Arrive(b) PROVE Channel!Next
    BY <2>2, ArrivalDelivers
  <2>3. CASE UNCHANGED <<history, received>>
    BY <2>3 DEF Channel!vars
  <2>4. QED
    BY <2>1, <2>2, <2>3
       DEF Next, Handle, Flush, Network, Log, SetClient, Take, Post, Return,
           Lose, Exit, vars, buffer
<1>3. QED
  BY <1>1, <1>2, Invariance, MessagesInvariant, TypeCorrect, PTL
     DEF Spec, ImplementsChannel, Channel!Spec
=============================================================================

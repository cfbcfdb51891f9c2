---------------------------- MODULE QikQueueProofs -----------------------------
(***************************************************************************)
(* Proofs about QikQueue.tla, for any set of threads, any ring and any     *)
(* commands.                                                               *)
(***************************************************************************)
EXTENDS QikQueue, SequenceTheorems, TLAPS

-----------------------------------------------------------------------------
(***************************************************************************)
(* Ring arithmetic and frames.                                             *)
(***************************************************************************)

\* "(x + 1) % QIK_ACTION_QUEUE_SIZE" steps to the next slot and wraps.
LEMMA SuccWraps ==
  ASSUME NEW s \in Slots
  PROVE  /\ Succ(s) \in Slots
         /\ Succ(s) = IF s + 1 = QueueSize THEN 0 ELSE s + 1
BY QueueAssumption DEF Succ, Slots

\* The two bytes before the payload, as a sequence of their own.
LEMMA HeaderType ==
  ASSUME NEW length \in Byte, NEW flag \in Byte
  PROVE  <<length, flag>> \in Seq(Byte) /\ Len(<<length, flag>>) = 2
<1> HIDE DEF Byte
<1> QED
  OBVIOUS

\* A payload has at least one byte and fits tmpCmd[].
LEMMA LengthType ==
  ASSUME NEW n \in 1 .. TmpCmdSize
  PROVE  n \in Byte /\ n \in Nat /\ n >= 1
BY QueueAssumption DEF Byte

\* A header and a payload make a sequence of bytes two longer than the payload.
LEMMA LayoutType ==
  ASSUME NEW buf \in Seq(Byte), NEW flag \in {0, 1}, Len(buf) \in 1 .. TmpCmdSize
  PROVE  LET layout == <<Len(buf), flag>> \o buf
         IN  layout \in Seq(Byte) /\ Len(layout) = Len(buf) + 2 /\ Len(layout) > 2
<1> DEFINE n == Len(buf)
           header == <<n, flag>>
<1>1. n \in 1 .. TmpCmdSize
  OBVIOUS
<1> HIDE DEF n
<1>2. n \in Byte /\ n \in Nat /\ n >= 1
  BY <1>1, LengthType
<1>3. flag \in Byte
  BY DEF Byte
<1>4. header \in Seq(Byte) /\ Len(header) = 2
  BY <1>2, <1>3, HeaderType
<1> HIDE DEF header, Byte
<1>5. header \o buf \in Seq(Byte) /\ Len(header \o buf) = Len(header) + Len(buf)
  BY <1>4, ConcatProperties, Zenon
<1>6. Len(header \o buf) = n + 2 /\ Len(header \o buf) > 2
  BY <1>2, <1>4, <1>5 DEF n
<1> QED
  BY <1>5, <1>6 DEF header, n

\* A frame is two bytes longer than its payload, and its bytes are bytes.
LEMMA FrameType ==
  ASSUME NEW c \in Calls
  PROVE  /\ Frame(c) \in Seq(Byte)
         /\ Frame(c) \in Frames
         /\ Len(Frame(c)) = Len(c.buf) + 2
         /\ Len(Frame(c)) > 2
<1>1. c.buf \in Seq(Byte) /\ Len(c.buf) \in 1 .. TmpCmdSize /\ c.expectResponse \in {0, 1}
  BY QueueAssumption
<1>2. Frame(c) \in Frames
  BY DEF Frames
<1> QED
  BY <1>1, <1>2, LayoutType DEF Frame

-----------------------------------------------------------------------------
(***************************************************************************)
(* Type correctness.                                                       *)
(***************************************************************************)

\* What a thread still has to lay down is part of a queued frame.
FrameOK ==
  \A t \in Threads :
    /\ pc[t] \in {"lock", "check"} => frame[t] \in Frames
    /\ pc[t] \notin {"store", "publish", "unlock"} => done[t] = 0
    /\ pc[t] \in {"store", "publish"} => done[t] < Len(frame[t])

TypeInv == TypeOK /\ FrameOK

\* The variables keep their types, and no store reads past the end of the
\* caller's frame.
LEMMA TypeInvariant == Spec => []TypeInv
<1>1. Init => TypeInv
  <2> SUFFICES ASSUME Init PROVE TypeInv
    OBVIOUS
  <2>1. 0 \in Slots
    BY QueueAssumption DEF Slots
  <2>2. << >> \in Seq(Byte) /\ << >> \in Seq(Frames)
    OBVIOUS
  <2>3. 0 \in Byte
    BY DEF Byte
  <2>4. TypeOK
    BY <2>1, <2>2, <2>3, QueueAssumption DEF Init, TypeOK, Labels, MainLabels
  <2>5. FrameOK
    BY DEF Init, FrameOK
  <2> QED
    BY <2>4, <2>5 DEF TypeInv
<1>2. TypeInv /\ [Next]_vars => TypeInv'
  <2> SUFFICES ASSUME TypeInv, [Next]_vars
               PROVE  TypeInv'
    OBVIOUS
  <2> USE DEF TypeInv, TypeOK, FrameOK, Labels, MainLabels, Goto, Return
  <2>0. Main \in Threads /\ Nobody \notin Threads
    BY QueueAssumption
  <2>1. ASSUME NEW t \in Threads, NEW c \in Calls, Call(t, c)
        PROVE  TypeInv'
    BY <2>1, <2>0, FrameType DEF Call
  <2>2. ASSUME NEW t \in Threads, Lock(t)
        PROVE  TypeInv'
    BY <2>2, <2>0 DEF Lock
  <2>3. ASSUME NEW t \in Threads, Accept(t)
        PROVE  TypeInv'
    <3>1. frame[t] \in Frames /\ done[t] = 0
      BY <2>3 DEF Accept
    <3>2. Len(frame[t]) > 0
      BY <3>1, FrameType, QueueAssumption DEF Frames
    <3>3. backlog' \in Seq(Frames)
      BY <2>3, <3>1 DEF Accept
    <3> QED
      BY <2>3, <2>0, <3>1, <3>2, <3>3 DEF Accept
  <2>4. ASSUME NEW t \in Threads, Reject(t)
        PROVE  TypeInv'
    BY <2>4, <2>0 DEF Reject
  <2>5. ASSUME NEW t \in Threads, StoreByte(t)
        PROVE  TypeInv'
    BY <2>5, <2>0 DEF StoreByte
  <2>6. ASSUME NEW t \in Threads, PublishByte(t)
        PROVE  TypeInv'
    BY <2>6, <2>0, SuccWraps DEF PublishByte
  <2>7. ASSUME NEW t \in Threads, Unlock(t)
        PROVE  TypeInv'
    BY <2>7, <2>0 DEF Unlock
  <2>8. CASE TestQueue
    BY <2>8, <2>0 DEF TestQueue
  <2>9. CASE TakeByte
    BY <2>9, <2>0 DEF TakeByte
  <2>10. CASE OverflowTmpCmd
    BY <2>10, <2>0 DEF OverflowTmpCmd
  <2>11. CASE ConsumeByte
    BY <2>11, <2>0, SuccWraps DEF ConsumeByte
  <2>12. CASE Send
    BY <2>12, <2>0 DEF Send
  <2>13. CASE UNCHANGED vars
    BY <2>13 DEF vars
  <2> QED
    BY <2>1, <2>2, <2>3, <2>4, <2>5, <2>6, <2>7, <2>8, <2>9, <2>10, <2>11, <2>12, <2>13
       DEF Next, Enqueuing, Dequeuing
<1>3. QED
  BY <1>1, <1>2, PTL DEF Spec

-----------------------------------------------------------------------------
(***************************************************************************)
(* The mutex and the room in the ring.                                     *)
(***************************************************************************)

\* A thread between lock and unlock owns the mutex.
MutexInv == \A t \in Threads : pc[t] \in Inside => mutex = t

\* What was checked under the mutex still holds at every later byte: the rest
\* of the frame fits in front of head.
RoomInv ==
  ~ranAhead => \A t \in Threads : pc[t] \in {"store", "publish"} =>
                  SizeUsed + Len(frame[t]) - done[t] < QueueSize

\* The slot Main has just read is one that it will not find empty.
ConsumeInv == ~ranAhead /\ pc[Main] = "consume" => head # tail

\* The inductive invariant.
IInv == TypeInv /\ MutexInv /\ RoomInv /\ ConsumeInv

\* At most one thread is between lock and unlock.
LEMMA MutualExclusion ==
  ASSUME MutexInv, NEW t \in Threads, NEW u \in Threads,
         pc[t] \in Inside, pc[u] \in Inside
  PROVE  t = u
BY DEF MutexInv

\* The number of bytes used is that of a ring, and publishing a byte adds one
\* to it as long as tail does not reach head.
LEMMA PublishUses ==
  ASSUME head \in Slots, tail \in Slots, SizeUsed + 1 < QueueSize,
         tail' = Succ(tail), head' = head
  PROVE  SizeUsed' = SizeUsed + 1 /\ tail' # head
<1>1. QueueSize \in Nat \ {0} /\ head \in 0 .. QueueSize - 1 /\ tail \in 0 .. QueueSize - 1
  BY QueueAssumption DEF Slots
<1>2. tail' = IF tail + 1 = QueueSize THEN 0 ELSE tail + 1
  BY SuccWraps
<1>3. SizeUsed' = IF tail' - head < 0 THEN tail' - head + QueueSize ELSE tail' - head
  BY DEF SizeUsed
<1> QED
  BY <1>1, <1>2, <1>3 DEF SizeUsed

\* Consuming a byte that is there frees one.
LEMMA ConsumeFrees ==
  ASSUME head \in Slots, tail \in Slots, head # tail,
         head' = Succ(head), tail' = tail
  PROVE  SizeUsed' = SizeUsed - 1
<1>1. QueueSize \in Nat \ {0} /\ head \in 0 .. QueueSize - 1 /\ tail \in 0 .. QueueSize - 1
  BY QueueAssumption DEF Slots
<1>2. head' = IF head + 1 = QueueSize THEN 0 ELSE head + 1
  BY SuccWraps
<1>3. SizeUsed' = IF tail - head' < 0 THEN tail - head' + QueueSize ELSE tail - head'
  BY DEF SizeUsed
<1> QED
  BY <1>1, <1>2, <1>3 DEF SizeUsed

\* The bytes used are fewer than the ring has slots.
LEMMA SizeUsedType ==
  ASSUME head \in Slots, tail \in Slots
  PROVE  SizeUsed \in Slots
BY QueueAssumption DEF SizeUsed, Slots

\* What a thread has left to store, as a number.
LEMMA FrameLength ==
  ASSUME TypeInv, NEW t \in Threads
  PROVE  Len(frame[t]) \in Nat /\ done[t] \in Nat
<1>1. frame[t] \in Seq(Byte) /\ done[t] \in Nat
  BY DEF TypeInv, TypeOK
<1> HIDE DEF Byte
<1> QED
  BY <1>1

\* The mutex excludes, the room lasts, and Main never finds a slot gone.
LEMMA InductiveInvariant == Spec => []IInv
<1> DEFINE Inv == MutexInv /\ RoomInv /\ ConsumeInv
<1>1. Init => Inv
  BY QueueAssumption DEF Init, MutexInv, RoomInv, ConsumeInv, Inside
<1>2. TypeInv /\ TypeInv' /\ Inv /\ [Next]_vars => Inv'
  <2> SUFFICES ASSUME TypeInv, TypeInv', Inv, [Next]_vars
               PROVE  Inv'
    OBVIOUS
  <2>0. /\ Main \in Threads /\ Nobody \notin Threads
        /\ head \in Slots /\ tail \in Slots
        /\ pc \in [Threads -> MainLabels]
        /\ done \in [Threads -> Nat]
        /\ \A t \in Threads \ {Main} : pc[t] \in Labels
    BY QueueAssumption DEF TypeInv, TypeOK
  <2>a. \A t \in Threads : Len(frame[t]) \in Nat /\ done[t] \in Nat
    BY FrameLength
  <2>b. \A t \in Threads : pc[t] \in {"store", "publish"} => done[t] < Len(frame[t])
    BY DEF TypeInv, FrameOK
  <2>c. SizeUsed \in Slots
    BY <2>0, SizeUsedType
  <2>d. QueueSize \in Nat
    BY QueueAssumption
  \* A step that leaves the ring alone and moves no thread to a label where it
  \* stores or consumes disturbs neither RoomInv nor ConsumeInv.
  <2>e. ASSUME UNCHANGED <<head, tail, ranAhead>>,
               \A t \in Threads : pc'[t] \in {"store", "publish"} =>
                  /\ pc[t] \in {"store", "publish"}
                  /\ frame'[t] = frame[t] /\ done'[t] = done[t],
               pc'[Main] = "consume" => pc[Main] = "consume"
        PROVE  RoomInv' /\ ConsumeInv'
    BY <2>e DEF RoomInv, ConsumeInv, SizeUsed
  <2> USE DEF Goto, Return, Inside, Labels, MainLabels
  <2>1. ASSUME NEW t \in Threads, NEW c \in Calls, Call(t, c)
        PROVE  Inv'
    BY <2>0, <2>1, <2>e DEF Call, MutexInv
  <2>2. ASSUME NEW t \in Threads, Lock(t)
        PROVE  Inv'
    <3>1. MutexInv'
      BY <2>0, <2>2 DEF Lock, MutexInv
    <3>2. RoomInv' /\ ConsumeInv'
      BY <2>0, <2>2, <2>e DEF Lock
    <3> QED
      BY <3>1, <3>2
  <2>3. ASSUME NEW t \in Threads, Accept(t)
        PROVE  Inv'
    <3>1. MutexInv'
      BY <2>0, <2>3 DEF Accept, MutexInv
    <3>2. done[t] = 0 /\ SizeUsed + Len(frame[t]) < QueueSize
      BY <2>0, <2>3 DEF Accept, HasRoom, TypeInv, FrameOK
    <3>3. \A u \in Threads \ {t} : pc'[u] \notin {"store", "publish"}
      BY <2>0, <2>3, MutualExclusion DEF Accept
    <3>4. SizeUsed' = SizeUsed
      BY <2>3 DEF Accept, SizeUsed
    <3>5. RoomInv'
      BY <2>0, <2>a, <2>c, <2>3, <3>2, <3>3, <3>4 DEF Accept, RoomInv, Slots
    <3>6. ConsumeInv'
      BY <2>0, <2>3 DEF Accept, ConsumeInv
    <3> QED
      BY <3>1, <3>5, <3>6
  <2>4. ASSUME NEW t \in Threads, Reject(t)
        PROVE  Inv'
    BY <2>0, <2>4, <2>e DEF Reject, MutexInv
  <2>5. ASSUME NEW t \in Threads, StoreByte(t)
        PROVE  Inv'
    <3>1. MutexInv'
      BY <2>0, <2>5 DEF StoreByte, MutexInv
    <3>2. RoomInv' /\ ConsumeInv'
      BY <2>0, <2>5, <2>e DEF StoreByte
    <3> QED
      BY <3>1, <3>2
  <2>6. ASSUME NEW t \in Threads, PublishByte(t)
        PROVE  Inv'
    <3>1. MutexInv'
      BY <2>0, <2>6 DEF PublishByte, MutexInv
    <3>2. \A u \in Threads \ {t} : pc'[u] \notin {"store", "publish"}
      BY <2>0, <2>6, MutualExclusion DEF PublishByte
    <3>3. ASSUME ~ranAhead
          PROVE  /\ SizeUsed' = SizeUsed + 1
                 /\ tail' # head
                 /\ SizeUsed + Len(frame[t]) - done[t] < QueueSize
      <4>1. pc[t] \in {"store", "publish"}
        BY <2>6 DEF PublishByte
      <4>2. SizeUsed + Len(frame[t]) - done[t] < QueueSize /\ done[t] < Len(frame[t])
        BY <2>b, <3>3, <4>1 DEF RoomInv
      <4>3. SizeUsed + 1 < QueueSize
        BY <2>a, <2>c, <2>d, <4>2 DEF Slots
      <4> QED
        BY <2>0, <2>6, <4>2, <4>3, PublishUses DEF PublishByte
    <3>4. RoomInv'
      <4> SUFFICES ASSUME ~ranAhead', pc'[t] \in {"store", "publish"}
                   PROVE  SizeUsed' + Len(frame'[t]) - done'[t] < QueueSize
        BY <3>2 DEF RoomInv
      <4>1. frame' = frame /\ done'[t] = done[t] + 1 /\ ~ranAhead
        BY <2>0, <2>6 DEF PublishByte
      <4> QED
        BY <2>a, <2>c, <2>d, <3>3, <4>1 DEF Slots
    <3>5. ConsumeInv'
      BY <2>0, <2>6, <3>3 DEF PublishByte, ConsumeInv
    <3> QED
      BY <3>1, <3>4, <3>5
  <2>7. ASSUME NEW t \in Threads, Unlock(t)
        PROVE  Inv'
    <3>1. MutexInv'
      BY <2>0, <2>7, MutualExclusion DEF Unlock, MutexInv
    <3>2. RoomInv' /\ ConsumeInv'
      BY <2>0, <2>7, <2>e DEF Unlock
    <3> QED
      BY <3>1, <3>2
  <2>8. CASE TestQueue
    BY <2>0, <2>8, <2>e DEF TestQueue, MutexInv
  <2>9. CASE TakeByte
    <3>1. MutexInv'
      BY <2>0, <2>9 DEF TakeByte, MutexInv
    <3>2. RoomInv'
      BY <2>0, <2>9 DEF TakeByte, RoomInv, SizeUsed
    <3>3. ConsumeInv'
      BY <2>0, <2>9 DEF TakeByte, ConsumeInv
    <3> QED
      BY <3>1, <3>2, <3>3
  <2>10. CASE OverflowTmpCmd
    BY <2>0, <2>10, <2>e DEF OverflowTmpCmd, MutexInv
  <2>11. CASE ConsumeByte
    <3>1. MutexInv'
      BY <2>0, <2>11 DEF ConsumeByte, MutexInv
    <3>2. ASSUME ~ranAhead
          PROVE  SizeUsed' = SizeUsed - 1
      BY <2>0, <2>11, <3>2, ConsumeFrees DEF ConsumeByte, ConsumeInv
    <3>3. RoomInv'
      <4> SUFFICES ASSUME ~ranAhead', NEW u \in Threads, pc'[u] \in {"store", "publish"}
                   PROVE  SizeUsed' + Len(frame'[u]) - done'[u] < QueueSize
        BY DEF RoomInv
      <4>1. /\ frame' = frame /\ done' = done /\ ~ranAhead
            /\ pc[u] \in {"store", "publish"}
        BY <2>0, <2>11 DEF ConsumeByte
      <4>2. SizeUsed + Len(frame[u]) - done[u] < QueueSize
        BY <4>1 DEF RoomInv
      <4> QED
        BY <2>a, <2>c, <2>d, <3>2, <4>1, <4>2 DEF Slots
    <3>4. ConsumeInv'
      BY <2>0, <2>11 DEF ConsumeByte, ConsumeInv
    <3> QED
      BY <3>1, <3>3, <3>4
  <2>12. CASE Send
    BY <2>0, <2>12, <2>e DEF Send, MutexInv
  <2>13. CASE UNCHANGED vars
    BY <2>13, <2>e DEF vars, MutexInv
  <2> QED
    BY <2>1, <2>2, <2>3, <2>4, <2>5, <2>6, <2>7, <2>8, <2>9, <2>10, <2>11, <2>12, <2>13
       DEF Next, Enqueuing, Dequeuing
<1>3. QED
  BY <1>1, <1>2, TypeInvariant, PTL DEF Spec, IInv

-----------------------------------------------------------------------------
(***************************************************************************)
(* The theorems.                                                           *)
(***************************************************************************)

\* The variables keep their types: head and tail stay inside the ring, and a
\* byte is never stored from past the end of a caller's buffer.
THEOREM TypeCorrect == Spec => []TypeOK
BY TypeInvariant, PTL DEF TypeInv

\* The room measured once, before the first byte is stored, is enough for all
\* of them although head moves in between: the full ring that looks empty
\* (lines 374-400 of Qik2s9v1.c) is not reached, however large the ring.
THEOREM NeverLaps == Spec => TailNeverLaps
<1>1. IInv /\ [Next]_vars => (~ranAhead /\ tail' # tail => tail' # head)
  <2> SUFFICES ASSUME IInv, [Next]_vars, ~ranAhead, tail' # tail
               PROVE  tail' # head
    OBVIOUS
  <2>1. PICK t \in Threads : PublishByte(t)
    BY DEF Next, Enqueuing, Dequeuing, Call, Lock, Accept, Reject, StoreByte, Unlock,
           TestQueue, TakeByte, OverflowTmpCmd, ConsumeByte, Send, vars
  <2>2. /\ head \in Slots /\ tail \in Slots /\ SizeUsed \in Slots
        /\ Len(frame[t]) \in Nat /\ done[t] \in Nat
    BY SizeUsedType, FrameLength DEF IInv, TypeInv, TypeOK
  <2>3. done[t] < Len(frame[t]) /\ SizeUsed + Len(frame[t]) - done[t] < QueueSize
    BY <2>1 DEF PublishByte, IInv, TypeInv, FrameOK, RoomInv
  <2>4. SizeUsed + 1 < QueueSize
    BY <2>2, <2>3, QueueAssumption DEF Slots
  <2> QED
    BY <2>1, <2>2, <2>4, PublishUses DEF PublishByte
<1> QED
  BY <1>1, InductiveInvariant, PTL DEF Spec, TailNeverLaps

\* Once a full queue has been refused with the mutex held (lines 381-385 of
\* Qik2s9v1.c), the mutex is never free again and nothing is ever queued.
THEOREM LeakIsForever == Spec => LeakFreezesQueue
<1>1. IInv /\ [Next]_vars => (Leaked => Leaked' /\ UNCHANGED <<queue, tail>>)
  <2> SUFFICES ASSUME IInv, [Next]_vars, Leaked
               PROVE  Leaked' /\ UNCHANGED <<queue, tail>>
    OBVIOUS
  <2>1. /\ mutex \in Threads /\ pc[mutex] \notin Inside /\ mutex # Nobody
        /\ Main \in Threads /\ Nobody \notin Threads
        /\ pc \in [Threads -> MainLabels]
    BY QueueAssumption DEF Leaked, IInv, TypeInv, TypeOK
  \* Whoever were inside the call would own the mutex.
  <2>2. \A t \in Threads : pc[t] \notin Inside
    BY <2>1 DEF IInv, MutexInv
  <2>3. mutex' = mutex /\ pc'[mutex] \notin Inside /\ UNCHANGED <<queue, tail>>
    <3> USE DEF Goto, Return, Inside
    <3>1. ASSUME NEW t \in Threads, Enqueuing(t)
          PROVE  mutex' = mutex /\ pc'[mutex] \notin Inside /\ UNCHANGED <<queue, tail>>
      BY <2>1, <2>2, <3>1
         DEF Enqueuing, Call, Lock, Accept, Reject, StoreByte, PublishByte, Unlock
    <3>2. CASE Dequeuing
      BY <2>1, <3>2
         DEF Dequeuing, TestQueue, TakeByte, OverflowTmpCmd, ConsumeByte, Send
    <3>3. CASE UNCHANGED vars
      BY <2>1, <3>3 DEF vars
    <3> QED
      BY <3>1, <3>2, <3>3 DEF Next
  <2> QED
    BY <2>1, <2>3 DEF Leaked
<1> QED
  BY <1>1, InductiveInvariant, PTL DEF Spec, LeakFreezesQueue

-----------------------------------------------------------------------------
(***************************************************************************)
(* The ring as a queue of whole commands.                                  *)
(***************************************************************************)

\* How many bytes of the oldest frame are out of the ring.
Consumed == IF pc[Main] = "consume" THEN Len(got) - 1
            ELSE IF pc[Main] \in {"take", "send"} THEN Len(got) ELSE 0

Storing(t) == pc[t] \in {"store", "publish"}

\* The slot p places behind head.
At(p) == IF head + p < QueueSize THEN head + p ELSE head + p - QueueSize

\* off[k] bytes come before the k-th of the frames accepted.
Offsets(off) ==
  /\ off \in [1 .. Len(backlog) + 1 -> Nat] /\ off[1] = 0
  /\ \A k \in 1 .. Len(backlog) : off[k + 1] = off[k] + Len(backlog[k])
  /\ \A k \in 1 .. Len(backlog) + 1 : \A m \in 1 .. Len(backlog) + 1 : k <= m => off[k] <= off[m]

\* The ring holds all of their bytes that are not consumed, save those that the
\* thread inside the call has still to lay down.
Filled(off) ==
  /\ \A t \in Threads : Storing(t) =>
       /\ Len(backlog) > 0 /\ backlog[Len(backlog)] = frame[t]
       /\ SizeUsed + (Len(frame[t]) - done[t]) = off[Len(backlog) + 1] - Consumed
  /\ (\A t \in Threads : ~Storing(t)) => SizeUsed = off[Len(backlog) + 1] - Consumed

\* In their order.
Content(off) ==
  \A k \in 1 .. Len(backlog) : \A j \in 1 .. Len(backlog[k]) : \A p \in 0 .. SizeUsed - 1 :
    off[k] + j - 1 = p + Consumed => queue[At(p)] = backlog[k][j]

RingInv ==
  \E off \in [1 .. Len(backlog) + 1 -> Nat] : Offsets(off) /\ Filled(off) /\ Content(off)

\* The byte stored last waits at tail.
StoredInv == \A t \in Threads : pc[t] = "publish" => queue[tail] = frame[t][done[t] + 1]

\* Main is at the oldest frame.
FrontInv ==
  pc[Main] \in {"take", "consume", "send"} =>
    /\ backlog # << >> /\ Len(got) <= Len(backlog[1])
    /\ \A j \in 1 .. Len(got) : got[j] = backlog[1][j]
    /\ pc[Main] = "take" => Len(got) < Len(backlog[1]) /\ (Len(got) = 0 => head # tail)
    /\ pc[Main] = "consume" => Len(got) >= 1
    /\ pc[Main] = "send" => Len(got) = Len(backlog[1])

FifoInv == ~ranAhead => RingInv /\ StoredInv /\ FrontInv

\* The slots behind head, up to the one at tail.
LEMMA AtTail ==
  ASSUME head \in Slots, tail \in Slots
  PROVE  /\ At(SizeUsed) = tail /\ SizeUsed \in Nat /\ SizeUsed < QueueSize
         /\ \A p \in 0 .. SizeUsed - 1 : At(p) \in Slots /\ At(p) # tail
         /\ SizeUsed = 0 <=> head = tail
         /\ At(0) = head
BY QueueAssumption DEF At, SizeUsed, Slots

\* As head moves on the slots are one nearer.
LEMMA AtNext ==
  ASSUME head \in Slots, head' = Succ(head), NEW p \in Nat, p + 1 < QueueSize
  PROVE  At(p)' = At(p + 1)
<1>1. QueueSize \in Nat \ {0} /\ head \in 0 .. QueueSize - 1
  BY QueueAssumption DEF Slots
<1>2. head' = IF head + 1 = QueueSize THEN 0 ELSE head + 1
  BY SuccWraps
<1>3. At(p)' = IF head' + p < QueueSize THEN head' + p ELSE head' + p - QueueSize
  BY DEF At
<1> QED
  BY <1>1, <1>2, <1>3 DEF At

\* A frame announces its length in its first byte, and fits tmpCmd[].
LEMMA FrameFacts ==
  ASSUME NEW f \in Frames
  PROVE  /\ f \in Seq(Byte) /\ Len(f) \in Nat /\ Len(f) > 2 /\ f[1] \in Byte
         /\ Len(f) = 2 + f[1] /\ Len(f) <= 2 + TmpCmdSize
<1>1. PICK c \in Calls : f = Frame(c)
  BY DEF Frames
<1>2. f \in Seq(Byte) /\ Len(f) = Len(c.buf) + 2 /\ Len(f) > 2
  BY <1>1, FrameType
<1>3. Len(c.buf) \in 1 .. TmpCmdSize /\ c.buf \in Seq(Byte)
  BY QueueAssumption
<1>4. f[1] = Len(c.buf)
  <2> DEFINE n == Len(c.buf)
             header == <<n, c.expectResponse>>
  <2>1. f = header \o c.buf
    BY <1>1 DEF Frame
  <2>2. header \in Seq(Byte) /\ Len(header) = 2 /\ header[1] = n
    <3>1. n \in Byte
      BY <1>3, LengthType
    <3>2. c.expectResponse \in Byte
      BY QueueAssumption DEF Byte
    <3> HIDE DEF n, Byte
    <3> QED
      BY <3>1, <3>2, HeaderType
  <2> HIDE DEF header, Byte, n
  <2>3. (header \o c.buf)[1] = header[1]
    BY <1>3, <2>2, ConcatProperties
  <2> QED
    BY <2>1, <2>2, <2>3 DEF n
<1>5. TmpCmdSize \in Nat
  BY QueueAssumption DEF Byte
<1>6. Len(c.buf) \in Nat /\ Len(c.buf) <= TmpCmdSize /\ Len(c.buf) \in Byte
  BY <1>3, <1>5, LengthType
<1> QED
  BY <1>2, <1>4, <1>5, <1>6

\* The types that these steps use.
LEMMA FifoTypes ==
  ASSUME IInv
  PROVE  /\ head \in Slots /\ tail \in Slots /\ queue \in [Slots -> Byte]
         /\ pc \in [Threads -> MainLabels] /\ Main \in Threads
         /\ backlog \in Seq(Frames) /\ Len(backlog) \in Nat
         /\ got \in Seq(Byte) /\ Len(got) \in Nat /\ Consumed \in Int
         /\ \A k \in 1 .. Len(backlog) : backlog[k] \in Frames /\ Len(backlog[k]) \in Nat /\ Len(backlog[k]) > 2
         /\ \A t \in Threads : Len(frame[t]) \in Nat /\ done[t] \in Nat
                            /\ (Storing(t) => done[t] < Len(frame[t]))
         /\ SizeUsed \in Nat /\ SizeUsed < QueueSize /\ QueueSize \in Nat
<1>1. /\ head \in Slots /\ tail \in Slots /\ queue \in [Slots -> Byte]
      /\ pc \in [Threads -> MainLabels] /\ Main \in Threads
      /\ backlog \in Seq(Frames) /\ got \in Seq(Byte)
  BY QueueAssumption DEF IInv, TypeInv, TypeOK
<1>2. Len(backlog) \in Nat /\ Len(got) \in Nat
  BY <1>1
<1>3. \A k \in 1 .. Len(backlog) : backlog[k] \in Frames /\ Len(backlog[k]) \in Nat /\ Len(backlog[k]) > 2
  BY <1>1, FrameFacts, ElementOfSeq
<1>4. \A t \in Threads : Len(frame[t]) \in Nat /\ done[t] \in Nat
                            /\ (Storing(t) => done[t] < Len(frame[t]))
  BY FrameLength DEF IInv, TypeInv, FrameOK, Storing
<1>5. Consumed \in Int
  BY <1>2 DEF Consumed
<1> QED
  BY <1>1, <1>2, <1>3, <1>4, <1>5, AtTail, QueueAssumption

\* Only one thread stores.
LEMMA OneStores ==
  ASSUME IInv, NEW t \in Threads, pc[t] \in Inside, NEW u \in Threads \ {t}
  PROVE  pc[u] \notin Inside /\ ~Storing(u)
BY MutualExclusion DEF IInv, Storing, Inside
\* Steps that touch neither the ring nor what is stored or consumed.
LEMMA RingStays ==
  ASSUME RingInv, UNCHANGED <<queue, head, tail, backlog>>, Consumed' = Consumed,
         \A t \in Threads : /\ Storing(t)' <=> Storing(t)
                            /\ Storing(t) => frame'[t] = frame[t] /\ done'[t] = done[t]
  PROVE  RingInv'
<1>1. PICK off \in [1 .. Len(backlog) + 1 -> Nat] : Offsets(off) /\ Filled(off) /\ Content(off)
  BY DEF RingInv
<1>2. SizeUsed' = SizeUsed /\ \A p : At(p)' = At(p)
  BY DEF SizeUsed, At
<1>3. Offsets(off)'
  BY <1>1 DEF Offsets
<1>4. Filled(off)'
  BY <1>1, <1>2 DEF Filled
<1>5. Content(off)'
  BY <1>1, <1>2 DEF Content
<1> QED
  BY <1>1, <1>3, <1>4, <1>5 DEF RingInv

\* A frame is accepted behind the others: none of its bytes is in the ring yet.
LEMMA AcceptRing ==
  ASSUME IInv, RingInv, ~ranAhead, NEW t \in Threads, Accept(t)
  PROVE  RingInv'
<1>0. /\ UNCHANGED <<queue, head, tail, frame, done, got>> /\ backlog' = Append(backlog, frame[t])
      /\ pc' = [pc EXCEPT ![t] = "store"] /\ pc[t] = "check"
  BY DEF Accept, Goto
<1>1. /\ backlog \in Seq(Frames) /\ Len(backlog) \in Nat /\ frame[t] \in Frames /\ done[t] = 0
      /\ Len(frame[t]) \in Nat /\ pc \in [Threads -> MainLabels] /\ Consumed \in Int
      /\ SizeUsed \in Nat /\ Main \in Threads
  BY <1>0, FifoTypes DEF IInv, TypeInv, FrameOK
<1> DEFINE n == Len(backlog)
<1>2. /\ Len(backlog') = n + 1 /\ backlog'[n + 1] = frame[t]
      /\ \A k \in 1 .. n : backlog'[k] = backlog[k]
  BY <1>0, <1>1, AppendProperties
<1>3. PICK off \in [1 .. n + 1 -> Nat] : Offsets(off) /\ Filled(off) /\ Content(off)
  BY DEF RingInv
<1>4. \A u \in Threads : ~Storing(u)
  BY <1>0, OneStores DEF Storing, Inside
<1>5. SizeUsed = off[n + 1] - Consumed
  BY <1>3, <1>4 DEF Filled
<1>6. Consumed' = Consumed /\ SizeUsed' = SizeUsed /\ \A p : At(p)' = At(p)
  BY <1>0, <1>1 DEF Consumed, SizeUsed, At
<1>7. PICK off2 \in [1 .. n + 2 -> Nat] :
        off2[n + 2] = off[n + 1] + Len(frame[t]) /\ \A k \in 1 .. n + 1 : off2[k] = off[k]
  <2> DEFINE o == [k \in 1 .. n + 2 |-> IF k <= n + 1 THEN off[k] ELSE off[n + 1] + Len(frame[t])]
  <2>1. off[n + 1] \in Nat
    BY <1>1, <1>3
  <2>2. off[n + 1] + Len(frame[t]) \in Nat
    BY <1>1, <2>1
  <2>3. ~(n + 2 <= n + 1) /\ n + 2 \in 1 .. n + 2 /\ \A k \in 1 .. n + 1 : k <= n + 1 /\ k \in 1 .. n + 2
    BY <1>1
  <2>4. \A k \in 1 .. n + 2 : k <= n + 1 => off[k] \in Nat
    BY <1>1, <1>3
  <2>5. /\ o \in [1 .. n + 2 -> Nat] /\ o[n + 2] = off[n + 1] + Len(frame[t])
        /\ \A k \in 1 .. n + 1 : o[k] = off[k]
    BY <2>2, <2>3, <2>4
  <2> QED
    BY <2>5
<1>8. (n + 1) + 1 = n + 2 /\ n + 1 \in 1 .. n + 2 /\ n + 2 \in 1 .. n + 2 /\ n + 1 \in 1 .. n + 1
  BY <1>1
<1>9. Offsets(off2)'
  <2>1. off2[1] = 0
    BY <1>1, <1>3, <1>7 DEF Offsets
  <2>2. ASSUME NEW k \in 1 .. n + 1
        PROVE  off2[k + 1] = off2[k] + Len(backlog'[k])
    <3>1. CASE k = n + 1
      BY <1>2, <1>7, <1>8, <3>1
    <3>2. CASE k # n + 1
      <4>1. k \in 1 .. n /\ k + 1 \in 1 .. n + 1
        BY <1>1, <3>2
      <4> QED
        BY <1>2, <1>3, <1>7, <4>1 DEF Offsets
    <3> QED
      BY <3>1, <3>2
  <2>3. ASSUME NEW k \in 1 .. n + 2, NEW m \in 1 .. n + 2, k <= m
        PROVE  off2[k] <= off2[m]
    <3>1. \A j \in 1 .. n + 1 : off[j] <= off[n + 1] /\ off[j] \in Nat
      <4>1. \A j \in 1 .. n + 1 : j <= n + 1
        BY <1>1
      <4> QED
        BY <1>3, <1>8, <4>1 DEF Offsets
    <3>2. CASE m = n + 2 /\ k # n + 2
      <4>1. k \in 1 .. n + 1
        BY <1>1, <3>2
      <4>2. off[k] <= off[n + 1] /\ off[k] \in Nat /\ off[n + 1] \in Nat
        BY <1>8, <3>1, <4>1
      <4> QED
        BY <1>1, <1>7, <3>2, <4>1, <4>2
    <3>3. CASE m # n + 2
      <4>1. k \in 1 .. n + 1 /\ m \in 1 .. n + 1
        BY <1>1, <2>3, <3>3
      <4> QED
        BY <1>3, <1>7, <2>3, <4>1 DEF Offsets
    <3>4. CASE k = n + 2 /\ m = n + 2
      <4>1. off2[m] \in Nat
        BY <1>7
      <4> QED
        BY <3>4, <4>1
    <3> QED
      BY <3>2, <3>3, <3>4
  <2> QED
    BY <1>2, <1>7, <1>8, <2>1, <2>2, <2>3 DEF Offsets
<1>10. Filled(off2)'
  <2>1. Storing(t)' /\ \A u \in Threads \ {t} : ~Storing(u)'
    BY <1>0, <1>1, <1>4 DEF Storing
  <2>3. Len(backlog') > 0
    BY <1>1, <1>2
  <2> QED
    <3>1. backlog'[Len(backlog')] = frame'[t]
      BY <1>0, <1>2
    <3>2. done'[t] = 0 /\ frame'[t] = frame[t]
      BY <1>0, <1>1
    <3>3. off2[Len(backlog') + 1] = off[n + 1] + Len(frame[t])
      <4>1. Len(backlog') + 1 = n + 2
        BY <1>1, <1>2
      <4>2. off2[n + 2] = off[n + 1] + Len(frame[t])
        BY <1>7
      <4> QED
        BY ONLY <4>1, <4>2
    <3>4. SizeUsed' + (Len(frame'[t]) - done'[t]) = off2[Len(backlog') + 1] - Consumed'
      <4>1. SizeUsed' = SizeUsed /\ Consumed' = Consumed
        BY <1>6
      <4> DEFINE u == SizeUsed'
                 c == Consumed'
                 d == done'[t]
                 m == Len(frame'[t])
                 o == off2[Len(backlog') + 1]
                 b == off[n + 1]
      <4>2. d = 0 /\ m = Len(frame[t]) /\ o = b + Len(frame[t]) /\ u = SizeUsed /\ c = Consumed
        BY <3>2, <3>3, <4>1
      <4>3. o = b + m
        BY ONLY <4>2
      <4>4. SizeUsed = b - Consumed
        BY <1>5
      <4>5. u = b - c
        BY ONLY <4>2, <4>4
      <4>6. b \in Int /\ m \in Int /\ c \in Int /\ u \in Int
        <5>1. n + 1 \in 1 .. n + 1 /\ Len(frame[t]) \in Int /\ SizeUsed \in Int /\ Consumed \in Int
          BY <1>1
        <5> QED
          BY <5>1, <4>2, <1>3
      <4>7. u + (m - d) = o - c
        <5>1. d = 0
          BY <4>2
        <5> HIDE DEF u, c, d, m, o, b
        <5> QED
          BY ONLY <5>1, <4>3, <4>5, <4>6
      <4> QED
        BY ONLY <4>7
    <3> QED
      BY <2>1, <2>3, <3>1, <3>4 DEF Filled
<1>11. Content(off2)'
  <2> SUFFICES ASSUME NEW k \in 1 .. n + 1, NEW j \in 1 .. Len(backlog'[k]),
                      NEW p \in 0 .. SizeUsed - 1, off2[k] + j - 1 = p + Consumed
               PROVE  queue[At(p)] = backlog'[k][j]
    <3>1. Len(backlog') = n + 1 /\ queue' = queue /\ Consumed' = Consumed /\ SizeUsed' = SizeUsed
      BY <1>0, <1>2, <1>6
    <3> QED
      BY <1>6, <3>1 DEF Content
  <2>1. k # n + 1
    <3> SUFFICES ASSUME k = n + 1 PROVE FALSE
      OBVIOUS
    <3>1. off2[k] = off[n + 1] /\ off[n + 1] \in Nat /\ j \in Int /\ j >= 1
      BY <1>2, <1>1, <1>3, <1>7, <1>8
    <3>2. p < SizeUsed
      BY <1>1
    <3> QED
      BY <1>1, <1>5, <3>1, <3>2
  <2>2. k \in 1 .. n /\ k \in 1 .. n + 1
    BY <1>1, <2>1
  <2>3. backlog'[k] = backlog[k] /\ off2[k] = off[k]
    BY <1>2, <1>7, <2>2
  <2>4. j \in 1 .. Len(backlog[k]) /\ off[k] + j - 1 = p + Consumed
    BY <2>3
  <2> QED
    BY <1>3, <2>2, <2>3, <2>4 DEF Content
<1> QED
  BY <1>2, <1>7, <1>8, <1>9, <1>10, <1>11 DEF RingInv

\* A byte stored at tail is in none of the slots in use.
LEMMA StoreRing ==
  ASSUME IInv, RingInv, NEW t \in Threads, StoreByte(t)
  PROVE  RingInv'
<1>0. /\ UNCHANGED <<head, tail, backlog, frame, done, got>>
      /\ queue' = [queue EXCEPT ![tail] = frame[t][done[t] + 1]]
      /\ pc' = [pc EXCEPT ![t] = "publish"] /\ pc[t] = "store"
  BY DEF StoreByte, Goto
<1>1. PICK off \in [1 .. Len(backlog) + 1 -> Nat] : Offsets(off) /\ Filled(off) /\ Content(off)
  BY DEF RingInv
<1>2. Consumed' = Consumed /\ SizeUsed' = SizeUsed /\ \A p : At(p)' = At(p)
  BY <1>0, FifoTypes DEF Consumed, SizeUsed, At
<1>3. \A u \in Threads : Storing(u)' <=> Storing(u)
  BY <1>0, FifoTypes DEF Storing
<1>4. Offsets(off)'
  BY <1>0, <1>1 DEF Offsets
<1>5. Filled(off)'
  BY <1>0, <1>1, <1>2, <1>3 DEF Filled
<1>6. \A p \in 0 .. SizeUsed - 1 : queue'[At(p)] = queue[At(p)]
  BY <1>0, AtTail, FifoTypes
<1>7. Content(off)'
  <2> SUFFICES ASSUME NEW k \in 1 .. Len(backlog), NEW j \in 1 .. Len(backlog[k]),
                      NEW p \in 0 .. SizeUsed - 1, off[k] + j - 1 = p + Consumed
               PROVE  queue'[At(p)] = backlog[k][j]
    <3>1. backlog' = backlog
      BY <1>0
    <3> QED
      BY <1>2, <3>1 DEF Content
  <2>1. queue[At(p)] = backlog[k][j]
    BY <1>1 DEF Content
  <2> QED
    BY <1>6, <2>1
<1> QED
  BY <1>0, <1>1, <1>4, <1>5, <1>7 DEF RingInv
\* A byte published is the next of the last frame accepted: the thread inside the
\* call is the only one that stores, and stores the frame accepted last.
LEMMA PublishRing ==
  ASSUME IInv, RingInv, StoredInv, ~ranAhead, NEW t \in Threads, PublishByte(t)
  PROVE  RingInv'
<1>0. /\ UNCHANGED <<queue, head, backlog, frame, got>> /\ pc[t] = "publish"
      /\ tail' = Succ(tail) /\ done' = [done EXCEPT ![t] = @ + 1]
      /\ pc' = [pc EXCEPT ![t] = IF done[t] + 1 = Len(frame[t]) THEN "unlock" ELSE "store"]
  BY DEF PublishByte, Goto
<1> DEFINE n == Len(backlog)
           l == Len(frame[t])
<1>1. /\ backlog \in Seq(Frames) /\ n \in Nat /\ l \in Nat /\ done[t] \in Nat /\ done[t] < l
      /\ pc \in [Threads -> MainLabels] /\ Consumed \in Int /\ SizeUsed \in Nat
      /\ Main \in Threads /\ done \in [Threads -> Nat]
      /\ \A k \in 1 .. n : Len(backlog[k]) \in Nat
      /\ head \in Slots /\ tail \in Slots /\ QueueSize \in Nat
  BY <1>0, FifoTypes DEF IInv, TypeInv, TypeOK, Storing
<1>2. \A u \in Threads \ {t} : ~Storing(u)
  BY <1>0, OneStores DEF Inside
<1>3. PICK off \in [1 .. n + 1 -> Nat] : Offsets(off) /\ Filled(off) /\ Content(off)
  BY DEF RingInv
<1>4. n > 0 /\ backlog[n] = frame[t] /\ SizeUsed + (l - done[t]) = off[n + 1] - Consumed
  BY <1>0, <1>3 DEF Filled, Storing
<1>5. SizeUsed' = SizeUsed + 1
  <2>1. SizeUsed + l - done[t] < QueueSize
    BY <1>0 DEF IInv, RoomInv
  <2>2. SizeUsed + 1 < QueueSize
    BY <1>1, <2>1
  <2> QED
    BY <1>0, <1>1, <2>2, PublishUses
<1>6. Consumed' = Consumed /\ \A p : At(p)' = At(p)
  BY <1>0, <1>1 DEF Consumed, At
<1>7. Offsets(off)'
  BY <1>0, <1>3 DEF Offsets
<1>8. done'[t] = done[t] + 1 /\ SizeUsed' + (l - done'[t]) = off[n + 1] - Consumed
  <2>1. done'[t] = done[t] + 1
    BY <1>0, <1>1
  <2>2. \A x, y, z \in Int : (x + 1) + (y - (z + 1)) = x + (y - z)
    OBVIOUS
  <2>3. SizeUsed \in Int /\ l \in Int /\ done[t] \in Int
    BY <1>1
  <2> HIDE DEF l, n
  <2>4. (SizeUsed + 1) + (l - (done[t] + 1)) = SizeUsed + (l - done[t])
    BY ONLY <2>2, <2>3
  <2>5. SizeUsed + (l - done[t]) = off[n + 1] - Consumed
    BY <1>4
  <2> QED
    BY ONLY <1>5, <2>1, <2>4, <2>5, Zenon
<1>9. Filled(off)'
  <2>1. \A u \in Threads \ {t} : ~Storing(u)'
    BY <1>0, <1>1, <1>2 DEF Storing
  <2>2. CASE done[t] + 1 = l
    <3>1. ~Storing(t)'
      BY <1>0, <1>1, <2>2 DEF Storing
    <3>2. SizeUsed' = off[n + 1] - Consumed
      <4>1. \A x, y \in Int : x + (y - y) = x
        OBVIOUS
      <4>2. SizeUsed' \in Int /\ l \in Int
        BY <1>1, <1>5
      <4>3. done'[t] = l
        BY <1>8, <2>2
      <4> HIDE DEF l, n
      <4>4. SizeUsed' + (l - l) = SizeUsed'
        BY ONLY <4>1, <4>2
      <4>5. SizeUsed' + (l - l) = off[n + 1] - Consumed
        BY ONLY <1>8, <4>3, Zenon
      <4> QED
        BY ONLY <4>4, <4>5, Zenon
    <3> QED
      BY <1>0, <1>6, <2>1, <3>1, <3>2 DEF Filled
  <2>3. CASE done[t] + 1 # l
    <3>1. Storing(t)'
      BY <1>0, <1>1, <2>3 DEF Storing
    <3> QED
      BY <1>0, <1>4, <1>6, <1>8, <2>1, <3>1 DEF Filled
  <2> QED
    BY <2>2, <2>3
<1>10. Content(off)'
  <2> SUFFICES ASSUME NEW k \in 1 .. n, NEW j \in 1 .. Len(backlog[k]),
                      NEW p \in 0 .. SizeUsed, off[k] + j - 1 = p + Consumed
               PROVE  queue[At(p)] = backlog[k][j]
    <3>1. backlog' = backlog /\ queue' = queue
      BY <1>0
    <3>2. SizeUsed' - 1 = SizeUsed
      BY <1>1, <1>5
    <3> QED
      BY <1>6, <3>1, <3>2 DEF Content
  <2>1. CASE p # SizeUsed
    <3>1. p \in 0 .. SizeUsed - 1
      BY <1>1, <2>1
    <3> QED
      BY <1>3, <3>1 DEF Content
  <2>2. CASE p = SizeUsed
    <3>1. /\ off[k] \in Nat /\ off[n] \in Nat /\ off[n + 1] \in Nat /\ off[k + 1] \in Nat
          /\ off[n + 1] = off[n] + Len(backlog[n]) /\ off[k + 1] = off[k] + Len(backlog[k])
      <4>1. n \in 1 .. n /\ n \in 1 .. n + 1 /\ n + 1 \in 1 .. n + 1 /\ k \in 1 .. n + 1 /\ k + 1 \in 1 .. n + 1
        BY <1>1, <1>4
      <4> QED
        BY <1>3, <4>1 DEF Offsets
    <3>2. off[n + 1] = off[n] + l
      BY <1>4, <3>1
    <3>3. off[k] + j - 1 = off[n] + done[t]
      <4>2. /\ off[n] \in Int /\ SizeUsed \in Int /\ done[t] \in Int /\ l \in Int
            /\ Consumed \in Int /\ off[k] \in Int /\ j \in Int
        <5>1. off[n] \in Int /\ off[k] \in Int
          BY ONLY <3>1
        <5> QED
          BY <1>1, <5>1
      <4>3. SizeUsed + (l - done[t]) = off[n + 1] - Consumed
        BY <1>4
      <4>4. off[k] + j - 1 = SizeUsed + Consumed
        BY <2>2
      <4> HIDE DEF l, n
      <4>5. SizeUsed + (l - done[t]) = (off[n] + l) - Consumed
        BY ONLY <3>2, <4>3, Zenon
      <4> DEFINE o == off[n]
                 d == done[t]
      <4>6. /\ SizeUsed + (l - d) = (o + l) - Consumed
            /\ o \in Int /\ SizeUsed \in Int /\ d \in Int /\ l \in Int /\ Consumed \in Int
        BY ONLY <4>2, <4>5
      <4>7. SizeUsed + Consumed = o + d
        <5> HIDE DEF o, d
        <5> QED
          BY ONLY <4>6
      <4> QED
        BY ONLY <4>4, <4>7
    <3>4. k = n
      <4> SUFFICES ASSUME k # n PROVE FALSE
        OBVIOUS
      <4>1. k + 1 <= n /\ k + 1 \in 1 .. n + 1 /\ n \in 1 .. n + 1
        BY <1>1
      <4>2. off[k + 1] <= off[n]
        BY <1>3, <4>1 DEF Offsets
      <4>3. /\ j \in 1 .. Len(backlog[k]) /\ Len(backlog[k]) \in Nat
            /\ off[k] \in Nat /\ off[n] \in Nat /\ done[t] \in Nat
            /\ off[k + 1] = off[k] + Len(backlog[k])
        BY <1>1, <3>1
      <4>4. \A a, b, d, m \in Nat : \A i \in 1 .. m : a + i - 1 = b + d => ~(a + m <= b)
        OBVIOUS
      <4> HIDE DEF l, n
      <4>5. off[k] + Len(backlog[k]) <= off[n]
        BY ONLY <4>2, <4>3, Zenon
      <4> QED
        BY ONLY <3>3, <4>3, <4>4, <4>5
    <3>5. j = done[t] + 1
      <4>1. off[n] + j - 1 = off[n] + done[t] /\ j \in Int /\ off[n] \in Int /\ done[t] \in Int
        BY <1>1, <3>1, <3>3, <3>4
      <4>2. \A o, i, d \in Int : o + i - 1 = o + d => i = d + 1
        OBVIOUS
      <4> HIDE DEF l, n
      <4> QED
        BY ONLY <4>1, <4>2
    <3>6. queue[tail] = frame[t][done[t] + 1]
      BY <1>0 DEF StoredInv
    <3>7. At(p) = tail
      BY <1>1, <2>2, AtTail
    <3> QED
      BY <1>4, <3>4, <3>5, <3>6, <3>7
  <2> QED
    BY <2>1, <2>2
<1> QED
  BY <1>0, <1>3, <1>7, <1>9, <1>10 DEF RingInv

\* As Main consumes a byte all others are one nearer.
LEMMA ConsumeRing ==
  ASSUME IInv, RingInv, FrontInv, ~ranAhead, ConsumeByte
  PROVE  RingInv'
<1>0. /\ UNCHANGED <<queue, tail, backlog, frame, done, got>> /\ pc[Main] = "consume"
      /\ head' = Succ(head)
      /\ pc' = [pc EXCEPT ![Main] = IF Len(got) >= 2 /\ Len(got) = 2 + got[1] THEN "send" ELSE "take"]
  BY DEF ConsumeByte, Goto
<1>1. /\ head \in Slots /\ tail \in Slots /\ pc \in [Threads -> MainLabels] /\ Main \in Threads
      /\ Consumed \in Int /\ SizeUsed \in Nat /\ SizeUsed < QueueSize /\ QueueSize \in Nat /\ Len(got) \in Nat
      /\ Len(backlog) \in Nat
      /\ \A t \in Threads : Len(frame[t]) \in Nat /\ done[t] \in Nat
  BY FifoTypes
<1>2. SizeUsed' = SizeUsed - 1
  BY <1>0, <1>1, ConsumeFrees DEF IInv, ConsumeInv
<1>3. Consumed' = Consumed + 1
  <2>1. pc'[Main] \in {"send", "take"}
    BY <1>0, <1>1
  <2>2. Consumed' = Len(got) /\ Consumed = Len(got) - 1
    BY <1>0, <2>1 DEF Consumed
  <2> QED
    BY <1>1, <2>2
<1>4. PICK off \in [1 .. Len(backlog) + 1 -> Nat] : Offsets(off) /\ Filled(off) /\ Content(off)
  BY DEF RingInv
<1>5. Offsets(off)'
  BY <1>0, <1>4 DEF Offsets
<1>6. \A t \in Threads : Storing(t)' <=> Storing(t)
  BY <1>0, <1>1 DEF Storing
<1>7. off[Len(backlog) + 1] \in Nat
  BY <1>1, <1>4
<1>8. Filled(off)'
  <2>1. \A x, y, z \in Int : /\ x + y = z - Consumed => (x - 1) + y = z - (Consumed + 1)
                            /\ x = z - Consumed => x - 1 = z - (Consumed + 1)
    BY <1>1
  <2>2. ASSUME NEW t \in Threads, Storing(t)
        PROVE  (SizeUsed - 1) + (Len(frame[t]) - done[t]) = off[Len(backlog) + 1] - (Consumed + 1)
    <3>1. SizeUsed + (Len(frame[t]) - done[t]) = off[Len(backlog) + 1] - Consumed
      BY <1>4, <2>2 DEF Filled
    <3>2. Len(frame[t]) - done[t] \in Int /\ SizeUsed \in Int /\ off[Len(backlog) + 1] \in Int
      BY <1>1, <1>7
    <3> DEFINE y == Len(frame[t]) - done[t]
               z == off[Len(backlog) + 1]
    <3>3. SizeUsed + y = z - Consumed /\ y \in Int /\ z \in Int /\ SizeUsed \in Int
      BY ONLY <3>1, <3>2
    <3> HIDE DEF y, z
    <3>4. (SizeUsed - 1) + y = z - (Consumed + 1)
      BY ONLY <1>1, <3>3
    <3> QED
      BY ONLY <3>4 DEF y, z
  <2>3. (\A t \in Threads : ~Storing(t)) => SizeUsed - 1 = off[Len(backlog) + 1] - (Consumed + 1)
    BY <1>1, <1>4, <1>7, <2>1 DEF Filled
  <2> QED
    BY <1>0, <1>2, <1>3, <1>4, <1>6, <2>2, <2>3 DEF Filled
<1>9. Content(off)'
  <2>1. ASSUME NEW k \in 1 .. Len(backlog), NEW j \in 1 .. Len(backlog[k]),
               NEW p \in 0 .. (SizeUsed - 1) - 1, off[k] + j - 1 = p + (Consumed + 1)
        PROVE  queue[At(p)'] = backlog[k][j]
    <3>1. p + 1 \in 0 .. SizeUsed - 1 /\ p \in Nat /\ p + 1 < QueueSize
          /\ p + (Consumed + 1) = (p + 1) + Consumed
      BY <1>1
    <3>2. At(p)' = At(p + 1)
      BY <1>0, <1>1, <3>1, AtNext
    <3>3. queue[At(p + 1)] = backlog[k][j]
      BY <1>4, <2>1, <3>1 DEF Content
    <3> QED
      BY <3>2, <3>3
  <2>2. backlog' = backlog /\ queue' = queue
    BY <1>0
  <2> QED
    BY ONLY <1>2, <1>3, <2>1, <2>2 DEF Content
<1> QED
  BY <1>0, <1>4, <1>5, <1>8, <1>9 DEF RingInv

\* What is left of a sequence without its first element.
LEMMA WithoutFirst ==
  ASSUME NEW S, NEW s \in Seq(S), s # << >>
  PROVE  LET rest == SubSeq(s, 2, Len(s))
         IN  /\ rest \in Seq(S) /\ Len(rest) = Len(s) - 1
             /\ \A k \in 1 .. Len(s) - 1 : rest[k] = s[k + 1]
<1>1. SubSeq(s, 2, Len(s)) = Tail(s)
  BY TailIsSubSeq
<1> QED
  BY <1>1, HeadTailProperties

\* The offsets of the frames behind the first, counted from the second.
LEMMA OffsetsShift ==
  ASSUME NEW n \in Nat, n > 0, NEW off \in [1 .. n + 1 -> Nat],
         \A k \in 1 .. n + 1 : \A m \in 1 .. n + 1 : k <= m => off[k] <= off[m]
  PROVE  \E o \in [1 .. n -> Nat] : \A k \in 1 .. n : off[k + 1] = o[k] + off[2]
<1> DEFINE o == [k \in 1 .. n |-> off[k + 1] - off[2]]
<1>1. ASSUME NEW k \in 1 .. n
      PROVE  off[k + 1] - off[2] \in Nat /\ off[k + 1] = (off[k + 1] - off[2]) + off[2]
  <2>1. k + 1 \in 1 .. n + 1 /\ 2 \in 1 .. n + 1 /\ 2 <= k + 1
    OBVIOUS
  <2>2. off[2] <= off[k + 1] /\ off[2] \in Nat /\ off[k + 1] \in Nat
    BY <2>1
  <2> QED
    BY <2>2
<1>2. o \in [1 .. n -> Nat] /\ \A k \in 1 .. n : o[k] = off[k + 1] - off[2]
  BY <1>1
<1> QED
  BY <1>1, <1>2

\* The oldest frame is consumed to its end when it is handed to sendCommand():
\* what is left begins with the next one.
LEMMA SendRing ==
  ASSUME IInv, RingInv, FrontInv, ~ranAhead, Send
  PROVE  RingInv'
<1>0. /\ UNCHANGED <<queue, head, tail, frame, done, got>> /\ pc[Main] = "send"
      /\ pc' = [pc EXCEPT ![Main] = "test"] /\ backlog' = SubSeq(backlog, 2, Len(backlog))
  BY DEF Send, Goto
<1> DEFINE n == Len(backlog)
<1>1. /\ pc \in [Threads -> MainLabels] /\ Main \in Threads /\ SizeUsed \in Nat
      /\ n \in Nat /\ backlog \in Seq(Frames) /\ Len(got) \in Nat
      /\ \A t \in Threads : Len(frame[t]) \in Nat /\ done[t] \in Nat
                         /\ (Storing(t) => done[t] < Len(frame[t]))
  BY FifoTypes
<1>2. backlog # << >> /\ n > 0 /\ Len(got) = Len(backlog[1])
  <2>1. backlog # << >> /\ Len(got) = Len(backlog[1])
    BY <1>0 DEF FrontInv
  <2> QED
    BY <1>1, <2>1
<1>3. /\ Len(backlog') = n - 1 /\ \A k \in 1 .. n - 1 : backlog'[k] = backlog[k + 1]
  BY <1>0, <1>1, <1>2, WithoutFirst
<1>4. PICK off \in [1 .. n + 1 -> Nat] : Offsets(off) /\ Filled(off) /\ Content(off)
  BY DEF RingInv
<1>5. off[1] = 0 /\ off[2] = Len(backlog[1]) /\ off[2] \in Nat
  <2>1. 1 \in 1 .. n /\ 2 \in 1 .. n + 1 /\ 1 + 1 = 2
    BY <1>1, <1>2
  <2>2. off[1] = 0 /\ off[1 + 1] = off[1] + Len(backlog[1]) /\ off[2] \in Nat
    BY <1>4, <2>1 DEF Offsets
  <2>3. Len(backlog[1]) \in Nat
    BY <1>1, <1>2
  <2> QED
    BY <2>1, <2>2, <2>3
<1>6. Consumed = off[2] /\ Consumed' = 0
  <2>1. Consumed = Len(got)
    BY <1>0 DEF Consumed
  <2>2. pc'[Main] = "test"
    BY <1>0, <1>1
  <2>3. Consumed' = 0
    BY <2>2 DEF Consumed
  <2> QED
    BY <1>2, <1>5, <2>1, <2>3
<1>7. SizeUsed' = SizeUsed /\ \A p : At(p)' = At(p)
  BY <1>0 DEF SizeUsed, At
<1>8. \A t \in Threads : Storing(t)' <=> Storing(t)
  BY <1>0, <1>1 DEF Storing
<1>9. PICK o \in [1 .. n -> Nat] : \A k \in 1 .. n : off[k + 1] = o[k] + off[2]
  <2>1. \A k \in 1 .. n + 1 : \A m \in 1 .. n + 1 : k <= m => off[k] <= off[m]
    BY <1>4 DEF Offsets
  <2> HIDE DEF n
  <2> QED
    BY <1>1, <1>2, <2>1, OffsetsShift
<1>10. n \in 1 .. n /\ 1 \in 1 .. n /\ (n - 1) + 1 = n
  BY <1>1, <1>2
<1>11. Offsets(o)'
  <2>1. o[1] = 0
    <3>1. off[1 + 1] = o[1] + off[2] /\ 1 + 1 = 2 /\ o[1] \in Nat
      BY <1>9, <1>10
    <3> QED
      BY <1>5, <3>1
  <2>2. ASSUME NEW k \in 1 .. n - 1
        PROVE  o[k + 1] = o[k] + Len(backlog'[k])
    <3>1. k + 1 \in 1 .. n /\ k \in 1 .. n /\ k + 1 \in 1 .. n + 1
      BY <1>1
    <3>2. off[(k + 1) + 1] = off[k + 1] + Len(backlog[k + 1])
      BY <1>4, <3>1 DEF Offsets
    <3>3. backlog'[k] = backlog[k + 1]
      BY <1>3
    <3>4. off[k + 1] = o[k] + off[2] /\ off[(k + 1) + 1] = o[k + 1] + off[2]
      BY <1>9, <3>1
    <3>5. Len(backlog[k + 1]) \in Nat
      BY <3>1, FifoTypes
    <3>6. o[k] \in Nat /\ o[k + 1] \in Nat
      BY <1>9, <3>1
    <3> DEFINE x == o[k]
               y == o[k + 1]
               l == Len(backlog[k + 1])
               z == off[2]
    <3>7. y + z = (x + z) + l
      BY ONLY <3>2, <3>4
    <3>8. x \in Nat /\ y \in Nat /\ z \in Nat /\ l \in Nat
      BY ONLY <1>5, <3>5, <3>6
    <3>9. y = x + l
      <4> HIDE DEF x, y, z, l
      <4> QED
        BY ONLY <3>7, <3>8
    <3> QED
      BY ONLY <3>3, <3>9
  <2>3. ASSUME NEW k \in 1 .. n, NEW m \in 1 .. n, k <= m
        PROVE  o[k] <= o[m]
    <3>1. k + 1 \in 1 .. n + 1 /\ m + 1 \in 1 .. n + 1 /\ k + 1 <= m + 1
      BY <1>1, <2>3
    <3>2. off[k + 1] <= off[m + 1]
      BY <1>4, <3>1 DEF Offsets
    <3>3. off[k + 1] = o[k] + off[2] /\ off[m + 1] = o[m] + off[2]
          /\ o[k] \in Nat /\ o[m] \in Nat
      BY <1>9
    <3> QED
      BY <1>5, <3>2, <3>3
  <2> HIDE DEF n
  <2> QED
    BY <1>3, <1>9, <1>10, <2>1, <2>2, <2>3 DEF Offsets
<1>12. off[n + 1] - Consumed = o[n] - 0 /\ o[n] \in Nat
  <2>1. off[n + 1] = o[n] + off[2] /\ o[n] \in Nat
    BY <1>9, <1>10
  <2> QED
    BY <1>5, <1>6, <2>1
<1>13. Filled(o)'
  <2>1. ASSUME NEW t \in Threads, Storing(t)
        PROVE  /\ Len(backlog') > 0 /\ backlog'[Len(backlog')] = frame[t]
               /\ SizeUsed + (Len(frame[t]) - done[t]) = o[n] - 0
    <3>1. /\ backlog[n] = frame[t]
          /\ SizeUsed + (Len(frame[t]) - done[t]) = off[n + 1] - Consumed
      BY <1>4, <2>1 DEF Filled
    <3>2. SizeUsed + (Len(frame[t]) - done[t]) = o[n] - 0
      BY ONLY <1>12, <3>1
    <3>3. Len(frame[t]) \in Nat /\ done[t] \in Nat /\ done[t] < Len(frame[t])
      BY <1>1, <2>1
    <3>4. o[n] # 0
      BY ONLY <1>1, <1>12, <3>2, <3>3
    <3>5. n # 1
      <4>1. o[1] = 0
        BY <1>11 DEF Offsets
      <4> QED
        BY <3>4, <4>1
    <3>6. n - 1 \in 1 .. n - 1
      <4>1. n \in Nat /\ n > 0
        BY <1>1, <1>2
      <4> HIDE DEF n
      <4> QED
        BY ONLY <3>5, <4>1
    <3>7. backlog'[n - 1] = backlog[(n - 1) + 1]
      BY <1>3, <3>6
    <3> QED
      BY <1>1, <1>3, <1>10, <3>1, <3>2, <3>6, <3>7
  <2>2. (\A t \in Threads : ~Storing(t)) => SizeUsed = o[n] - 0
    BY <1>4, <1>12 DEF Filled
  <2>3. Len(backlog') + 1 = n
    BY <1>3, <1>10
  <2> QED
    BY <1>0, <1>6, <1>7, <1>8, <2>1, <2>2, <2>3 DEF Filled
<1>14. Content(o)'
  <2> SUFFICES ASSUME NEW k \in 1 .. n - 1, NEW j \in 1 .. Len(backlog'[k]),
                      NEW p \in 0 .. SizeUsed - 1, o[k] + j - 1 = p + 0
               PROVE  queue[At(p)] = backlog'[k][j]
    <3>1. queue' = queue
      BY <1>0
    <3> QED
      BY <1>3, <1>6, <1>7, <3>1 DEF Content
  <2>1. backlog'[k] = backlog[k + 1]
    BY <1>3
  <2>2. k + 1 \in 1 .. n /\ k \in 1 .. n /\ j \in 1 .. Len(backlog[k + 1])
    BY <1>1, <2>1
  <2>3. off[k + 1] + j - 1 = p + Consumed
    <3>1. off[k + 1] = o[k] + off[2] /\ o[k] \in Nat
      BY <1>9, <2>2
    <3>2. j \in Int /\ p \in Int
      OBVIOUS
    <3> QED
      BY <1>5, <1>6, <3>1, <3>2
  <2>4. queue[At(p)] = backlog[k + 1][j]
    <3>1. Content(off) /\ k + 1 \in 1 .. Len(backlog)
      BY <1>4, <2>2
    <3> QED
      BY ONLY <2>2, <2>3, <3>1 DEF Content
  <2> QED
    BY ONLY <2>1, <2>4
<1> QED
  <2>1. Len(backlog') + 1 = n
    BY <1>3, <1>10
  <2>2. o \in [1 .. Len(backlog') + 1 -> Nat]
    BY <1>9, <2>1
  <2> QED
    BY <1>11, <1>13, <1>14, <2>2 DEF RingInv

\* Publishing a byte uses one more slot, and not the one at head.
LEMMA PublishAdds ==
  ASSUME IInv, ~ranAhead, NEW t \in Threads, PublishByte(t)
  PROVE  SizeUsed' = SizeUsed + 1 /\ tail' # head
<1>1. /\ head \in Slots /\ tail \in Slots /\ SizeUsed \in Nat /\ QueueSize \in Nat
      /\ Len(frame[t]) \in Nat /\ done[t] \in Nat
  BY FifoTypes
<1>2. done[t] < Len(frame[t]) /\ SizeUsed + Len(frame[t]) - done[t] < QueueSize
  BY DEF PublishByte, IInv, TypeInv, FrameOK, RoomInv
<1>3. SizeUsed + 1 < QueueSize
  BY <1>1, <1>2
<1> QED
  BY <1>1, <1>3, PublishUses DEF PublishByte

\* Only the thread inside the call stores, so what it stored last stays at tail
\* until it moves tail.
LEMMA StoredStep ==
  ASSUME IInv, StoredInv, [Next]_vars
  PROVE  StoredInv'
<1>0. /\ pc \in [Threads -> MainLabels] /\ Main \in Threads
      /\ queue \in [Slots -> Byte] /\ tail \in Slots
  BY FifoTypes
<1>1. ASSUME UNCHANGED <<queue, tail>>,
             \A u \in Threads : pc'[u] = "publish" =>
                pc[u] = "publish" /\ frame'[u] = frame[u] /\ done'[u] = done[u]
      PROVE  StoredInv'
  BY <1>1 DEF StoredInv
<1> USE DEF Goto, Return
<1>2. ASSUME NEW t \in Threads, NEW c \in Calls, Call(t, c)
      PROVE  StoredInv'
  BY <1>0, <1>1, <1>2 DEF Call
<1>3. ASSUME NEW t \in Threads, Lock(t)
      PROVE  StoredInv'
  BY <1>0, <1>1, <1>3 DEF Lock
<1>4. ASSUME NEW t \in Threads, Accept(t)
      PROVE  StoredInv'
  BY <1>0, <1>1, <1>4 DEF Accept
<1>5. ASSUME NEW t \in Threads, Reject(t)
      PROVE  StoredInv'
  BY <1>0, <1>1, <1>5 DEF Reject
<1>6. ASSUME NEW t \in Threads, StoreByte(t)
      PROVE  StoredInv'
  <2>1. \A u \in Threads \ {t} : pc[u] # "publish" /\ pc'[u] # "publish"
    BY <1>0, <1>6, OneStores DEF StoreByte, Inside
  <2>2. queue'[tail] = frame[t][done[t] + 1]
    BY <1>0, <1>6 DEF StoreByte
  <2> QED
    BY <1>6, <2>1, <2>2 DEF StoreByte, StoredInv
<1>7. ASSUME NEW t \in Threads, PublishByte(t)
      PROVE  StoredInv'
  <2>1. \A u \in Threads \ {t} : pc[u] # "publish" /\ pc'[u] # "publish"
    BY <1>0, <1>7, OneStores DEF PublishByte, Inside
  <2>2. pc'[t] # "publish"
    BY <1>0, <1>7 DEF PublishByte
  <2> QED
    BY <2>1, <2>2 DEF StoredInv
<1>8. ASSUME NEW t \in Threads, Unlock(t)
      PROVE  StoredInv'
  BY <1>0, <1>1, <1>8 DEF Unlock
<1>9. CASE Dequeuing
  BY <1>0, <1>1, <1>9 DEF Dequeuing, TestQueue, TakeByte, OverflowTmpCmd, ConsumeByte, Send
<1>10. CASE UNCHANGED vars
  BY <1>1, <1>10 DEF vars
<1> QED
  BY <1>2, <1>3, <1>4, <1>5, <1>6, <1>7, <1>8, <1>9, <1>10 DEF Next, Enqueuing

\* Bytes in use are bytes of an accepted frame.
LEMMA UsedIsAccepted ==
  ASSUME IInv, RingInv, Consumed = 0, head # tail
  PROVE  backlog # << >> /\ Len(backlog) > 0
<1>1. /\ head \in Slots /\ tail \in Slots /\ SizeUsed \in Nat /\ Len(backlog) \in Nat
      /\ backlog \in Seq(Frames)
  BY FifoTypes
<1>2. SizeUsed # 0
  BY <1>1, AtTail
<1>3. PICK off \in [1 .. Len(backlog) + 1 -> Nat] : Offsets(off) /\ Filled(off)
  BY DEF RingInv
<1>4. Len(backlog) > 0
  <2> SUFFICES ASSUME Len(backlog) = 0
               PROVE  FALSE
    BY <1>1
  <2>1. off[1] = 0 /\ Len(backlog) + 1 = 1
    BY <1>3 DEF Offsets
  <2>2. ASSUME NEW t \in Threads, Storing(t)
        PROVE  FALSE
    <3>1. Len(backlog) > 0
      BY <1>3, <2>2 DEF Filled
    <3> QED
      BY <3>1
  <2>3. SizeUsed = off[Len(backlog) + 1] - Consumed
    BY <1>3, <2>2 DEF Filled
  <2> QED
    BY <1>2, <2>1, <2>3
<1> QED
  BY <1>1, <1>4

\* The byte at head is the next one of the oldest frame.
LEMMA HeadIsNext ==
  ASSUME IInv, RingInv, FrontInv, pc[Main] = "take", head # tail
  PROVE  queue[head] = backlog[1][Len(got) + 1]
<1>1. /\ head \in Slots /\ tail \in Slots /\ SizeUsed \in Nat /\ Len(backlog) \in Nat
      /\ Len(got) \in Nat /\ backlog \in Seq(Frames)
  BY FifoTypes
<1>2. SizeUsed # 0 /\ At(0) = head
  BY <1>1, AtTail
<1>3. PICK off \in [1 .. Len(backlog) + 1 -> Nat] : Offsets(off) /\ Content(off)
  BY DEF RingInv
<1>4. backlog # << >> /\ Len(got) < Len(backlog[1])
  BY DEF FrontInv
<1>5. 1 \in 1 .. Len(backlog)
  BY <1>1, <1>4
<1>6. Len(backlog[1]) \in Nat
  BY <1>5, FifoTypes
<1>7. Len(got) + 1 \in 1 .. Len(backlog[1]) /\ 0 \in 0 .. SizeUsed - 1
  BY <1>1, <1>2, <1>4, <1>6
<1>8. off[1] = 0 /\ Consumed = Len(got)
  BY <1>3 DEF Offsets, Consumed
<1>9. off[1] + (Len(got) + 1) - 1 = 0 + Consumed
  BY <1>1, <1>8
<1> QED
  BY <1>2, <1>3, <1>5, <1>7, <1>9 DEF Content

\* Main keeps to the oldest frame, and leaves it at its last byte.
LEMMA FrontStep ==
  ASSUME IInv, RingInv, FrontInv, ~ranAhead, ~ranAhead', [Next]_vars
  PROVE  FrontInv'
<1>0. /\ pc \in [Threads -> MainLabels] /\ Main \in Threads
      /\ backlog \in Seq(Frames) /\ Len(backlog) \in Nat
      /\ got \in Seq(Byte) /\ Len(got) \in Nat
  BY FifoTypes
<1>1. ASSUME UNCHANGED <<head, tail, got, backlog>>,
             pc'[Main] \in {"take", "consume", "send"} => pc'[Main] = pc[Main]
      PROVE  FrontInv'
  BY <1>1 DEF FrontInv
<1>a. ASSUME backlog # << >>
      PROVE  /\ 1 \in 1 .. Len(backlog) /\ backlog[1] \in Frames
             /\ Len(backlog[1]) \in Nat /\ Len(backlog[1]) > 2
             /\ backlog[1][1] \in Byte /\ Len(backlog[1]) = 2 + backlog[1][1]
  <2>1. 1 \in 1 .. Len(backlog)
    BY <1>0, <1>a
  <2> QED
    BY <2>1, FifoTypes, FrameFacts
<1> USE DEF Goto, Return
<1>2. ASSUME NEW t \in Threads, NEW c \in Calls, Call(t, c)
      PROVE  FrontInv'
  BY <1>0, <1>1, <1>2 DEF Call
<1>3. ASSUME NEW t \in Threads, Lock(t)
      PROVE  FrontInv'
  BY <1>0, <1>1, <1>3 DEF Lock
<1>4. ASSUME NEW t \in Threads, Accept(t)
      PROVE  FrontInv'
  <2> SUFFICES ASSUME pc'[Main] \in {"take", "consume", "send"}
               PROVE  FrontInv'
    BY DEF FrontInv
  <2>1. pc'[Main] = pc[Main] /\ UNCHANGED <<head, tail, got>>
        /\ backlog' = Append(backlog, frame[t]) /\ pc[t] = "check"
    BY <1>0, <1>4 DEF Accept
  <2>2. backlog # << >>
    BY <2>1 DEF FrontInv
  <2>3. frame[t] \in Frames
    BY <2>1 DEF IInv, TypeInv, FrameOK
  <2>4. backlog' # << >> /\ backlog'[1] = backlog[1]
    BY <1>0, <1>a, <2>1, <2>2, <2>3, AppendProperties
  <2> QED
    BY <2>1, <2>2, <2>4 DEF FrontInv
<1>5. ASSUME NEW t \in Threads, Reject(t)
      PROVE  FrontInv'
  BY <1>0, <1>1, <1>5 DEF Reject
<1>6. ASSUME NEW t \in Threads, StoreByte(t)
      PROVE  FrontInv'
  BY <1>0, <1>1, <1>6 DEF StoreByte
<1>7. ASSUME NEW t \in Threads, PublishByte(t)
      PROVE  FrontInv'
  <2>1. tail' # head
    BY <1>7, PublishAdds
  <2> QED
    BY <1>0, <1>7, <2>1 DEF PublishByte, FrontInv
<1>8. ASSUME NEW t \in Threads, Unlock(t)
      PROVE  FrontInv'
  BY <1>0, <1>1, <1>8 DEF Unlock
<1>9. CASE TestQueue
  <2> SUFFICES ASSUME pc'[Main] \in {"take", "consume", "send"}
               PROVE  FrontInv'
    BY DEF FrontInv
  <2>1. /\ pc'[Main] = "take" /\ head # tail /\ got' = << >>
        /\ UNCHANGED <<head, tail, backlog>> /\ pc[Main] \in {"idle", "test"}
    BY <1>0, <1>9 DEF TestQueue
  <2>2. Consumed = 0
    BY <2>1 DEF Consumed
  <2>3. backlog # << >>
    BY <2>1, <2>2, UsedIsAccepted
  <2>4. Len(backlog[1]) \in Nat /\ Len(backlog[1]) > 2 /\ Len(got') = 0
    BY <1>a, <2>1, <2>3
  <2> QED
    BY <2>1, <2>3, <2>4 DEF FrontInv
<1>10. CASE TakeByte
  <2>1. /\ pc[Main] = "take" /\ pc'[Main] = "consume" /\ head # tail
        /\ got' = Append(got, queue[head]) /\ UNCHANGED <<head, tail, backlog>>
    BY <1>0, <1>10 DEF TakeByte
  <2>2. queue[head] = backlog[1][Len(got) + 1] /\ queue[head] \in Byte
    BY <2>1, HeadIsNext, FifoTypes
  <2>3. /\ backlog # << >> /\ Len(got) < Len(backlog[1])
        /\ \A j \in 1 .. Len(got) : got[j] = backlog[1][j]
    BY <2>1 DEF FrontInv
  <2>4. Len(backlog[1]) \in Nat
    BY <1>a, <2>3
  <2>5. /\ Len(got') = Len(got) + 1 /\ got'[Len(got) + 1] = queue[head]
        /\ \A j \in 1 .. Len(got) : got'[j] = got[j]
    BY <1>0, <2>1, <2>2, AppendProperties
  <2>6. \A j \in 1 .. Len(got') : got'[j] = backlog[1][j]
    <3> SUFFICES ASSUME NEW j \in 1 .. Len(got'), j # Len(got) + 1
                 PROVE  got'[j] = backlog[1][j]
      BY <2>2, <2>5
    <3>1. j \in 1 .. Len(got)
      BY <1>0, <2>5
    <3> QED
      BY <2>3, <2>5, <3>1
  <2>7. Len(got') <= Len(backlog[1]) /\ Len(got') >= 1
    BY <1>0, <2>3, <2>4, <2>5
  <2> QED
    BY <2>1, <2>3, <2>6, <2>7 DEF FrontInv
<1>11. CASE OverflowTmpCmd
  BY <1>0, <1>1, <1>11 DEF OverflowTmpCmd
<1>12. CASE ConsumeByte
  <2>1. /\ pc[Main] = "consume" /\ UNCHANGED <<tail, got, backlog>>
        /\ pc'[Main] = IF Len(got) >= 2 /\ Len(got) = 2 + got[1] THEN "send" ELSE "take"
    BY <1>0, <1>12 DEF ConsumeByte
  <2>2. /\ backlog # << >> /\ Len(got) <= Len(backlog[1]) /\ Len(got) >= 1
        /\ \A j \in 1 .. Len(got) : got[j] = backlog[1][j]
    BY <2>1 DEF FrontInv
  <2>3. got[1] = backlog[1][1]
    BY <1>0, <2>2
  <2>4. Len(backlog[1]) \in Nat /\ Len(backlog[1]) > 2 /\ Len(backlog[1]) = 2 + got[1]
    BY <1>a, <2>2, <2>3
  <2>5. CASE Len(got) = Len(backlog[1])
    <3>1. pc'[Main] = "send"
      BY <1>0, <2>1, <2>4, <2>5
    <3> QED
      BY <2>1, <2>2, <2>5, <3>1 DEF FrontInv
  <2>6. CASE Len(got) # Len(backlog[1])
    <3>1. pc'[Main] = "take"
      BY <2>1, <2>4, <2>6
    <3>2. Len(got) < Len(backlog[1]) /\ Len(got) # 0
      BY <1>0, <2>2, <2>4, <2>6
    <3> QED
      BY <2>1, <2>2, <3>1, <3>2 DEF FrontInv
  <2> QED
    BY <2>5, <2>6
<1>13. CASE Send
  BY <1>0, <1>13 DEF Send, FrontInv
<1>14. CASE UNCHANGED vars
  BY <1>1, <1>14 DEF vars
<1> QED
  BY <1>2, <1>3, <1>4, <1>5, <1>6, <1>7, <1>8, <1>9, <1>10, <1>11, <1>12, <1>13, <1>14
     DEF Next, Enqueuing, Dequeuing

\* The ring goes on holding the frames accepted, whatever the step.
LEMMA RingStep ==
  ASSUME IInv, RingInv, StoredInv, FrontInv, ~ranAhead, ~ranAhead', [Next]_vars
  PROVE  RingInv'
<1>0. /\ pc \in [Threads -> MainLabels] /\ Main \in Threads
      /\ got \in Seq(Byte) /\ Len(got) \in Nat
      /\ backlog \in Seq(Frames) /\ Len(backlog) \in Nat
  BY FifoTypes
<1> USE DEF Goto, Return, Storing
<1>1. ASSUME NEW t \in Threads, NEW c \in Calls, Call(t, c)
      PROVE  RingInv'
  <2>1. Consumed' = Consumed
    BY <1>0, <1>1 DEF Call, Consumed
  <2> QED
    BY <1>0, <1>1, <2>1, RingStays DEF Call
<1>2. ASSUME NEW t \in Threads, Lock(t)
      PROVE  RingInv'
  <2>1. Consumed' = Consumed
    BY <1>0, <1>2 DEF Lock, Consumed
  <2> QED
    BY <1>0, <1>2, <2>1, RingStays DEF Lock
<1>3. ASSUME NEW t \in Threads, Reject(t)
      PROVE  RingInv'
  <2>1. Consumed' = Consumed
    BY <1>0, <1>3 DEF Reject, Consumed
  <2> QED
    BY <1>0, <1>3, <2>1, RingStays DEF Reject
<1>4. ASSUME NEW t \in Threads, Unlock(t)
      PROVE  RingInv'
  <2>1. Consumed' = Consumed
    BY <1>0, <1>4 DEF Unlock, Consumed
  <2> QED
    BY <1>0, <1>4, <2>1, RingStays DEF Unlock
<1>5. CASE TestQueue
  <2>1. Consumed = 0 /\ Consumed' = 0
    BY <1>0, <1>5 DEF TestQueue, Consumed
  <2> QED
    BY <1>0, <1>5, <2>1, RingStays DEF TestQueue
<1>6. CASE TakeByte
  <2>1. Consumed = Len(got)
    BY <1>6 DEF TakeByte, Consumed
  <2>2. Len(got') = Len(got) + 1
    <3>1. queue[head] \in Byte
      BY FifoTypes
    <3> QED
      BY <1>0, <1>6, <3>1, AppendProperties DEF TakeByte
  <2>3. Consumed' = Len(got') - 1
    BY <1>0, <1>6 DEF TakeByte, Consumed
  <2>4. Consumed' = Consumed
    BY <1>0, <2>1, <2>2, <2>3
  <2> QED
    BY <1>0, <1>6, <2>4, RingStays DEF TakeByte
<1>7. CASE OverflowTmpCmd
  \* A frame fits tmpCmd[], so this is not reached.
  <2>1. backlog # << >> /\ Len(got) < Len(backlog[1]) /\ Len(got) = 2 + TmpCmdSize
    BY <1>7 DEF OverflowTmpCmd, FrontInv
  <2>2. 1 \in 1 .. Len(backlog)
    BY <1>0, <2>1
  <2>3. Len(backlog[1]) \in Nat /\ Len(backlog[1]) <= 2 + TmpCmdSize
    BY <2>2, FifoTypes, FrameFacts
  <2> QED
    BY <1>0, <2>1, <2>3
<1>8. CASE UNCHANGED vars
  <2>1. Consumed' = Consumed
    BY <1>8 DEF vars, Consumed
  <2> QED
    BY <1>8, <2>1, RingStays DEF vars
<1> QED
  BY <1>1, <1>2, <1>3, <1>4, <1>5, <1>6, <1>7, <1>8, AcceptRing, StoreRing, PublishRing,
     ConsumeRing, SendRing
     DEF Next, Enqueuing, Dequeuing

\* The ring holds, byte for byte, what was accepted and not sent, until Main
\* gets ahead of tail.
LEMMA FifoInvariant == Spec => []FifoInv
<1>1. Init => FifoInv
  <2> SUFFICES ASSUME Init PROVE RingInv /\ StoredInv /\ FrontInv
    BY DEF FifoInv
  <2>0. Main \in Threads
    BY QueueAssumption
  <2>1. \A t \in Threads : pc[t] = "idle"
    BY DEF Init
  <2>2. StoredInv /\ FrontInv
    BY <2>0, <2>1 DEF StoredInv, FrontInv
  <2>3. PICK off \in [1 .. 1 -> Nat] : off[1] = 0
    <3>1. [k \in 1 .. 1 |-> 0] \in [1 .. 1 -> Nat] /\ [k \in 1 .. 1 |-> 0][1] = 0
      OBVIOUS
    <3> QED
      BY <3>1
  <2>4. Len(backlog) = 0 /\ Len(backlog) + 1 = 1 /\ backlog = << >>
    BY DEF Init
  <2>5. SizeUsed = 0 /\ Consumed = 0
    BY <2>0, <2>1, QueueAssumption DEF Init, SizeUsed, Consumed
  <2>6. Offsets(off)
    BY <2>3, <2>4 DEF Offsets
  <2>7. Filled(off)
    BY <2>1, <2>3, <2>4, <2>5 DEF Filled, Storing
  <2>8. Content(off)
    BY <2>4 DEF Content
  <2> QED
    BY <2>2, <2>3, <2>4, <2>6, <2>7, <2>8 DEF RingInv
<1>2. IInv /\ FifoInv /\ [Next]_vars => FifoInv'
  <2> SUFFICES ASSUME IInv, FifoInv, [Next]_vars, ~ranAhead'
               PROVE  RingInv' /\ StoredInv' /\ FrontInv'
    BY DEF FifoInv
  <2>1. ~ranAhead
    <3>1. ranAhead => ranAhead'
      BY DEF Next, Enqueuing, Dequeuing, Call, Lock, Accept, Reject, StoreByte, PublishByte,
             Unlock, TestQueue, TakeByte, OverflowTmpCmd, ConsumeByte, Send, vars
    <3> QED
      BY <3>1
  <2>2. RingInv /\ StoredInv /\ FrontInv
    BY <2>1 DEF FifoInv
  <2> QED
    BY <2>1, <2>2, RingStep, StoredStep, FrontStep
<1>3. QED
  BY <1>1, <1>2, InductiveInvariant, PTL DEF Spec

\* However many threads call QueueQikCommand(), and wherever the scheduler
\* switches between them and the unlocked DequeueQikCommand() (lines 365-439 of
\* Qik2s9v1.c), commands go out whole and in the order in which they were
\* accepted, for as long as Main has not read a slot that tail had yet to pass.
THEOREM ImplementsFifo == Spec => ImplementsCommandFifo
<1>1. Init => Fifo!Init
  BY DEF Init, Fifo!Init
<1>2. IInv /\ FifoInv /\ [Next]_vars => [Fifo!Next]_(Fifo!fifoVars)
  <2> SUFFICES ASSUME IInv, FifoInv, [Next]_vars,
                      ~(UNCHANGED <<backlog, sent>>)
               PROVE  Fifo!Next
    BY DEF Fifo!fifoVars
  <2>0. backlog \in Seq(Frames) /\ got \in Seq(Byte)
    BY FifoTypes
  <2>1. ASSUME NEW t \in Threads, Accept(t)
        PROVE  \E f \in Frames : Fifo!Enqueue(f)
    <3>1. backlog' = Append(backlog, frame[t]) /\ sent' = sent
      BY <2>1 DEF Accept
    <3>2. frame[t] \in Frames
      BY <2>1 DEF Accept, IInv, TypeInv, FrameOK
    <3> QED
      BY <3>1, <3>2 DEF Fifo!Enqueue
  <2>2. CASE Send
    <3>1. /\ ~ranAhead /\ pc[Main] = "send" /\ sent' = got
          /\ backlog' = SubSeq(backlog, 2, Len(backlog))
      BY <2>2 DEF Send
    <3>2. /\ backlog # << >> /\ Len(got) = Len(backlog[1])
          /\ \A j \in 1 .. Len(got) : got[j] = backlog[1][j]
      BY <3>1 DEF FifoInv, FrontInv
    <3>3. 1 \in 1 .. Len(backlog)
      BY <2>0, <3>2
    <3>4. backlog[1] \in Seq(Byte)
      BY <3>3, FifoTypes, FrameFacts
    <3>5. got = backlog[1]
      BY <2>0, <3>2, <3>4, SeqEqual
    <3>6. backlog' = Tail(backlog) /\ sent' = Head(backlog)
      BY <2>0, <3>1, <3>2, <3>5, TailIsSubSeq
    <3> QED
      BY <3>2, <3>6 DEF Fifo!Next, Fifo!Deliver
  <2>3. (\E t \in Threads : Accept(t)) \/ Send
    BY DEF Next, Enqueuing, Dequeuing, Call, Lock, Reject, StoreByte, PublishByte, Unlock,
           TestQueue, TakeByte, OverflowTmpCmd, ConsumeByte, vars
  <2> QED
    BY <2>1, <2>2, <2>3 DEF Fifo!Next
<1> QED
  BY <1>1, <1>2, InductiveInvariant, FifoInvariant, PTL
     DEF Spec, ImplementsCommandFifo, Fifo!Spec

\* The first slot that Main reads too early is one of a frame that another
\* thread has begun to lay down and not finished (lines 393-400 against lines
\* 419-434 of Qik2s9v1.c): never the start of a command, and never a frame whose
\* caller is still to get the mutex or has given it back.
THEOREM RunsAheadMidFrame == Spec => RunsAheadOnlyMidFrame
<1>1. IInv /\ FifoInv /\ [Next]_vars =>
        (~ranAhead /\ ranAhead' =>
           \E t \in Threads \ {Main} : /\ pc[t] \in {"store", "publish"}
                                       /\ done[t] \in 1 .. Len(frame[t]) - 1)
  <2> SUFFICES ASSUME IInv, FifoInv, [Next]_vars, ~ranAhead, ranAhead'
               PROVE  \E t \in Threads \ {Main} : /\ pc[t] \in {"store", "publish"}
                                                  /\ done[t] \in 1 .. Len(frame[t]) - 1
    OBVIOUS
  <2>1. TakeByte
    BY DEF Next, Enqueuing, Dequeuing, Call, Lock, Accept, Reject, StoreByte, PublishByte,
           Unlock, TestQueue, OverflowTmpCmd, ConsumeByte, Send, vars
  <2>2. pc[Main] = "take" /\ head = tail
    BY <2>1 DEF TakeByte
  <2> DEFINE n == Len(backlog)
             g == Len(got)
  <2>3. /\ head \in Slots /\ tail \in Slots /\ n \in Nat /\ g \in Nat
        /\ backlog \in Seq(Frames)
        /\ \A k \in 1 .. n : Len(backlog[k]) \in Nat
        /\ \A t \in Threads : /\ Len(frame[t]) \in Nat /\ done[t] \in Nat
                              /\ Storing(t) => done[t] < Len(frame[t])
    BY FifoTypes
  <2>4. backlog # << >> /\ g < Len(backlog[1]) /\ g # 0
    BY <2>2 DEF FifoInv, FrontInv
  <2>5. n >= 1 /\ 1 \in 1 .. n
    BY <2>3, <2>4
  <2>6. SizeUsed = 0 /\ Consumed = g
    BY <2>2, <2>3, AtTail DEF Consumed
  <2>7. PICK off \in [1 .. n + 1 -> Nat] : Offsets(off) /\ Filled(off)
    BY DEF FifoInv, RingInv
  <2>8. /\ off[1] = 0 /\ off[2] = Len(backlog[1]) /\ off[n] \in Nat /\ off[n + 1] \in Nat
        /\ off[n + 1] = off[n] + Len(backlog[n]) /\ off[2] <= off[n + 1]
        /\ (n # 1 => off[2] <= off[n])
    <3>1. n \in 1 .. n /\ n \in 1 .. n + 1 /\ n + 1 \in 1 .. n + 1 /\ 2 \in 1 .. n + 1
          /\ 2 <= n + 1 /\ (n # 1 => 2 <= n)
      <4> HIDE DEF n
      <4> QED
        BY <2>3, <2>5
    <3>2. off[1] = 0 /\ off[1 + 1] = off[1] + Len(backlog[1])
          /\ off[n + 1] = off[n] + Len(backlog[n])
      BY <2>5, <2>7, <3>1 DEF Offsets
    <3>3. off[2] = Len(backlog[1])
      BY <2>3, <2>5, <3>2
    <3>4. off[2] <= off[n + 1] /\ (n # 1 => off[2] <= off[n])
      BY <2>7, <3>1 DEF Offsets
    <3>5. off[n] \in Nat /\ off[n + 1] \in Nat
      BY <2>7, <3>1
    <3> QED
      BY <3>2, <3>3, <3>4, <3>5
  <2>9. PICK t \in Threads : Storing(t)
    <3> SUFFICES ASSUME \A t \in Threads : ~Storing(t)
                 PROVE  FALSE
      OBVIOUS
    <3>1. 0 = off[n + 1] - g
      BY <2>6, <2>7 DEF Filled
    <3>2. Len(backlog[1]) \in Nat
      BY <2>3, <2>5
    <3> QED
      BY <2>3, <2>4, <2>8, <3>1, <3>2
  <2>10. backlog[n] = frame[t] /\ 0 + (Len(frame[t]) - done[t]) = off[n + 1] - g
    BY <2>6, <2>7, <2>9 DEF Filled
  <2>11. done[t] = g - off[n]
    <3> DEFINE l == Len(frame[t])
               d == done[t]
               x == off[n]
               y == off[n + 1]
    <3>1. y = x + l /\ 0 + (l - d) = y - g
      BY <2>8, <2>10
    <3>2. g \in Nat /\ l \in Nat /\ d \in Nat /\ x \in Nat /\ y \in Nat
      BY <2>3, <2>8
    <3> HIDE DEF l, d, x, y, g
    <3>3. d = g - x
      BY ONLY <3>1, <3>2
    <3> QED
      BY ONLY <3>3 DEF d, x
  <2>12. n = 1
    <3> SUFFICES ASSUME n # 1 PROVE FALSE
      OBVIOUS
    <3>1. Len(backlog[1]) <= off[n] /\ Len(backlog[1]) \in Nat /\ done[t] \in Nat
      BY <2>3, <2>5, <2>8
    <3> QED
      BY <2>3, <2>4, <2>8, <2>11, <3>1
  <2>13. done[t] = g /\ g >= 1 /\ done[t] < Len(frame[t])
    BY <2>3, <2>4, <2>8, <2>9, <2>11, <2>12
  <2>14. t # Main /\ pc[t] \in {"store", "publish"}
    BY <2>2, <2>9 DEF Storing
  <2>15. done[t] \in 1 .. Len(frame[t]) - 1
    BY <2>3, <2>13
  <2> QED
    BY <2>14, <2>15
<1> QED
  BY <1>1, InductiveInvariant, FifoInvariant, PTL DEF Spec, RunsAheadOnlyMidFrame
================================================================================

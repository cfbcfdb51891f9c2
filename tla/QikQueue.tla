------------------------------- MODULE QikQueue --------------------------------
(***************************************************************************)
(* The outbound command queue of MotorDriver/Qik2s9v1.c: a ring of bytes   *)
(* that any thread fills through QueueQikCommand(), under qikMutex, and    *)
(* that the main thread empties in DequeueQikCommand(), without the mutex. *)
(*                                                                         *)
(* One step is one access to memory the threads share.  The target is a    *)
(* single-core Raspberry Pi B+ and the makefile compiles without           *)
(* optimisation, so every such access reaches memory in program order and  *)
(* the threads interleave at those accesses.                               *)
(***************************************************************************)
EXTENDS Integers, Sequences

CONSTANTS Threads,     \* the threads of the program that use the queue
          Main,        \* the one that runs main(): it queues and dequeues
          Nobody,      \* the owner of a free mutex
          Calls,       \* the arguments QueueQikCommand() is called with
          QueueSize,   \* QIK_ACTION_QUEUE_SIZE
          TmpCmdSize   \* the size of tmpCmd[] in DequeueQikCommand()

Byte == 0 .. 255

ASSUME QueueAssumption ==
  /\ Main \in Threads /\ Nobody \notin Threads
  /\ QueueSize \in Nat \ {0}
  /\ TmpCmdSize \in Byte
  /\ \A c \in Calls : /\ c.buf \in Seq(Byte)
                      /\ Len(c.buf) \in 1 .. TmpCmdSize
                      /\ c.expectResponse \in {0, 1}

\* What one call lays down: length, expects-response flag, payload.
Frame(c) == <<Len(c.buf), c.expectResponse>> \o c.buf

Frames == {Frame(c) : c \in Calls}

VARIABLES
  queue,     \* qikCommandQueue[]
  head,      \* qikCommandQueueHead, written by Main only
  tail,      \* qikCommandQueueTail, written by the owner of the mutex only
  mutex,     \* the owner of qikMutex
  pc,        \* where each thread is
  frame,     \* per thread, the frame its call of QueueQikCommand() lays down
  done,      \* per thread, how many bytes of it are in the ring
  got,       \* the bytes Main has pulled out of the ring for this command
  backlog,   \* history: the frames accepted and not handed to sendCommand()
  sent,      \* history: the frame handed to sendCommand() last
  ranAhead   \* history: Main has read a slot before tail had moved past it

vars == <<queue, head, tail, mutex, pc, frame, done, got, backlog, sent, ranAhead>>

Slots == 0 .. QueueSize - 1

\* Mutant of Succ: the index does not wrap around.
SuccWithoutWrap(slot) == slot + 1

Succ(slot) == (slot + 1) % QueueSize

\* sizeUsed of QueueQikCommand(): the bytes between head and tail.
SizeUsed == IF tail - head < 0 THEN tail - head + QueueSize ELSE tail - head

Goto(t, label) == pc' = [pc EXCEPT ![t] = label]

Init ==
  /\ queue = [s \in Slots |-> 0]
  /\ head = 0
  /\ tail = 0
  /\ mutex = Nobody
  /\ pc = [t \in Threads |-> "idle"]
  /\ frame = [t \in Threads |-> << >>]
  /\ done = [t \in Threads |-> 0]
  /\ got = << >>
  /\ backlog = << >>
  /\ sent = << >>
  /\ ranAhead = FALSE

-----------------------------------------------------------------------------
(***************************************************************************)
(* QueueQikCommand(), called by any thread.                                *)
(***************************************************************************)

\* The call is over and its arguments are gone.
Return(t) ==
  /\ Goto(t, "idle")
  /\ frame' = [frame EXCEPT ![t] = << >>]
  /\ done' = [done EXCEPT ![t] = 0]

Call(t, c) ==
  /\ pc[t] = "idle"
  /\ Goto(t, "lock")
  /\ frame' = [frame EXCEPT ![t] = Frame(c)]
  /\ UNCHANGED <<queue, head, tail, mutex, done, got, backlog, sent, ranAhead>>

\* Mutant of Lock: the mutex is not waited for.
LockWithoutWaiting(t) ==
  /\ pc[t] = "lock"
  /\ mutex' = t
  /\ Goto(t, "check")
  /\ UNCHANGED <<queue, head, tail, frame, done, got, backlog, sent, ranAhead>>

\* Mutant of Lock: a recursive mutex lets its owner in again.
LockRecursively(t) == mutex \in {Nobody, t} /\ LockWithoutWaiting(t)

\* pthread_mutex_lock(): the mutex is of the default kind, so a thread that
\* already owns it waits like any other.
Lock(t) ==
  /\ pc[t] = "lock"
  /\ mutex = Nobody
  /\ mutex' = t
  /\ Goto(t, "check")
  /\ UNCHANGED <<queue, head, tail, frame, done, got, backlog, sent, ranAhead>>

\* Mutant of HasRoom: "<=" instead of "<" lets the ring fill to the last slot.
HasRoomForOneMore(t) == SizeUsed + Len(frame[t]) <= QueueSize

\* "sizeUsed + len + 2 < QIK_ACTION_QUEUE_SIZE": a frame is len + 2 bytes.
HasRoom(t) == SizeUsed + Len(frame[t]) < QueueSize

Accept(t) ==
  /\ pc[t] = "check"
  /\ HasRoom(t)
  /\ Goto(t, "store")
  /\ backlog' = IF ranAhead THEN backlog ELSE Append(backlog, frame[t])
  /\ UNCHANGED <<queue, head, tail, mutex, frame, done, got, sent, ranAhead>>

\* Not enough space: the call returns 0 and keeps the mutex.
Reject(t) ==
  /\ pc[t] = "check"
  /\ ~HasRoom(t)
  /\ Return(t)
  /\ UNCHANGED <<queue, head, tail, mutex, got, backlog, sent, ranAhead>>

StoreByte(t) ==
  /\ pc[t] = "store"
  /\ queue' = [queue EXCEPT ![tail] = frame[t][done[t] + 1]]
  /\ Goto(t, "publish")
  /\ UNCHANGED <<head, tail, mutex, frame, done, got, backlog, sent, ranAhead>>

PublishByte(t) ==
  /\ pc[t] = "publish"
  /\ tail' = Succ(tail)
  /\ done' = [done EXCEPT ![t] = @ + 1]
  /\ Goto(t, IF done[t] + 1 = Len(frame[t]) THEN "unlock" ELSE "store")
  /\ UNCHANGED <<queue, head, mutex, frame, got, backlog, sent, ranAhead>>

Unlock(t) ==
  /\ pc[t] = "unlock"
  /\ mutex' = Nobody
  /\ Return(t)
  /\ UNCHANGED <<queue, head, tail, got, backlog, sent, ranAhead>>

-----------------------------------------------------------------------------
(***************************************************************************)
(* DequeueQikCommand(), called by Main only.                               *)
(***************************************************************************)

\* Mutant of TestQueue: the loop runs its body before it tests.
TakeWithoutTest ==
  /\ pc[Main] \in {"idle", "test"}
  /\ Goto(Main, "take")
  /\ got' = << >>
  /\ UNCHANGED <<queue, head, tail, mutex, frame, done, backlog, sent, ranAhead>>

\* The test of the while loop, on entry and after every command.
TestQueue ==
  /\ pc[Main] \in {"idle", "test"}
  /\ Goto(Main, IF head # tail THEN "take" ELSE "idle")
  /\ got' = << >>
  /\ UNCHANGED <<queue, head, tail, mutex, frame, done, backlog, sent, ranAhead>>

TakeByte ==
  /\ pc[Main] = "take"
  /\ Len(got) < 2 + TmpCmdSize
  /\ got' = Append(got, queue[head])
  /\ ranAhead' = (ranAhead \/ head = tail)
  /\ Goto(Main, "consume")
  /\ UNCHANGED <<queue, head, tail, mutex, frame, done, backlog, sent>>

\* A payload byte past the end of tmpCmd[]: what follows is undefined, and
\* the model lets Main stop here.
OverflowTmpCmd ==
  /\ pc[Main] = "take"
  /\ Len(got) = 2 + TmpCmdSize
  /\ Goto(Main, "undefined")
  /\ UNCHANGED <<queue, head, tail, mutex, frame, done, got, backlog, sent, ranAhead>>

ConsumeByte ==
  /\ pc[Main] = "consume"
  /\ head' = Succ(head)
  /\ Goto(Main, IF Len(got) >= 2 /\ Len(got) = 2 + got[1] THEN "send" ELSE "take")
  /\ UNCHANGED <<queue, tail, mutex, frame, done, got, backlog, sent, ranAhead>>

\* sendCommand(tmpCmd, len, expectsResponse), whose own steps QikDriver.tla has.
Send ==
  /\ pc[Main] = "send"
  /\ Goto(Main, "test")
  /\ sent' = IF ranAhead THEN sent ELSE got
  /\ backlog' = IF ranAhead THEN backlog ELSE SubSeq(backlog, 2, Len(backlog))
  /\ UNCHANGED <<queue, head, tail, mutex, frame, done, got, ranAhead>>

-----------------------------------------------------------------------------

Enqueuing(t) ==
  \/ \E c \in Calls : Call(t, c)
  \/ Lock(t)
  \/ Accept(t)
  \/ Reject(t)
  \/ StoreByte(t)
  \/ PublishByte(t)
  \/ Unlock(t)

Dequeuing == TestQueue \/ TakeByte \/ OverflowTmpCmd \/ ConsumeByte \/ Send

Next == Dequeuing \/ \E t \in Threads : Enqueuing(t)

Spec == Init /\ [][Next]_vars

-----------------------------------------------------------------------------
(***************************************************************************)
(* Properties.                                                             *)
(***************************************************************************)

Labels == {"idle", "lock", "check", "store", "publish", "unlock"}

MainLabels == Labels \cup {"test", "take", "consume", "send", "undefined"}

\* The labels between a successful lock and the end of the call.
Inside == {"check", "store", "publish", "unlock"}

\* The types of the variables.
TypeOK ==
  /\ queue \in [Slots -> Byte]
  /\ head \in Slots
  /\ tail \in Slots
  /\ mutex \in Threads \cup {Nobody}
  /\ pc \in [Threads -> MainLabels]
  /\ \A t \in Threads \ {Main} : pc[t] \in Labels
  /\ frame \in [Threads -> Seq(Byte)]
  /\ done \in [Threads -> Nat]
  /\ got \in Seq(Byte)
  /\ backlog \in Seq(Frames)
  /\ sent \in Seq(Byte)
  /\ ranAhead \in BOOLEAN

\* Until Main reads a slot that tail has not moved past, the ring is a
\* first-in first-out queue of whole commands: the unlocked byte-by-byte
\* consumer and the locked byte-by-byte producers together do what
\* CommandFifo.tla promises (lines 365-439 of Qik2s9v1.c).
Fifo == INSTANCE CommandFifo WITH fifo <- backlog, sent <- sent

ImplementsCommandFifo == Fifo!Spec

\* tail never moves onto head.  Were it to, a ring full of commands would look
\* empty.  The room is measured once, with a head that Main keeps moving, and
\* has to last for every byte stored afterwards (lines 374-400).
TailNeverLaps ==
  [][~ranAhead /\ tail' # tail => tail' # head]_vars

\* The rejected caller's mutex: owned by a thread that is not in the call.
Leaked == mutex # Nobody /\ pc[mutex] \notin Inside

\* The early return of a full queue (lines 381-385) is for good: once it has
\* been taken no thread, the rejected one included, ever queues a byte again.
LeakFreezesQueue ==
  [][Leaked => Leaked' /\ UNCHANGED <<queue, tail>>]_vars

\* Main gets ahead of tail only by catching up with a thread that is in the
\* middle of laying down a frame: the missing lock of DequeueQikCommand() is
\* the one way the queue comes to be corrupted (lines 419-434).
RunsAheadOnlyMidFrame ==
  [][~ranAhead /\ ranAhead' =>
       \E t \in Threads \ {Main} : /\ pc[t] \in {"store", "publish"}
                                   /\ done[t] \in 1 .. Len(frame[t]) - 1]_vars

\* What the comment of qikMutex says, "Mutex to make sure outbound serial is
\* kosher" (line 42): every command sent is one that a caller queued.
OutboundKosher == pc[Main] = "send" => got \in Frames
================================================================================

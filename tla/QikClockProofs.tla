----------------------------- MODULE QikClockProofs ----------------------------
(***************************************************************************)
(* Theorems about QikClock.tla, for every width and every limit below half *)
(* of it, whatever time goes by between two steps.                         *)
(***************************************************************************)
EXTENDS QikClock, TLAPS

\* Where the reading is, so much time behind the reading a (lines 59-64).
After(a, time) == IF a + time >= Half THEN a + time - 2 * Half ELSE a + time

\* While the history is exact, the reading is what it tells.
ReadingTold ==
  /\ age < Half => reading = After(armedAt, age)
  /\ asked < Half => reading = After(askedAt, asked)

\* Both times are sums of the reading they were taken at, the shutoff's for as
\* long as it has not been found due.
StampsTold ==
  /\ asked < Half => cmdSentTimestamp = Unsigned(askedAt)
  /\ running /\ age < Half => motorShutoffTime = Sum(Unsigned(armedAt), MotorTimeout)

IInv == TypeOK /\ ReadingTold /\ StampsTold

\* A reading fits 64 bits, and so does the sum of a time and a limit.
LEMMA UnsignedType == ASSUME NEW a \in Readings PROVE Unsigned(a) \in Times
  BY ClockAssumption DEF Unsigned, Readings, Times

LEMMA SumType == ASSUME NEW t \in Times, NEW limit \in Nat, limit < Half
                 PROVE  Sum(t, limit) \in Times
  BY ClockAssumption DEF Sum, Times

\* The invariant holds in the beginning.
LEMMA InitInv == Init => IInv
<1> SUFFICES ASSUME Init PROVE IInv
  OBVIOUS
<1>1. 0 \in Readings /\ 0 \in Times /\ Half \in Ages
  BY ClockAssumption DEF Readings, Times, Ages
<1>2. TypeOK
  BY <1>1 DEF Init, TypeOK
<1>3. ReadingTold /\ StampsTold
  BY ClockAssumption DEF Init, ReadingTold, StampsTold
<1> QED
  BY <1>2, <1>3 DEF IInv

\* Time going by keeps the invariant: reading and history advance together.
LEMMA PassInv == IInv /\ Pass => IInv'
<1> SUFFICES ASSUME IInv, Pass PROVE IInv'
  OBVIOUS
<1>1. PICK n \in Steps :
        /\ reading' = IF reading + n >= Half THEN reading + n - 2 * Half ELSE reading + n
        /\ age' = Later(age, n) /\ asked' = Later(asked, n)
        /\ UNCHANGED <<driverVars, running, armedAt, askedAt>>
  BY DEF Pass
<1>2. n \in 1 .. Half
  BY ClockAssumption
<1>3. TypeOK'
  BY <1>1, <1>2, ClockAssumption DEF IInv, TypeOK, Readings, Times, Ages, Later, driverVars
<1>4. ReadingTold'
  <2>1. age' < Half => age' = age + n /\ age < Half
    BY <1>1, <1>2, ClockAssumption DEF IInv, TypeOK, Ages, Later
  <2>2. asked' < Half => asked' = asked + n /\ asked < Half
    BY <1>1, <1>2, ClockAssumption DEF IInv, TypeOK, Ages, Later
  <2>3. age' < Half => reading' = After(armedAt', age')
    BY <1>1, <1>2, <2>1, ClockAssumption
    DEF IInv, TypeOK, ReadingTold, After, Readings, Ages, driverVars
  <2>4. asked' < Half => reading' = After(askedAt', asked')
    BY <1>1, <1>2, <2>2, ClockAssumption
    DEF IInv, TypeOK, ReadingTold, After, Readings, Ages, driverVars
  <2> QED
    BY <2>3, <2>4 DEF ReadingTold
<1>5. StampsTold'
  BY <1>1, <1>2, ClockAssumption
  DEF IInv, TypeOK, StampsTold, Later, Ages, driverVars, Unsigned, Sum
<1> QED
  BY <1>3, <1>4, <1>5 DEF IInv

\* The check keeps the invariant: it ends the run it finds due.
LEMMA CheckInv == IInv /\ Check => IInv'
<1> SUFFICES ASSUME IInv, Check PROVE IInv'
  OBVIOUS
<1>1. 0 \in Times
  BY ClockAssumption DEF Times
<1>2. TypeOK'
  BY <1>1 DEF IInv, TypeOK, Check
<1>3. ReadingTold'
  BY DEF IInv, ReadingTold, Check, After
<1>4. StampsTold'
  <2>1. cmdSentTimestamp' = cmdSentTimestamp /\ askedAt' = askedAt /\ asked' = asked
        /\ armedAt' = armedAt /\ age' = age
        /\ (running' => running /\ motorShutoffTime' = motorShutoffTime)
    BY DEF Check
  <2> QED
    BY <2>1 DEF IInv, StampsTold, Unsigned, Sum
<1> QED
  BY <1>2, <1>3, <1>4 DEF IInv

\* Taking a command out of the queue, and an answer, keep the invariant.
LEMMA DequeueInv == IInv /\ (Dequeue \/ Answer) => IInv'
<1> SUFFICES ASSUME IInv, Dequeue \/ Answer PROVE IInv'
  OBVIOUS
<1>1. UNCHANGED <<reading, cmdSentTimestamp, motorShutoffTime, historyVars>>
  BY DEF Dequeue, Answer
<1>2. TypeOK'
  BY <1>1 DEF IInv, TypeOK, Dequeue, Answer, historyVars
<1>3. ReadingTold' /\ StampsTold'
  BY <1>1 DEF IInv, ReadingTold, StampsTold, After, Unsigned, Sum, historyVars
<1> QED
  BY <1>2, <1>3 DEF IInv

\* A command sent keeps the invariant: each time is taken with its reading.
LEMMA SendInv == IInv /\ SendCommand => IInv'
<1> SUFFICES ASSUME IInv, SendCommand PROVE IInv'
  OBVIOUS
<1>1. getCurrentTime \in Times
  BY UnsignedType DEF IInv, TypeOK, getCurrentTime
<1>2. Sum(getCurrentTime, MotorTimeout) \in Times
  BY <1>1, SumType, ClockAssumption
<1>3. TypeOK'
  <2>1. 0 \in Ages
    BY ClockAssumption DEF Ages
  <2>2. pending' \in BOOLEAN
    BY DEF SendCommand
  <2>3. CASE hand = "query"
    BY <1>1, <2>1, <2>2, <2>3 DEF IInv, TypeOK, SendCommand
  <2>4. CASE hand = "start"
    BY <1>2, <2>1, <2>2, <2>4 DEF IInv, TypeOK, SendCommand
  <2>5. CASE hand = "other"
    BY <2>2, <2>5 DEF IInv, TypeOK, SendCommand
  <2> QED
    BY <2>3, <2>4, <2>5 DEF IInv, TypeOK
<1>4. After(reading, 0) = reading
  BY ClockAssumption DEF IInv, TypeOK, After, Readings
<1>5. ReadingTold'
  BY <1>4 DEF IInv, ReadingTold, SendCommand, After
<1>6. StampsTold'
  BY DEF IInv, StampsTold, SendCommand, getCurrentTime, Unsigned, Sum
<1> QED
  BY <1>3, <1>5, <1>6 DEF IInv

\* What the invariant says of a limit is what the two properties say.
LEMMA InvShutoff == IInv => ShutoffInTime
<1> SUFFICES ASSUME IInv, running, age < Half
             PROVE  /\ age <= MotorTimeout /\ ShutoffDue => JumpWithin(armedAt, MotorTimeout)
                    /\ age > MotorTimeout /\ ~ShutoffDue => BackToZero(armedAt, age)
  BY DEF ShutoffInTime
<1>1. reading = After(armedAt, age) /\ motorShutoffTime = Sum(Unsigned(armedAt), MotorTimeout)
  BY DEF IInv, ReadingTold, StampsTold
<1>2. armedAt \in Readings /\ age \in Nat /\ age < Half
  BY ClockAssumption DEF IInv, TypeOK, Ages
<1> QED
  BY <1>1, <1>2, ClockAssumption
  DEF ShutoffDue, getCurrentTime, After, Unsigned, Sum, JumpWithin, BackToZero, Readings

LEMMA InvWait == IInv => WaitInTime
<1> SUFFICES ASSUME IInv, pending, asked < Half
             PROVE  /\ asked < CmdTimeout /\ ~MustWait => JumpWithin(askedAt, CmdTimeout)
                    /\ asked >= CmdTimeout /\ MustWait => BackToZero(askedAt, asked)
  BY DEF WaitInTime
<1>1. reading = After(askedAt, asked) /\ cmdSentTimestamp = Unsigned(askedAt)
  BY DEF IInv, ReadingTold, StampsTold
<1>2. askedAt \in Readings /\ asked \in Nat /\ asked < Half
  BY ClockAssumption DEF IInv, TypeOK, Ages
<1> QED
  BY <1>1, <1>2, ClockAssumption
  DEF MustWait, getCurrentTime, After, Unsigned, Sum, JumpWithin, BackToZero, Readings

\* Every step keeps the invariant.
LEMMA NextInv == IInv /\ [Next]_vars => IInv'
<1> SUFFICES ASSUME IInv, [Next]_vars PROVE IInv'
  OBVIOUS
<1>1. CASE UNCHANGED vars
  BY <1>1 DEF IInv, TypeOK, ReadingTold, StampsTold, vars, driverVars, historyVars, After,
              Unsigned, Sum
<1>2. CASE Next
  BY <1>2, PassInv, CheckInv, DequeueInv, SendInv DEF Next
<1> QED
  BY <1>1, <1>2

\* The invariant holds always.
LEMMA Invariance == Spec => []IInv
  BY InitInv, NextInv, PTL DEF Spec

\* The clock's variables keep their types: no time leaves its width.
THEOREM TypeCorrect == Spec => []TypeOK
<1>1. IInv => TypeOK
  BY DEF IInv
<1> QED
  BY <1>1, Invariance, PTL

\* The automatic shutoff is due when two seconds are over and not before, with no
\* exceptions but the readings that the property names.
THEOREM ShutoffOnTime == Spec => []ShutoffInTime
  BY Invariance, InvShutoff, PTL

\* A command waits for an answer until the limit and no longer, with no
\* exceptions but the readings that the property names.
THEOREM WaitOnTime == Spec => []WaitInTime
  BY Invariance, InvWait, PTL
================================================================================

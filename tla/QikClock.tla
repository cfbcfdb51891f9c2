------------------------------- MODULE QikClock --------------------------------
(***************************************************************************)
(* The two time limits of Qik2s9v1.c at the width of their arithmetic.     *)
(* getCurrentTime() adds microseconds to a product of longs, 32 bits on    *)
(* the target, and returns the sum as 64 bits without a sign: the reading  *)
(* goes round in 2 * Half, and its negative half is far above the other.   *)
(*                                                                         *)
(* QikDriver.tla has limits that are exact.  This module has the main      *)
(* thread alone, with whatever commands it finds in the queue, and as much *)
(* time as you like going by between its steps.                            *)
(***************************************************************************)
EXTENDS Integers

CONSTANTS
  Half,            \* 2^31: a long is in -Half .. Half - 1
  Wide,            \* 2^64: a uint64_t is in 0 .. Wide - 1
  CmdTimeout,      \* CMD_TIMEOUT_USEC
  MotorTimeout,    \* MOTOR_TIMEOUT
  Steps            \* how much time may go by at once

ASSUME ClockAssumption ==
  /\ Half \in Nat /\ Wide \in Nat /\ CmdTimeout \in Nat /\ MotorTimeout \in Nat \ {0}
  /\ CmdTimeout < Half /\ MotorTimeout < Half /\ 4 * Half <= Wide
  /\ Steps \subseteq 1 .. Half

VARIABLES
  reading,           \* tv_usec + tv_sec * 1000000, as a long
  pc,                \* where the main thread is
  hand,              \* what the command it is sending does
  pending,           \* pendingCmd # 0
  cmdSentTimestamp,
  motorShutoffTime,
  running,           \* a motor was started and has not been shut off
  armedAt, age,      \* the reading at its start, and the time since
  askedAt, asked     \* the reading at the last query, and the time since

driverVars == <<pc, hand, pending, cmdSentTimestamp, motorShutoffTime>>
historyVars == <<running, armedAt, age, askedAt, asked>>
vars == <<reading, driverVars, historyVars>>

Readings == -Half .. Half - 1
Times == 0 .. Wide - 1

\* The history counts up to Half, which stands for that and more.
Ages == 0 .. Half

\* A long as a uint64_t, and the sum of two of these.
Unsigned(long) == IF long < 0 THEN Wide + long ELSE long

\* Mutant of Sum: it does not wrap.
SumUnbounded(t, limit) == t + limit

Sum(t, limit) == IF t + limit >= Wide THEN t + limit - Wide ELSE t + limit

getCurrentTime == Unsigned(reading)

\* The main thread has just started and the clock reads what it likes.
Init ==
  /\ reading \in Readings
  /\ pc = "check" /\ hand = "other" /\ pending = FALSE
  /\ cmdSentTimestamp = 0 /\ motorShutoffTime = 0
  /\ running = FALSE
  /\ armedAt = 0 /\ age = Half /\ askedAt = 0 /\ asked = Half

Later(a, n) == IF a + n > Half THEN Half ELSE a + n

\* Time goes by.
Pass ==
  \E n \in Steps :
    /\ reading' = IF reading + n >= Half THEN reading + n - 2 * Half ELSE reading + n
    /\ age' = Later(age, n) /\ asked' = Later(asked, n)
    /\ UNCHANGED <<driverVars, running, armedAt, askedAt>>

\* Mutant of ShutoffDue: "<" where the code has ">".
ShutoffNotOver == motorShutoffTime # 0 /\ getCurrentTime < motorShutoffTime

ShutoffDue == motorShutoffTime # 0 /\ getCurrentTime > motorShutoffTime

\* The beginning of processQikState().
Check ==
  /\ pc = "check"
  /\ IF ShutoffDue THEN motorShutoffTime' = 0 /\ running' = FALSE
                   ELSE UNCHANGED <<motorShutoffTime, running>>
  /\ pc' = "dequeue"
  /\ UNCHANGED <<reading, hand, pending, cmdSentTimestamp, armedAt, age, askedAt, asked>>

\* DequeueQikCommand() finds the queue empty, or a command that starts a motor,
\* that expects a response, or that does neither.
Dequeue ==
  /\ pc = "dequeue"
  /\ \/ pc' = "check" /\ UNCHANGED hand
     \/ pc' = "spin" /\ hand' \in {"start", "query", "other"}
  /\ UNCHANGED <<reading, pending, cmdSentTimestamp, motorShutoffTime, historyVars>>

\* processResponse()
Answer ==
  /\ pending /\ pending' = FALSE
  /\ UNCHANGED <<reading, pc, hand, cmdSentTimestamp, motorShutoffTime, historyVars>>

\* Mutant of MustWait: "<" where the code has ">".
MustNotWait == Sum(cmdSentTimestamp, CmdTimeout) < getCurrentTime

MustWait == Sum(cmdSentTimestamp, CmdTimeout) > getCurrentTime

\* sendCommand(), once it need not wait any more.
SendCommand ==
  /\ pc = "spin" /\ ~(MustWait /\ pending)
  /\ pc' = "dequeue"
  /\ pending' = (hand = "query")
  /\ IF hand = "query"
       THEN cmdSentTimestamp' = getCurrentTime /\ askedAt' = reading /\ asked' = 0
       ELSE UNCHANGED <<cmdSentTimestamp, askedAt, asked>>
  /\ IF hand = "start"
       THEN /\ motorShutoffTime' = Sum(getCurrentTime, MotorTimeout)
            /\ running' = TRUE /\ armedAt' = reading /\ age' = 0
       ELSE UNCHANGED <<motorShutoffTime, running, armedAt, age>>
  /\ UNCHANGED <<reading, hand>>

Next == Pass \/ Check \/ Dequeue \/ Answer \/ SendCommand

Spec == Init /\ [][Next]_vars

-----------------------------------------------------------------------------
(***************************************************************************)
(* Properties.                                                             *)
(***************************************************************************)

\* The types of the variables: the two times fit their width.
TypeOK ==
  /\ reading \in Readings /\ armedAt \in Readings /\ askedAt \in Readings
  /\ age \in Ages /\ asked \in Ages
  /\ pc \in {"check", "dequeue", "spin"} /\ hand \in {"start", "query", "other"}
  /\ pending \in BOOLEAN /\ running \in BOOLEAN
  /\ cmdSentTimestamp \in Times /\ motorShutoffTime \in Times

\* From the reading a, time goes over the end of the long, or over zero, within
\* so much time.
JumpWithin(a, time) == a + time >= Half \/ (a < 0 /\ a + time >= 0)

\* Time has gone from a negative reading over zero.
BackToZero(a, time) == a < 0 /\ a + time >= 0

\* In the first Half microseconds behind a start, the shutoff is due when its
\* time is over and not before, except that it is due early when the reading
\* jumps in that time, and that it is missed for good when nobody has looked
\* before the reading is back to zero, or when its time comes out as 0, which
\* means that there is none (lines 56-64, 482, 492, 568).
ShutoffInTime ==
  running /\ age < Half =>
    /\ age <= MotorTimeout /\ ShutoffDue => JumpWithin(armedAt, MotorTimeout)
    /\ age > MotorTimeout /\ ~ShutoffDue => BackToZero(armedAt, age)

\* In the first Half microseconds behind a query, a command waits for the answer
\* until the time limit and no longer, except that it waits less when the
\* reading jumps in that time, and that it waits although the limit is long over
\* when the reading is back to zero (lines 56-64, 454-463).
WaitInTime ==
  pending /\ asked < Half =>
    /\ asked < CmdTimeout /\ ~MustWait => JumpWithin(askedAt, CmdTimeout)
    /\ asked >= CmdTimeout /\ MustWait => BackToZero(askedAt, asked)
================================================================================

---------------------------- MODULE QikDriverProofs ----------------------------
(***************************************************************************)
(* Proofs about QikDriver.tla: the automatic shutoff covers the motors and *)
(* is not early, and answers are matched to their queries, for any         *)
(* commands of the clients, any time limits, any capacity of the           *)
(* queue and any number of requests, errors and lost answers.              *)
(***************************************************************************)
EXTENDS QikDriver, SequenceTheorems, FiniteSetTheorems, TLAPS

-----------------------------------------------------------------------------
(***************************************************************************)
(* The commands.                                                           *)
(***************************************************************************)

\* What a command of a setter looks like.
LEMMA MotorCommandShape ==
  ASSUME NEW c \in MotorCommands
  PROVE  /\ c.motor \in Motors /\ ~c.expectResponse /\ c.arg \in 0 .. 127
         /\ c.code \in {"COAST", "FORWARD", "REVERSE", "FORWARD_128", "REVERSE_128"}
         /\ c.code = "COAST" => c.arg = 0
<1>1. CASE \E motor \in Motors : c = SetCoast(motor)
  BY <1>1 DEF SetCoast, Drive
<1>2. CASE \E motor \in Motors, speed \in 0 .. 255 : c = SetForward(motor, speed)
  BY <1>2 DEF SetForward, Drive
<1>3. CASE \E motor \in Motors, speed \in 0 .. 255 : c = SetReverse(motor, speed)
  BY <1>3 DEF SetReverse, Drive
<1> QED
  BY <1>1, <1>2, <1>3 DEF MotorCommands

\* The switch of sendCommand() arms the automatic shutoff for the commands that
\* make a motor turn and for no other, at every speed (lines 472-504).
THEOREM StartsMotorExact ==
  ASSUME NEW c \in MotorCommands
  PROVE  StartsMotor(c) <=> Turns(c)
BY MotorCommandShape DEF StartsMotor, Turns, Speed

\* The commands of which the driver makes use.
LEMMA CommandShape ==
  ASSUME NEW c \in Commands
  PROVE  \/ c \in MotorCommands
         \/ c.expectResponse /\ ~StartsMotor(c) /\ c.code \in Codes
<1>1. CASE c \in ClientCommands
  BY <1>1, DriverAssumption
<1>2. CASE c = GetErrorByte \/ \E i \in 1 .. InitialCount : c = InitialQueries[i]
  <2>1. c.expectResponse /\ ~StartsMotor(c)
    BY <1>2 DEF InitialQueries, GetErrorByte, GetFirmwareVersion,
                GetConfigurationParameter, Query, StartsMotor
  <2> QED
    BY <2>1 DEF Codes
<1>3. CASE c = SetForward(0, 0) \/ c = SetForward(1, 0)
  BY <1>3 DEF MotorCommands, Motors
<1> QED
  BY <1>1, <1>2, <1>3 DEF Commands

\* The stops of the automatic shutoff stop.
LEMMA StopsStop ==
  ASSUME NEW m \in Motors
  PROVE  /\ SetForward(m, 0) \in Commands
         /\ Stops(SetForward(m, 0)) /\ SetForward(m, 0).motor = m
         /\ ~SetForward(m, 0).expectResponse
<1>1. SetForward(m, 0) = Drive("FORWARD", m, 0)
  BY DEF SetForward
<1>2. SetForward(m, 0) \in Commands
  BY DEF Commands, Motors
<1> QED
  BY <1>1, <1>2 DEF Drive, Stops, Speed

-----------------------------------------------------------------------------
(***************************************************************************)
(* Type correctness, one part of TypeOK at a time.                         *)
(***************************************************************************)

\* Every command the driver or a client queues is in Commands.
LEMMA QueuedCommands ==
  /\ InitialCount \in Nat /\ InitialCount > 0
  /\ \A i \in 1 .. InitialCount : InitialQueries[i] \in Commands
  /\ GetErrorByte \in Commands /\ ClientCommands \subseteq Commands
<1>1. Len(InitialParameters) \in Nat
  BY DriverAssumption
<1> QED
  BY <1>1 DEF InitialCount, Commands

\* A call of QueueQikCommand() leaves the queue a queue of commands.
LEMMA QueueType ==
  ASSUME queue \in Seq(Commands), NEW c \in Commands, QueueQikCommand(c)
  PROVE  queue' \in Seq(Commands)
BY AppendProperties DEF QueueQikCommand

\* The flags stay flags.
LEMMA FlagsType == ASSUME FlagsOK, [Next]_vars PROVE FlagsOK'
<1> USE DEF FlagsOK, vars, queueVars, mainVars, sendVars, shutoffVars, lineVars, qikVars,
            boundVars, httpVars, QueueQikCommand
<1>1. CASE Main
  BY <1>1 DEF Main, CheckErrorPin, AskInitialInfo, CheckShutoff, StopM0, StopM1, Dequeue,
              MarkSent, Write
<1>2. CASE Serial
  BY <1>2 DEF Serial, OpenPort, OpenFails, Hear, ForgetPending
<1>3. CASE \E c \in ClientCommands : Request(c)
  BY <1>3 DEF Request
<1>4. CASE Exit \/ ErrorFunc
  BY <1>4 DEF Exit, ErrorFunc
<1>5. CASE Execute
  BY <1>5 DEF Execute
<1>6. CASE MeetError \/ LoseAnswer \/ Tick
  BY <1>6 DEF MeetError, LoseAnswer, Tick
<1> QED
  BY <1>1, <1>2, <1>3, <1>4, <1>5, <1>6 DEF Next

\* The main thread asks for no more than there is to ask.
AskedInv == pc \in {"gpio", "ask"} => asked < InitialCount

\* The main thread stays at its labels, and main() does not run past the
\* queries it has to ask.
LEMMA PlacesType ==
  ASSUME PlacesOK, AskedInv, [Next]_vars
  PROVE  PlacesOK' /\ AskedInv'
<1> USE QueuedCommands
    DEF PlacesOK, AskedInv, vars, mainVars, qikVars
<1>1. CASE Main
  <2>1. motors' = motors
    BY <1>1 DEF Main
  <2>2. CASE AskInitialInfo
    BY <2>1, <2>2 DEF AskInitialInfo
  <2>3. CASE CheckErrorPin \/ CheckShutoff \/ StopM0 \/ StopM1
    BY <2>1, <2>3 DEF CheckErrorPin, CheckShutoff, StopM0, StopM1
  <2>4. CASE Dequeue \/ MarkSent \/ Write
    BY <2>1, <2>4 DEF Dequeue, MarkSent, Write
  <2> QED
    BY <1>1, <2>2, <2>3, <2>4 DEF Main
<1>2. CASE Serial
  BY <1>2 DEF Serial
<1>3. CASE \E c \in ClientCommands : Request(c)
  BY <1>3 DEF Request
<1>4. CASE Exit \/ ErrorFunc \/ LoseAnswer \/ Tick
  BY <1>4 DEF Exit, ErrorFunc, LoseAnswer, Tick
<1>5. CASE Execute
  <2>1. motors' \in [Motors -> BOOLEAN]
    BY <1>5 DEF Execute, Turns
  <2> QED
    BY <1>5, <2>1 DEF Execute
<1>6. CASE MeetError
  BY <1>6 DEF MeetError
<1> QED
  BY <1>1, <1>2, <1>3, <1>4, <1>5, <1>6 DEF Next

\* The timers stay within their limits.
LEMMA NumbersType == ASSUME NumbersOK, [Next]_vars PROVE NumbersOK'
<1> USE DriverAssumption
    DEF NumbersOK, vars, mainVars, sendVars, shutoffVars, boundVars, httpVars
<1>1. CASE Main
  <2>1. CASE MarkSent
    BY <1>1, <2>1 DEF Main, MarkSent
  <2>2. CASE ~MarkSent
    BY <1>1, <2>2 DEF Main, CheckErrorPin, AskInitialInfo, CheckShutoff, StopM0, StopM1,
                      Dequeue, Write
  <2> QED
    BY <2>1, <2>2
<1>2. CASE Serial
  BY <1>2 DEF Serial, OpenPort, OpenFails, Hear, ForgetPending
<1>3. CASE \E c \in ClientCommands : Request(c)
  BY <1>3 DEF Request
<1>4. CASE Exit \/ ErrorFunc
  <2>1. /\ UNCHANGED <<cmdLeft, motorLeft, quiet, requests, errors, lost>>
        /\ isrCalls' = isrCalls \/ (isrCalls > 0 /\ isrCalls' = isrCalls - 1)
    BY ONLY <1>4 DEF Exit, ErrorFunc, mainVars, sendVars, shutoffVars, boundVars, httpVars
  <2>2. NumbersOK
    OBVIOUS
  <2> QED
    BY ONLY <2>1, <2>2 DEF NumbersOK
<1>5. CASE Execute \/ MeetError \/ LoseAnswer
  <2>1. /\ UNCHANGED <<cmdLeft, motorLeft, quiet, requests>>
        /\ isrCalls' \in {isrCalls, isrCalls + 1} /\ errors' \in {errors, errors + 1}
        /\ lost' \in {lost, lost + 1}
    BY ONLY <1>5
    DEF Execute, MeetError, LoseAnswer, mainVars, sendVars, shutoffVars, boundVars, httpVars
  <2>2. NumbersOK
    OBVIOUS
  <2> QED
    BY ONLY <2>1, <2>2 DEF NumbersOK
<1>6. CASE Tick
  <2>1. /\ cmdLeft' = IF cmdLeft > 0 THEN cmdLeft - 1 ELSE 0
        /\ motorLeft' = IF motorLeft >= 0 THEN motorLeft - 1 ELSE -1
        /\ quiet' = IF quiet > MotorTimeout THEN quiet ELSE quiet + 1
        /\ UNCHANGED <<isrCalls, requests, errors, lost>>
    BY ONLY <1>6 DEF Tick
  <2>2. NumbersOK /\ CmdTimeout \in Nat /\ MotorTimeout \in Nat
    BY DriverAssumption
  <2> QED
    BY ONLY <2>1, <2>2 DEF NumbersOK
<1> QED
  BY <1>1, <1>2, <1>3, <1>4, <1>5, <1>6 DEF Next

\* The queue and the line carry commands of the driver and its clients, and the
\* answers are answers to them.
LEMMA CommandsType ==
  ASSUME CommandsOK, PlacesOK, AskedInv, [Next]_vars
  PROVE  CommandsOK'
<1> USE QueuedCommands
    DEF CommandsOK, vars, queueVars, mainVars, sendVars, lineVars
<1>1. CASE Main
  <2>1. CASE CheckErrorPin /\ UNCHANGED lineVars
    <3>1. queue' \in Seq(Commands)
      BY <2>1, QueueType DEF CheckErrorPin
    <3> QED
      BY <2>1, <3>1 DEF CheckErrorPin
  <2>2. CASE AskInitialInfo /\ UNCHANGED lineVars
    <3>1. asked + 1 \in 1 .. InitialCount
      BY <2>2 DEF AskInitialInfo, PlacesOK, AskedInv
    <3>2. queue' \in Seq(Commands)
      BY <2>2, <3>1, QueueType DEF AskInitialInfo
    <3> QED
      BY <2>2, <3>2 DEF AskInitialInfo
  <2>3. CASE CheckShutoff /\ UNCHANGED <<queueVars, lineVars>>
    BY <2>3 DEF CheckShutoff
  <2>4. CASE StopM0 /\ UNCHANGED lineVars
    <3>1. queue' \in Seq(Commands)
      BY <2>4, QueueType, StopsStop DEF StopM0, Motors
    <3> QED
      BY <2>4, <3>1 DEF StopM0
  <2>5. CASE StopM1 /\ UNCHANGED lineVars
    <3>1. queue' \in Seq(Commands)
      BY <2>5, QueueType, StopsStop DEF StopM1, Motors
    <3> QED
      BY <2>5, <3>1 DEF StopM1
  <2>6. CASE Dequeue /\ UNCHANGED lineVars
    <3>1. queue # << >> => Head(queue) \in Commands /\ Tail(queue) \in Seq(Commands)
      BY HeadTailProperties
    <3> QED
      BY <2>6, <3>1 DEF Dequeue
  <2>7. CASE MarkSent /\ UNCHANGED <<queueVars, lineVars>>
    BY <2>7 DEF MarkSent, Codes
  <2>8. CASE Write /\ UNCHANGED queueVars
    <3>1. Append(wire, hand) \in Seq(Commands)
      BY AppendProperties
    <3> QED
      BY <2>8, <3>1 DEF Write
  <2> QED
    BY <1>1, <2>1, <2>2, <2>3, <2>4, <2>5, <2>6, <2>7, <2>8 DEF Main
<1>2. CASE Serial
  <2>1. answers # << >> => Tail(answers) \in Seq(Codes)
    BY HeadTailProperties
  <2> QED
    BY <1>2, <2>1 DEF Serial, OpenPort, OpenFails, Hear, ForgetPending
<1>3. ASSUME NEW c \in ClientCommands, Request(c) PROVE CommandsOK'
  <2>1. queue' \in Seq(Commands)
    BY <1>3, QueueType DEF Request
  <2> QED
    BY <1>3, <2>1 DEF Request
<1>4. CASE ErrorFunc
  <2>1. queue' \in Seq(Commands)
    BY <1>4, QueueType DEF ErrorFunc
  <2> QED
    BY <1>4, <2>1 DEF ErrorFunc
<1>5. CASE Execute
  <2>1. Head(wire) \in Commands /\ Tail(wire) \in Seq(Commands)
    BY <1>5, HeadTailProperties DEF Execute
  <2>2. Append(answers, Head(wire).code) \in Seq(Codes)
    BY <2>1, AppendProperties DEF Codes
  <2>3. wire' \in Seq(Commands) /\ answers' \in Seq(Codes)
    BY <1>5, <2>1, <2>2 DEF Execute
  <2> QED
    BY <1>5, <2>3 DEF Execute
<1>6. CASE LoseAnswer
  <2>1. Tail(answers) \in Seq(Codes)
    BY <1>6, HeadTailProperties DEF LoseAnswer
  <2> QED
    BY <1>6, <2>1 DEF LoseAnswer
<1>7. CASE Exit \/ MeetError \/ Tick
  BY <1>7 DEF Exit, MeetError, Tick
<1> QED
  BY <1>1, <1>2, <1>3, <1>4, <1>5, <1>6, <1>7 DEF Next

TypeInv == TypeOK /\ AskedInv

\* The types of the initial values.
LEMMA InitialType == ASSUME Init PROVE TypeInv
<1> USE DEF Init
<1>1. FlagsOK
  BY DEF FlagsOK
<1>2. << >> \in Seq(Commands) /\ << >> \in Seq(Codes)
  OBVIOUS
<1>3. CommandsOK
  BY <1>2, QueuedCommands DEF CommandsOK
<1>4. PlacesOK /\ AskedInv
  BY QueuedCommands DEF PlacesOK, AskedInv
<1>5. NumbersOK
  BY DriverAssumption DEF NumbersOK
<1> QED
  BY <1>1, <1>3, <1>4, <1>5 DEF TypeInv, TypeOK

\* No step changes a type.
LEMMA TypeStep == ASSUME TypeInv, [Next]_vars PROVE TypeInv'
BY FlagsType, CommandsType, PlacesType, NumbersType DEF TypeInv, TypeOK

\* The variables keep their types, whatever the clients, the port and the qik do.
THEOREM TypeCorrect == Spec => []TypeOK
<1>1. Init => TypeInv
  BY InitialType
<1>2. TypeInv /\ [Next]_vars => TypeInv'
  BY TypeStep
<1>3. TypeInv => TypeOK
  BY DEF TypeInv
<1> QED
  BY <1>1, <1>2, <1>3, PTL DEF Spec

-----------------------------------------------------------------------------
(***************************************************************************)
(* Stops in the queue.                                                     *)
(***************************************************************************)

\* A command that stops motor m waits in the queue.
StopQueued(m) == \E i \in For(m, queue) : Stops(queue[i])

\* A call of QueueQikCommand() keeps the stops that wait.
LEMMA QueueKeepsStop ==
  ASSUME queue \in Seq(Commands), NEW c \in Commands, QueueQikCommand(c),
         NEW m, StopQueued(m)
  PROVE  StopQueued(m)'
<1>1. CASE queue' = Append(queue, c)
  <2>1. PICK i \in For(m, queue) : Stops(queue[i])
    BY DEF StopQueued
  <2>2. /\ Len(queue) \in Nat /\ Len(queue') = Len(queue) + 1
        /\ \A j \in 1 .. Len(queue) : queue'[j] = queue[j]
    BY <1>1, AppendProperties
  <2>3. i \in For(m, queue') /\ queue'[i] = queue[i]
    BY <2>1, <2>2 DEF For
  <2> QED
    BY <2>1, <2>3 DEF StopQueued
<1>2. CASE UNCHANGED queue
  BY <1>2 DEF StopQueued
<1> QED
  BY <1>1, <1>2 DEF QueueQikCommand

\* A stop that is queued waits, unless the mutex is lost.
LEMMA QueueBringsStop ==
  ASSUME queue \in Seq(Commands), NEW m \in Motors, QueueQikCommand(SetForward(m, 0))
  PROVE  StopQueued(m)' \/ leaked'
<1> DEFINE c == SetForward(m, 0)
<1>1. c \in Commands /\ Stops(c) /\ c.motor = m /\ ~c.expectResponse
  BY StopsStop
<1> HIDE DEF c
<1>2. CASE queue' = Append(queue, c)
  <2>1. /\ Len(queue) \in Nat /\ Len(queue') = Len(queue) + 1
        /\ queue'[Len(queue) + 1] = c
    BY <1>1, <1>2, AppendProperties
  <2>2. Len(queue) + 1 \in For(m, queue')
    BY <1>1, <2>1 DEF For
  <2> QED
    BY <1>1, <2>1, <2>2 DEF StopQueued
<1> QED
  BY <1>2 DEF QueueQikCommand, c

\* A stop that waits is taken in hand or goes on waiting.
LEMMA DequeueKeepsStop ==
  ASSUME queue \in Seq(Commands), queue # << >>, hand' = Head(queue),
         queue' = Tail(queue), NEW m, StopQueued(m)
  PROVE  StopQueued(m)' \/ (Stops(hand') /\ hand'.motor = m)
<1>1. PICK i \in For(m, queue) : Stops(queue[i])
  BY DEF StopQueued
<1>2. /\ Len(queue) \in Nat /\ Len(queue') = Len(queue) - 1
      /\ \A j \in 1 .. Len(queue') : queue'[j] = queue[j + 1]
  BY HeadTailProperties
<1>3. hand' = queue[1]
  OBVIOUS
<1>4. i \in 1 .. Len(queue) /\ ~queue[i].expectResponse /\ queue[i].motor = m
  BY <1>1 DEF For
<1>5. CASE i = 1
  BY <1>1, <1>3, <1>4, <1>5
<1>6. CASE i # 1
  <2>1. i - 1 \in 1 .. Len(queue') /\ (i - 1) + 1 = i
    BY <1>2, <1>4, <1>6
  <2>2. queue'[i - 1] = queue[i]
    BY <1>2, <2>1
  <2>3. i - 1 \in For(m, queue')
    BY <1>4, <2>1, <2>2 DEF For
  <2> QED
    BY <1>1, <2>2, <2>3 DEF StopQueued
<1> QED
  BY <1>5, <1>6

-----------------------------------------------------------------------------
(***************************************************************************)
(* What the line brings to the motors.                                     *)
(***************************************************************************)

\* The qik brings a motor to no other state than the line promised.
LEMMA ExecuteKeepsPromise ==
  ASSUME CommandsOK, PlacesOK, Execute, NEW m \in Motors, WillTurn(m)'
  PROVE  WillTurn(m)
<1> DEFINE c == Head(wire)
<1>1. wire \in Seq(Commands) /\ wire # << >> /\ wire' = Tail(wire)
  BY DEF CommandsOK, Execute
<1>2. /\ Len(wire) \in Nat \ {0} /\ Len(wire') = Len(wire) - 1
      /\ \A i \in 1 .. Len(wire') : wire'[i] = wire[i + 1]
  BY <1>1, HeadTailProperties, LenProperties, EmptySeq
<1>3. c = wire[1]
  BY <1>1
<1>4. motors \in [Motors -> BOOLEAN]
  BY DEF PlacesOK
<1>5. motors'[m] = IF ~c.expectResponse /\ c.motor = m THEN Turns(c) ELSE motors[m]
  BY <1>4 DEF Execute
<1> HIDE DEF c
<1>6. ASSUME NEW i \in For(m, wire), i # 1
      PROVE  i - 1 \in For(m, wire')
  <2>1. i \in 1 .. Len(wire) /\ ~wire[i].expectResponse /\ wire[i].motor = m
    BY DEF For
  <2>2. i - 1 \in 1 .. Len(wire') /\ (i - 1) + 1 = i
    BY <1>2, <1>6, <2>1
  <2>3. wire'[i - 1] = wire[i]
    BY <1>2, <2>2
  <2> QED
    BY <2>1, <2>2, <2>3 DEF For
<1>7. CASE \E i \in For(m, wire') : Turns(wire'[i]) /\ \A j \in For(m, wire') : j <= i
  <2>1. PICK i \in For(m, wire') : Turns(wire'[i]) /\ \A j \in For(m, wire') : j <= i
    BY <1>7
  <2>2. i \in 1 .. Len(wire') /\ ~wire'[i].expectResponse /\ wire'[i].motor = m
    BY <2>1 DEF For
  <2>3. i + 1 \in 1 .. Len(wire) /\ wire[i + 1] = wire'[i]
    BY <1>2, <2>2
  <2>4. i + 1 \in For(m, wire)
    BY <2>2, <2>3 DEF For
  <2>5. ASSUME NEW j \in For(m, wire) PROVE j <= i + 1
    <3>1. j \in 1 .. Len(wire)
      BY DEF For
    <3>2. j = 1 \/ j - 1 <= i
      BY <1>6, <2>1
    <3> QED
      BY <1>2, <2>2, <3>1, <3>2
  <2> QED
    BY <2>1, <2>3, <2>4, <2>5 DEF WillTurn
<1>8. CASE motors'[m] /\ For(m, wire') = {}
  <2>1. \A i \in For(m, wire) : i = 1
    BY <1>6, <1>8
  <2>2. 1 \in For(m, wire) <=> ~c.expectResponse /\ c.motor = m
    BY <1>2, <1>3 DEF For
  <2>3. CASE 1 \in For(m, wire)
    <3>1. Turns(wire[1])
      BY <1>3, <1>5, <1>8, <2>2, <2>3
    <3> QED
      BY <2>1, <2>3, <3>1 DEF WillTurn
  <2>4. CASE 1 \notin For(m, wire)
    <3>1. For(m, wire) = {}
      BY <2>1, <2>4
    <3>2. motors[m]
      BY <1>5, <1>8, <2>2, <2>4
    <3> QED
      BY <3>1, <3>2 DEF WillTurn
  <2> QED
    BY <2>3, <2>4
<1> QED
  BY <1>7, <1>8 DEF WillTurn

\* A command written for another motor, or for none, promises m nothing new.
LEMMA WriteOfOther ==
  ASSUME wire \in Seq(Commands), hand \in Commands, wire' = Append(wire, hand),
         UNCHANGED motors, NEW m \in Motors, hand.expectResponse \/ hand.motor # m,
         WillTurn(m)'
  PROVE  WillTurn(m)
<1>1. /\ Len(wire) \in Nat /\ Len(wire') = Len(wire) + 1
      /\ \A i \in 1 .. Len(wire) : wire'[i] = wire[i]
      /\ wire'[Len(wire) + 1] = hand
  BY AppendProperties
<1>2. \A i \in For(m, wire) : i \in For(m, wire') /\ wire'[i] = wire[i]
  BY <1>1 DEF For
<1>3. \A i \in For(m, wire') : i \in For(m, wire)
  BY <1>1 DEF For
<1>4. For(m, wire') = For(m, wire)
  BY <1>2, <1>3
<1>5. CASE \E i \in For(m, wire') : Turns(wire'[i]) /\ \A j \in For(m, wire') : j <= i
  <2>1. PICK i \in For(m, wire') : Turns(wire'[i]) /\ \A j \in For(m, wire') : j <= i
    BY <1>5
  <2>2. i \in For(m, wire) /\ Turns(wire[i]) /\ \A j \in For(m, wire) : j <= i
    BY <1>2, <1>4, <2>1
  <2> QED
    BY <2>2 DEF WillTurn
<1>6. CASE motors'[m] /\ For(m, wire') = {}
  BY <1>4, <1>6 DEF WillTurn
<1> QED
  BY <1>5, <1>6 DEF WillTurn

\* A stop written for motor m is the last word on it.
LEMMA WriteOfStop ==
  ASSUME wire \in Seq(Commands), hand \in Commands, wire' = Append(wire, hand),
         NEW m \in Motors, ~hand.expectResponse, hand.motor = m, ~Turns(hand)
  PROVE  ~WillTurn(m)'
<1> DEFINE n == Len(wire) + 1
<1>1. Len(wire) \in Nat /\ Len(wire') = n /\ wire'[n] = hand
  BY AppendProperties
<1>2. n \in For(m, wire') /\ \A i \in For(m, wire') : i \in 1 .. n
  BY <1>1 DEF For
<1>3. ASSUME NEW i \in For(m, wire'), \A j \in For(m, wire') : j <= i
      PROVE  ~Turns(wire'[i])
  <2>1. i = n
    BY <1>1, <1>2, <1>3
  <2> QED
    BY <1>1, <2>1
<1> QED
  BY <1>2, <1>3 DEF WillTurn

-----------------------------------------------------------------------------
(***************************************************************************)
(* The automatic shutoff covers the motors.  Covered is not inductive: it  *)
(* takes that the shutoff is armed before the command that starts a motor  *)
(* is written, and that a stop that is lost because the port is not open   *)
(* yet leaves nothing turning.                                             *)
(***************************************************************************)

\* sendCommand() arms the shutoff before it writes.
HandArmed == pc = "write" /\ StartsMotor(hand) => armed

\* Nothing moves before the port is open.
ClosedQuiet == ~portOpen => wire = << >> /\ \A m \in Motors : ~motors[m]

\* The shutoff is armed for motor m, a stop for it waits, or the mutex is lost.
Cover(m) == armed \/ StopComing(m) \/ leaked

\* Covered without its condition on the process: once that has ended the queue and
\* the shutoff time stay as they were, though nobody looks at them any more.
Kept == \A m \in Motors : WillTurn(m) => Cover(m)

CoverInv == TypeInv /\ HandArmed /\ ClosedQuiet /\ Kept

\* The order of the steps of sendCommand() keeps HandArmed.
LEMMA HandArmedStep == ASSUME HandArmed, [Next]_vars PROVE HandArmed'
<1> USE DEF HandArmed, vars, mainVars, sendVars, shutoffVars
<1>1. CASE Main
  <2>1. CASE MarkSent
    BY <2>1 DEF MarkSent
  <2>2. CASE ~MarkSent
    BY <1>1, <2>2 DEF Main, CheckErrorPin, AskInitialInfo, CheckShutoff, StopM0, StopM1,
                      Dequeue, Write
  <2> QED
    BY <2>1, <2>2
<1>2. CASE Serial
  BY <1>2 DEF Serial
<1>3. CASE \E c \in ClientCommands : Request(c)
  BY <1>3 DEF Request
<1>4. CASE Exit \/ ErrorFunc \/ Execute \/ MeetError \/ LoseAnswer \/ Tick
  BY <1>4 DEF Exit, ErrorFunc, Execute, MeetError, LoseAnswer, Tick
<1> QED
  BY <1>1, <1>2, <1>3, <1>4 DEF Next

\* The port never closes, and only an open one is written to.
LEMMA ClosedQuietStep == ASSUME ClosedQuiet, [Next]_vars PROVE ClosedQuiet'
<1> USE DEF ClosedQuiet, vars, lineVars, qikVars
<1>1. CASE Main
  <2>1. UNCHANGED <<portOpen, motors>>
    BY <1>1 DEF Main
  <2>2. ~portOpen => UNCHANGED wire
    BY <1>1 DEF Main, Write
  <2> QED
    BY <2>1, <2>2
<1>2. CASE Serial
  <2>1. UNCHANGED <<wire, motors>>
    BY <1>2 DEF Serial
  <2>2. portOpen => portOpen'
    BY <1>2 DEF Serial, OpenPort, OpenFails, Hear, ForgetPending
  <2> QED
    BY <2>1, <2>2
<1>3. CASE \E c \in ClientCommands : Request(c)
  BY <1>3 DEF Request
<1>4. CASE Execute
  BY <1>4 DEF Execute
<1>5. CASE MeetError
  BY <1>5 DEF MeetError
<1>6. CASE Exit \/ ErrorFunc \/ LoseAnswer \/ Tick
  BY <1>6 DEF Exit, ErrorFunc, LoseAnswer, Tick
<1> QED
  BY <1>1, <1>2, <1>3, <1>4, <1>5, <1>6 DEF Next

\* As long as the line and the motors are let alone, what the line promises
\* stays the same.
LEMMA SamePromise ==
  ASSUME UNCHANGED <<wire, motors>>, NEW m \in Motors
  PROVE  WillTurn(m)' <=> WillTurn(m)
BY DEF WillTurn

\* A thread other than main() that queues a command leaves motor m covered.
LEMMA QueueKeepsCover ==
  ASSUME queue \in Seq(Commands), NEW c \in Commands, QueueQikCommand(c),
         UNCHANGED <<pc, hand, armed>>, NEW m \in Motors, Cover(m)
  PROVE  Cover(m)'
<1>1. leaked => leaked'
  BY DEF QueueQikCommand
<1>2. StopComing(m) => StopComing(m)'
  <2>1. StopQueued(m) => StopQueued(m)'
    BY QueueKeepsStop
  <2> QED
    BY <2>1 DEF StopComing, StopQueued
<1> QED
  BY <1>1, <1>2 DEF Cover

\* No step of the main thread up to the write uncovers a motor: the shutoff is
\* disarmed only for the sake of two stops, and these are queued, taken in hand
\* and kept there.
LEMMA MainKeepsCover ==
  ASSUME TypeInv, Main, pc # "write", NEW m \in Motors, Cover(m)
  PROVE  Cover(m)'
<1> USE DEF Cover, StopComing
<1>1. queue \in Seq(Commands) /\ m \in {0, 1}
  BY DEF TypeInv, TypeOK, CommandsOK, Motors
<1>2. CASE CheckErrorPin \/ AskInitialInfo
  <2>1. /\ pc \in {"gpio", "ask"} /\ UNCHANGED armed
        /\ (\E c \in Commands : QueueQikCommand(c)) \/ UNCHANGED <<queue, leaked>>
    <3>1. CASE CheckErrorPin
      BY <3>1, QueuedCommands DEF CheckErrorPin, queueVars, shutoffVars
    <3>2. CASE AskInitialInfo
      <4>1. asked + 1 \in 1 .. InitialCount
        BY <3>2, QueuedCommands DEF AskInitialInfo, TypeInv, TypeOK, PlacesOK, AskedInv
      <4> QED
        BY <3>2, <4>1, QueuedCommands DEF AskInitialInfo, shutoffVars
    <3> QED
      BY <1>2, <3>1, <3>2
  <2>2. StopQueued(m) => StopQueued(m)'
    BY <1>1, <2>1, QueueKeepsStop DEF StopQueued
  <2>3. leaked => leaked'
    BY <2>1 DEF QueueQikCommand
  <2> QED
    BY <2>1, <2>2, <2>3 DEF StopQueued
<1>3. CASE CheckShutoff /\ UNCHANGED queueVars
  <2>1. StopQueued(m) => StopQueued(m)'
    BY <1>3 DEF StopQueued, queueVars
  <2>2. pc = "check" /\ UNCHANGED leaked /\ (armed => armed' \/ pc' = "stop M0")
    BY <1>3 DEF CheckShutoff, queueVars
  <2> QED
    BY <2>1, <2>2 DEF StopQueued
<1>4. CASE StopM0
  <2>1. StopQueued(0)' \/ leaked'
    BY <1>1, <1>4, QueueBringsStop DEF StopM0, Motors
  <2>2. pc' = "stop M1"
    BY <1>4 DEF StopM0
  <2> QED
    BY <1>1, <2>1, <2>2 DEF StopQueued
<1>5. CASE StopM1
  <2>1. StopQueued(1)' \/ leaked'
    BY <1>1, <1>5, QueueBringsStop DEF StopM1, Motors
  <2>2. StopQueued(m) => StopQueued(m)'
    BY <1>1, <1>5, QueueKeepsStop, StopsStop DEF StopM1, Motors
  <2>3. pc = "stop M1" /\ UNCHANGED armed /\ (leaked => leaked')
    BY <1>5 DEF StopM1, shutoffVars, QueueQikCommand
  <2> QED
    BY <1>1, <2>1, <2>2, <2>3 DEF StopQueued
<1>6. CASE Dequeue
  <2>1. pc = "dequeue" /\ UNCHANGED <<leaked, armed>>
    BY <1>6 DEF Dequeue, shutoffVars
  <2>2. CASE queue = << >> /\ UNCHANGED queue
    <3>1. StopQueued(m) => StopQueued(m)'
      BY <2>2 DEF StopQueued
    <3> QED
      BY <2>1, <3>1 DEF StopQueued
  <2>3. CASE queue # << >> /\ hand' = Head(queue) /\ queue' = Tail(queue) /\ pc' = "spin"
    <3>1. StopQueued(m) => StopQueued(m)' \/ (Stops(hand') /\ hand'.motor = m)
      BY <1>1, <2>3, DequeueKeepsStop
    <3> QED
      BY <2>1, <2>3, <3>1 DEF StopQueued
  <2> QED
    BY <1>6, <2>2, <2>3 DEF Dequeue
<1>7. CASE MarkSent /\ UNCHANGED queueVars
  <2>1. StopQueued(m) => StopQueued(m)'
    BY <1>7 DEF StopQueued, queueVars
  <2>2. pc = "spin" /\ pc' = "write" /\ UNCHANGED <<leaked, hand>> /\ (armed => armed')
    BY <1>7 DEF MarkSent, queueVars, shutoffVars
  <2> QED
    BY <2>1, <2>2 DEF StopQueued
<1> QED
  BY <1>2, <1>3, <1>4, <1>5, <1>6, <1>7 DEF Main, Write

\* The write covers what it starts: it starts a motor only with the shutoff
\* armed, and it is the stop itself that ends the need of a stop to come.
LEMMA WriteKeepsCover ==
  ASSUME CoverInv, Main, pc = "write", NEW m \in Motors, WillTurn(m)'
  PROVE  Cover(m)'
<1>1. /\ Write /\ UNCHANGED <<queue, leaked, motors>>
  BY DEF Main, CheckErrorPin, AskInitialInfo, CheckShutoff, StopM0, StopM1, Dequeue,
         MarkSent, queueVars, qikVars
<1>2. /\ wire \in Seq(Commands) /\ hand \in Commands
      /\ UNCHANGED <<hand, armed>>
  BY <1>1 DEF CoverInv, TypeInv, TypeOK, CommandsOK, Write, sendVars, shutoffVars
<1>3. CASE ~portOpen
  <2>1. UNCHANGED wire
    BY <1>1, <1>3 DEF Write
  <2>2. ~WillTurn(m)
    <3>1. wire = << >> /\ ~motors[m]
      BY <1>3 DEF CoverInv, ClosedQuiet
    <3>2. For(m, wire) = {}
      BY <3>1 DEF For
    <3> QED
      BY <3>1, <3>2 DEF WillTurn
  <2> QED
    BY <1>1, <2>1, <2>2, SamePromise
<1>4. CASE portOpen
  <2>1. wire' = Append(wire, hand)
    BY <1>1, <1>4 DEF Write
  <2>2. CASE hand.expectResponse \/ hand.motor # m
    <3>1. WillTurn(m)
      BY <1>1, <1>2, <2>1, <2>2, WriteOfOther
    <3>2. armed \/ leaked \/ StopQueued(m)
      BY <2>2, <3>1 DEF CoverInv, Kept, Cover, StopComing, StopQueued, Stops
    <3>3. StopQueued(m) => StopQueued(m)'
      BY <1>1 DEF StopQueued
    <3> QED
      BY <1>1, <1>2, <3>2, <3>3 DEF Cover, StopComing, StopQueued
  <2>3. CASE ~hand.expectResponse /\ hand.motor = m
    <3>1. Turns(hand)
      BY <1>2, <2>1, <2>3, WriteOfStop
    <3>2. StartsMotor(hand)
      BY <1>2, <2>3, <3>1, CommandShape, StartsMotorExact
    <3> QED
      BY <1>2, <3>2 DEF CoverInv, HandArmed, Cover
  <2> QED
    BY <2>2, <2>3
<1> QED
  BY <1>3, <1>4

\* As long as the process lives and no full queue has cost the mutex, the automatic
\* shutoff covers every motor at every moment: whatever the clients queue, the line
\* loses and the qik does, a motor turns or is about to only while the shutoff is
\* armed or a stop for it is on its way (lines 472-507 and 565-577).
THEOREM ShutoffCovers == Spec => []Covered
<1>1. Init => CoverInv
  <2> SUFFICES ASSUME Init PROVE CoverInv
    OBVIOUS
  <2>1. TypeInv
    BY InitialType
  <2>2. HandArmed /\ ClosedQuiet
    BY DEF Init, HandArmed, ClosedQuiet
  <2>3. ASSUME NEW m \in Motors PROVE ~WillTurn(m)
    <3>1. wire = << >> /\ ~motors[m]
      BY DEF Init
    <3>2. For(m, wire) = {}
      BY <3>1 DEF For
    <3> QED
      BY <3>1, <3>2 DEF WillTurn
  <2> QED
    BY <2>1, <2>2, <2>3 DEF CoverInv, Kept
<1>2. CoverInv /\ [Next]_vars => CoverInv'
  <2> SUFFICES ASSUME CoverInv, [Next]_vars PROVE CoverInv'
    OBVIOUS
  <2>1. TypeInv' /\ HandArmed' /\ ClosedQuiet'
    BY TypeStep, HandArmedStep, ClosedQuietStep DEF CoverInv
  <2>2. ASSUME NEW m \in Motors, WillTurn(m)' PROVE Cover(m)'
    <3> USE DEF CoverInv, TypeInv, TypeOK
    <3>1. WillTurn(m) => Cover(m)
      BY DEF Kept
    <3>2. ASSUME UNCHANGED <<wire, motors, queue, leaked, pc, hand, armed>> PROVE Cover(m)'
      BY <2>2, <3>1, <3>2, SamePromise DEF Cover, StopComing
    <3>3. CASE Main /\ pc = "write"
      BY <2>2, <3>3, WriteKeepsCover
    <3>4. CASE Main /\ pc # "write"
      <4>1. UNCHANGED <<wire, motors>>
        BY <3>4 DEF Main, Write, lineVars, qikVars
      <4> QED
        BY <2>2, <3>1, <3>4, <4>1, SamePromise, MainKeepsCover
    <3>5. CASE Serial
      BY <3>2, <3>5 DEF Serial, queueVars, shutoffVars, qikVars
    <3>6. ASSUME NEW c \in ClientCommands, Request(c) PROVE Cover(m)'
      <4>1. /\ UNCHANGED <<wire, motors, pc, hand, armed>> /\ QueueQikCommand(c)
            /\ c \in Commands
        BY <3>6, QueuedCommands DEF Request, mainVars, sendVars, shutoffVars, lineVars, qikVars
      <4> QED
        BY <2>2, <3>1, <4>1, SamePromise, QueueKeepsCover DEF CommandsOK
    <3>7. CASE ErrorFunc
      <4>1. /\ UNCHANGED <<wire, motors, pc, hand, armed>> /\ QueueQikCommand(GetErrorByte)
            /\ GetErrorByte \in Commands
        BY <3>7, QueuedCommands
           DEF ErrorFunc, mainVars, sendVars, shutoffVars, lineVars, qikVars
      <4> QED
        BY <2>2, <3>1, <4>1, SamePromise, QueueKeepsCover DEF CommandsOK
    <3>8. CASE Execute
      <4>1. UNCHANGED <<queue, leaked, pc, hand, armed>>
        BY <3>8 DEF Execute, queueVars, mainVars, sendVars, shutoffVars
      <4>2. WillTurn(m)
        BY <2>2, <3>8, ExecuteKeepsPromise
      <4> QED
        BY <3>1, <4>1, <4>2 DEF Cover, StopComing
    <3>9. CASE MeetError
      <4>1. UNCHANGED <<wire, queue, leaked, pc, hand, armed>> /\ (motors'[m] => motors[m])
        BY <3>9 DEF MeetError, queueVars, mainVars, sendVars, shutoffVars, lineVars
      <4>2. WillTurn(m)
        BY <2>2, <4>1 DEF WillTurn
      <4> QED
        BY <3>1, <4>1, <4>2 DEF Cover, StopComing
    <3>10. CASE Exit \/ LoseAnswer \/ Tick \/ UNCHANGED vars
      BY <3>2, <3>10 DEF Exit, LoseAnswer, Tick, vars, queueVars, mainVars, sendVars,
                         shutoffVars, lineVars, qikVars
    <3> QED
      BY <3>3, <3>4, <3>5, <3>6, <3>7, <3>8, <3>9, <3>10 DEF Next
  <2> QED
    BY <2>1, <2>2 DEF CoverInv, Kept
<1>3. CoverInv => Covered
  BY DEF CoverInv, Kept, Cover, Covered
<1> QED
  BY <1>1, <1>2, <1>3, PTL DEF Spec

-----------------------------------------------------------------------------
(***************************************************************************)
(* The answers: until one is given up, at most one query is under way, and *)
(* it is the pending one.                                                  *)
(***************************************************************************)

\* The queries of s.
Asking(s) == {i \in 1 .. Len(s) : s[i].expectResponse}

\* Nothing is under way.
LineQuiet == Asking(wire) = {} /\ Len(answers) = 0 /\ ~hearing

\* A query is first pending, then on the wire, then answered, then heard.
OneAsked ==
  /\ pendingCmd = NoCommand => LineQuiet
  /\ pc = "write" /\ hand.expectResponse => LineQuiet /\ pendingCmd = hand.code
  /\ hearing \/ Len(answers) > 0 => Asking(wire) = {}
  /\ hearing => Len(answers) = 0
  /\ \A i, j \in Asking(wire) : i = j
  /\ \A i \in Asking(wire) : wire[i].code = pendingCmd
  /\ Len(answers) <= 1
  /\ \A i \in 1 .. Len(answers) : answers[i] = pendingCmd

MatchInv == TypeInv /\ (~timedOut => OneAsked)

\* No query has the code that stands for none.
LEMMA QueryCode == ASSUME NEW c \in Commands, c.expectResponse PROVE c.code # NoCommand
<1>1. CASE c = GetErrorByte \/ \E i \in 1 .. InitialCount : c = InitialQueries[i]
  BY <1>1 DEF InitialQueries, GetErrorByte, GetFirmwareVersion, GetConfigurationParameter,
              Query, NoCommand
<1>2. CASE c \in ClientCommands
  BY <1>2, MotorCommandShape, DriverAssumption
<1>3. CASE c = SetForward(0, 0) \/ c = SetForward(1, 0)
  BY <1>3, StopsStop DEF Motors
<1> QED
  BY <1>1, <1>2, <1>3 DEF Commands

\* What lets the line and pendingCmd alone changes nothing.
LEMMA SameAsked ==
  ASSUME OneAsked, UNCHANGED <<wire, answers, hearing, pendingCmd>>,
         pc' # "write" \/ UNCHANGED <<pc, hand>>
  PROVE  OneAsked'
BY DEF OneAsked, LineQuiet, Asking

\* sendCommand() has waited until nothing is pending, or has given up.
LEMMA MarkKeepsAsked ==
  ASSUME MatchInv, MarkSent, UNCHANGED <<wire, answers, hearing>>, ~timedOut'
  PROVE  OneAsked'
<1>1. pendingCmd = NoCommand /\ ~timedOut /\ hand \in Commands
  BY DEF MarkSent, MatchInv, TypeInv, TypeOK, CommandsOK
<1>2. LineQuiet
  BY <1>1 DEF MatchInv, OneAsked
<1>3. LineQuiet'
  BY <1>2 DEF LineQuiet, Asking
<1>4. hand' = hand /\ pendingCmd' = IF hand.expectResponse THEN hand.code ELSE NoCommand
  BY DEF MarkSent
<1> QED
  BY <1>3, <1>4 DEF OneAsked, LineQuiet

\* The query that is written is the one that has been marked as sent.
LEMMA WriteKeepsAsked ==
  ASSUME MatchInv, Write, UNCHANGED hearing, OneAsked
  PROVE  OneAsked'
<1>1. /\ pc = "write" /\ pc' = "dequeue" /\ UNCHANGED <<answers, hand, pendingCmd>>
      /\ wire \in Seq(Commands) /\ hand \in Commands
  BY DEF Write, sendVars, MatchInv, TypeInv, TypeOK, CommandsOK
<1>2. CASE UNCHANGED wire
  BY <1>1, <1>2, SameAsked
<1>3. CASE wire' = Append(wire, hand)
  <2>1. /\ Len(wire) \in Nat /\ Len(wire') = Len(wire) + 1
        /\ wire'[Len(wire) + 1] = hand
        /\ \A i \in 1 .. Len(wire) : wire'[i] = wire[i]
    BY <1>1, <1>3, AppendProperties
  <2>2. Asking(wire)' = Asking(wire) \cup (IF hand.expectResponse THEN {Len(wire) + 1} ELSE {})
    <3>1. 1 .. Len(wire') = (1 .. Len(wire)) \cup {Len(wire) + 1}
      BY <2>1
    <3> QED
      BY <2>1, <3>1 DEF Asking
  <2>3. Asking(wire) \subseteq 1 .. Len(wire)
    BY DEF Asking
  <2>4. CASE hand.expectResponse
    <3>1. LineQuiet /\ pendingCmd = hand.code /\ pendingCmd # NoCommand
      BY <1>1, <2>4, QueryCode DEF OneAsked
    <3>2. Asking(wire)' = {Len(wire) + 1}
      BY <2>2, <2>4, <3>1 DEF LineQuiet
    <3> QED
      BY <1>1, <2>1, <3>1, <3>2 DEF OneAsked, LineQuiet
  <2>5. CASE ~hand.expectResponse
    <3>1. Asking(wire)' = Asking(wire)
      BY <2>2, <2>5
    <3>2. \A i \in Asking(wire) : wire'[i] = wire[i]
      BY <2>1, <2>3
    <3> QED
      BY <1>1, <3>1, <3>2 DEF OneAsked, LineQuiet
  <2> QED
    BY <2>4, <2>5
<1> QED
  BY <1>2, <1>3 DEF Write

\* The qik answers the one query there is.
LEMMA ExecuteKeepsAsked ==
  ASSUME MatchInv, Execute, OneAsked
  PROVE  OneAsked'
<1> DEFINE c == Head(wire)
<1>1. /\ wire \in Seq(Commands) /\ wire # << >> /\ wire' = Tail(wire)
      /\ answers \in Seq(Codes)
      /\ UNCHANGED <<pc, hand, pendingCmd, hearing>>
  BY DEF Execute, mainVars, sendVars, MatchInv, TypeInv, TypeOK, CommandsOK
<1>2. /\ Len(wire) \in Nat \ {0} /\ Len(wire') = Len(wire) - 1
      /\ \A i \in 1 .. Len(wire') : wire'[i] = wire[i + 1]
      /\ c = wire[1] /\ c \in Commands
  BY <1>1, HeadTailProperties, LenProperties, EmptySeq
<1>3. \/ c.expectResponse /\ answers' = Append(answers, c.code)
      \/ ~c.expectResponse /\ UNCHANGED answers
  BY DEF Execute
<1> HIDE DEF c
<1>4. \A i \in Asking(wire)' : i \in Nat \ {0} /\ i + 1 \in Asking(wire) /\ wire'[i] = wire[i + 1]
  BY <1>2 DEF Asking
<1>5. CASE c.expectResponse
  <2>1. 1 \in Asking(wire)
    BY <1>2, <1>5 DEF Asking
  <2>2. pendingCmd # NoCommand /\ Len(answers) = 0 /\ ~hearing /\ c.code = pendingCmd
        /\ ~(pc = "write" /\ hand.expectResponse)
    BY <1>2, <2>1 DEF OneAsked, LineQuiet
  <2>3. Asking(wire)' = {}
    BY <1>4, <2>1 DEF OneAsked
  <2>4. Len(answers') = 1 /\ answers'[1] = pendingCmd
    <3>1. c.code \in Codes
      BY <1>2 DEF Codes
    <3> QED
      BY <1>1, <1>3, <1>5, <2>2, <3>1, AppendProperties
  <2> QED
    BY <1>1, <2>2, <2>3, <2>4 DEF OneAsked
<1>6. CASE ~c.expectResponse
  <2>1. UNCHANGED answers
    BY <1>3, <1>6
  <2>2. Asking(wire) = {} => Asking(wire)' = {}
    BY <1>4
  <2>3. \A i, j \in Asking(wire)' : i = j
    BY <1>4 DEF OneAsked
  <2>4. \A i \in Asking(wire)' : wire'[i].code = pendingCmd
    BY <1>4 DEF OneAsked
  <2> QED
    BY <1>1, <2>1, <2>2, <2>3, <2>4 DEF OneAsked, LineQuiet
<1> QED
  BY <1>5, <1>6

\* Taking the first answer leaves one less.
LEMMA OneAnswerLess ==
  ASSUME MatchInv, answers # << >>, answers' = Tail(answers)
  PROVE  Len(answers) \in Nat \ {0} /\ Len(answers') = Len(answers) - 1
<1>1. answers \in Seq(Codes)
  BY DEF MatchInv, TypeInv, TypeOK, CommandsOK
<1>2. Len(answers) \in Nat \ {0}
  BY <1>1, LenProperties, EmptySeq
<1>3. Len(answers') = Len(answers) - 1
  BY <1>1, HeadTailProperties
<1> QED
  BY <1>2, <1>3

\* The first answer is taken off the line, by the serial thread or by a loss.
LEMMA TakeKeepsAsked ==
  ASSUME OneAsked, Len(answers) \in Nat \ {0}, Len(answers') = Len(answers) - 1,
         UNCHANGED <<wire, pc, hand, pendingCmd>>, hearing' \/ UNCHANGED hearing
  PROVE  OneAsked'
<1>1. Len(answers) = 1 /\ Len(answers') = 0
  BY DEF OneAsked
<1>2. pendingCmd # NoCommand /\ Asking(wire) = {} /\ ~(pc = "write" /\ hand.expectResponse)
  BY <1>1 DEF OneAsked, LineQuiet
<1>3. Asking(wire)' = {}
  BY <1>2 DEF Asking
<1> QED
  BY <1>1, <1>2, <1>3 DEF OneAsked

\* Every step keeps the invariant.
LEMMA AskedStep == ASSUME MatchInv, [Next]_vars PROVE MatchInv'
<1>1. TypeInv'
  BY TypeStep DEF MatchInv
<1> SUFFICES ASSUME ~timedOut' PROVE OneAsked'
  BY <1>1 DEF MatchInv
<1>2. ~timedOut /\ OneAsked
  <2>1. CASE MarkSent
    BY <2>1, Zenon DEF MatchInv, MarkSent
  <2>2. CASE UNCHANGED timedOut
    BY <2>2 DEF MatchInv
  <2>3. CASE Main /\ ~MarkSent
    <3>1. UNCHANGED timedOut
      BY <2>3 DEF Main, CheckErrorPin, AskInitialInfo, CheckShutoff, StopM0, StopM1, Dequeue,
                  Write
    <3> QED
      BY <2>2, <3>1
  <2>4. CASE ~Main
    <3>1. UNCHANGED timedOut
      BY <2>4 DEF Next, vars, mainVars, Serial, Request, Exit, ErrorFunc, Execute, MeetError,
                  LoseAnswer, Tick
    <3> QED
      BY <2>2, <3>1
  <2> QED
    BY <2>1, <2>3, <2>4
<1>3. CASE Main
  <2>1. CASE MarkSent
    BY <1>3, <2>1, MarkKeepsAsked DEF Main, MarkSent, CheckErrorPin, AskInitialInfo,
       CheckShutoff, StopM0, StopM1, Dequeue, Write, lineVars
  <2>2. CASE Write
    BY <1>2, <1>3, <2>2, WriteKeepsAsked DEF Main
  <2>3. CASE ~MarkSent /\ ~Write
    <3>1. UNCHANGED <<wire, answers, hearing, pendingCmd>> /\ pc' # "write"
      BY <1>3, <2>3 DEF Main, CheckErrorPin, AskInitialInfo, CheckShutoff, StopM0, StopM1,
                        Dequeue, lineVars, sendVars
    <3> QED
      BY <1>2, <3>1, SameAsked
  <2> QED
    BY <2>1, <2>2, <2>3
<1>4. CASE Serial
  <2>1. UNCHANGED <<wire, pc, hand>>
    BY <1>4 DEF Serial
  <2>2. CASE Hear
    BY <1>2, <2>1, <2>2, OneAnswerLess, TakeKeepsAsked DEF Hear
  <2>3. CASE ForgetPending
    <3>1. hearing /\ ~hearing' /\ pendingCmd' = NoCommand /\ UNCHANGED answers
      BY <2>3 DEF ForgetPending
    <3>2. Asking(wire) = {} /\ Len(answers) = 0 /\ ~(pc = "write" /\ hand.expectResponse)
      BY <1>2, <3>1 DEF OneAsked, LineQuiet
    <3>3. Asking(wire)' = {}
      BY <2>1, <3>2 DEF Asking
    <3> QED
      BY <2>1, <3>1, <3>2, <3>3 DEF OneAsked, LineQuiet
  <2>4. CASE OpenPort \/ OpenFails
    BY <1>2, <2>1, <2>4, SameAsked DEF OpenPort, OpenFails
  <2> QED
    BY <1>4, <2>2, <2>3, <2>4 DEF Serial
<1>5. CASE Execute
  BY <1>2, <1>5, ExecuteKeepsAsked
<1>6. CASE LoseAnswer
  <2>1. UNCHANGED <<wire, pc, hand, pendingCmd, hearing>> /\ answers # << >>
        /\ answers' = Tail(answers)
    BY <1>6 DEF LoseAnswer, mainVars, sendVars
  <2> QED
    BY <1>2, <2>1, OneAnswerLess, TakeKeepsAsked
<1>7. CASE (\E c \in ClientCommands : Request(c)) \/ Exit \/ ErrorFunc \/ MeetError \/ Tick
           \/ UNCHANGED vars
  <2>1. UNCHANGED <<wire, answers, hearing, pendingCmd, pc, hand>>
    BY <1>7 DEF Request, Exit, ErrorFunc, MeetError, Tick, vars, mainVars, sendVars, lineVars
  <2> QED
    BY <1>2, <2>1, SameAsked
<1> QED
  BY <1>3, <1>4, <1>5, <1>6, <1>7 DEF Next

\* Until the main thread has given up on an answer, at most one query is
\* unanswered and it is the pending one, for any commands of the clients, any time
\* limits and any number of lost answers.
THEOREM AnswersAreMatched == Spec => []AnswersMatch
<1>1. Init => MatchInv
  <2> SUFFICES ASSUME Init PROVE MatchInv
    OBVIOUS
  <2>1. TypeInv
    BY InitialType
  <2>2. wire = << >> /\ answers = << >> /\ ~hearing /\ pc # "write"
    BY DEF Init
  <2>3. Asking(wire) = {} /\ Len(answers) = 0
    BY <2>2 DEF Asking
  <2> QED
    BY <2>1, <2>2, <2>3 DEF MatchInv, OneAsked, LineQuiet
<1>2. MatchInv /\ [Next]_vars => MatchInv'
  BY AskedStep
<1>3. MatchInv => AnswersMatch
  <2> SUFFICES ASSUME MatchInv, OneAsked
               PROVE  /\ Cardinality(Asking(wire)) + Len(answers) <= 1
                      /\ \A i \in Asking(wire) : wire[i].code = pendingCmd
                      /\ \A i \in 1 .. Len(answers) : answers[i] = pendingCmd
    BY DEF MatchInv, AnswersMatch, Asking
  <2>1. answers \in Seq(Codes) /\ Len(answers) \in Nat
    BY DEF MatchInv, TypeInv, TypeOK, CommandsOK
  <2>2. CASE Asking(wire) = {}
    <3>1. Cardinality(Asking(wire)) = 0
      BY <2>2, FS_EmptySet
    <3> QED
      BY <2>1, <2>2, <3>1 DEF OneAsked
  <2>3. CASE Asking(wire) # {}
    <3>1. PICK i \in Asking(wire) : Asking(wire) = {i}
      BY <2>3 DEF OneAsked
    <3>2. Cardinality(Asking(wire)) = 1
      BY <3>1, FS_Singleton
    <3>3. Len(answers) = 0
      BY <2>1, <2>3 DEF OneAsked
    <3> QED
      BY <3>2, <3>3 DEF OneAsked
  <2> QED
    BY <2>2, <2>3
<1> QED
  BY <1>1, <1>2, <1>3, PTL DEF Spec

-----------------------------------------------------------------------------
(***************************************************************************)
(* The shutoff does not strike early.                                      *)
(***************************************************************************)

\* A command that starts a motor waits in the queue.
StartQueued == \E i \in 1 .. Len(queue) : Turns(queue[i])

\* It is on its way to sendCommand(), which arms the shutoff for it.
StartComing == StartQueued \/ (pc = "spin" /\ Turns(hand))

\* The shutoff is set no earlier than MotorTimeout after the last start that a
\* client queued.
SetLater == armed /\ motorLeft + quiet >= MotorTimeout

EarlyInv == TypeInv /\ (quiet <= MotorTimeout => StartComing \/ SetLater)

\* Calls of QueueQikCommand() keep the starts that wait, and bring one.
LEMMA QueueKeepsStart ==
  ASSUME queue \in Seq(Commands), NEW c \in Commands, QueueQikCommand(c)
  PROVE  /\ StartQueued => StartQueued'
         /\ Turns(c) /\ ~leaked' => StartQueued'
<1>1. CASE queue' = Append(queue, c)
  <2>1. /\ Len(queue) \in Nat /\ Len(queue') = Len(queue) + 1
        /\ \A j \in 1 .. Len(queue) : queue'[j] = queue[j]
        /\ queue'[Len(queue) + 1] = c
    BY <1>1, AppendProperties
  <2>2. Len(queue) + 1 \in 1 .. Len(queue') /\ 1 .. Len(queue) \subseteq 1 .. Len(queue')
    BY <2>1
  <2> QED
    BY <2>1, <2>2 DEF StartQueued
<1>2. CASE UNCHANGED queue /\ leaked'
  BY <1>2 DEF StartQueued
<1> QED
  BY <1>1, <1>2 DEF QueueQikCommand

\* A start that waits is taken in hand or goes on waiting.
LEMMA DequeueKeepsStart ==
  ASSUME queue \in Seq(Commands), queue # << >>, hand' = Head(queue),
         queue' = Tail(queue), StartQueued
  PROVE  StartQueued' \/ Turns(hand')
<1>1. PICK i \in 1 .. Len(queue) : Turns(queue[i])
  BY DEF StartQueued
<1>2. /\ Len(queue) \in Nat /\ Len(queue') = Len(queue) - 1
      /\ \A j \in 1 .. Len(queue') : queue'[j] = queue[j + 1]
  BY HeadTailProperties
<1>3. hand' = queue[1]
  OBVIOUS
<1>4. CASE i = 1
  BY <1>1, <1>3, <1>4
<1>5. CASE i # 1
  <2>1. i - 1 \in 1 .. Len(queue') /\ (i - 1) + 1 = i
    BY <1>1, <1>2, <1>5
  <2>2. queue'[i - 1] = queue[i]
    BY <1>2, <2>1
  <2> QED
    BY <1>1, <2>1, <2>2 DEF StartQueued
<1> QED
  BY <1>4, <1>5

\* The main thread: sendCommand() arms the shutoff for every start it takes, and
\* it is disarmed only when it is due, which is MotorTimeout after the last.
LEMMA MainKeepsEarly ==
  ASSUME EarlyInv, quiet <= MotorTimeout, Main
  PROVE  StartComing' \/ SetLater'
<1>0. /\ queue \in Seq(Commands) /\ hand \in Commands /\ motorLeft \in Int /\ quiet \in Nat
      /\ MotorTimeout \in Nat /\ quiet' = quiet /\ armed \in BOOLEAN
  BY DriverAssumption
  DEF EarlyInv, TypeInv, TypeOK, CommandsOK, NumbersOK, FlagsOK, Main, boundVars, httpVars
<1>1. StartComing \/ SetLater
  BY DEF EarlyInv
<1>2. CASE CheckErrorPin \/ AskInitialInfo \/ StopM0 \/ StopM1
  <2>1. UNCHANGED <<armed, motorLeft>> /\ pc # "spin"
    BY <1>2 DEF CheckErrorPin, AskInitialInfo, StopM0, StopM1, shutoffVars
  <2>2. PICK c \in Commands : QueueQikCommand(c) \/ UNCHANGED queue
    <3>1. /\ GetErrorByte \in Commands /\ SetForward(0, 0) \in Commands
          /\ SetForward(1, 0) \in Commands
      BY DEF Commands
    <3>2. CASE AskInitialInfo
      <4>1. asked + 1 \in 1 .. InitialCount
        BY <3>2, QueuedCommands DEF EarlyInv, TypeInv, AskedInv, TypeOK, PlacesOK, AskInitialInfo
      <4> QED
        BY <3>2, <4>1, QueuedCommands DEF AskInitialInfo
    <3> QED
      BY <1>2, <3>1, <3>2 DEF CheckErrorPin, StopM0, StopM1, queueVars
  <2>3. StartQueued => StartQueued'
    BY <1>0, <2>2, QueueKeepsStart DEF StartQueued
  <2>4. SetLater => SetLater'
    BY <1>0, <2>1 DEF SetLater
  <2> QED
    BY <1>1, <2>1, <2>3, <2>4 DEF StartComing
<1>3. CASE CheckShutoff /\ UNCHANGED queueVars
  <2>1. UNCHANGED <<queue, motorLeft>> /\ pc # "spin" /\ armed' = (armed /\ ~ShutoffDue)
    BY <1>3 DEF CheckShutoff, queueVars
  <2>2. SetLater => ~ShutoffDue
    <3>1. motorLeft + quiet >= MotorTimeout => ~(motorLeft < 0)
      BY <1>0
    <3> QED
      BY <3>1 DEF SetLater, ShutoffDue
  <2>3. SetLater => SetLater'
    <3>1. SetLater => armed'
      BY <2>1, <2>2 DEF SetLater
    <3> QED
      BY <1>0, <2>1, <3>1 DEF SetLater
  <2>4. StartQueued' <=> StartQueued
    BY <2>1 DEF StartQueued
  <2> QED
    BY <1>1, <2>1, <2>3, <2>4 DEF StartComing
<1>4. CASE Dequeue
  <2>1. UNCHANGED <<armed, motorLeft>> /\ pc = "dequeue"
    BY <1>4 DEF Dequeue, shutoffVars
  <2>2. SetLater => SetLater'
    BY <1>0, <2>1 DEF SetLater
  <2>3. StartQueued => StartQueued' \/ (pc' = "spin" /\ Turns(hand'))
    <3>1. CASE queue = << >> /\ UNCHANGED <<queue, hand>>
      BY <3>1 DEF StartQueued
    <3>2. CASE queue # << >> /\ hand' = Head(queue) /\ queue' = Tail(queue) /\ pc' = "spin"
      BY <1>0, <3>2, DequeueKeepsStart
    <3> QED
      BY <1>4, <3>1, <3>2 DEF Dequeue
  <2> QED
    BY <1>1, <2>1, <2>2, <2>3 DEF StartComing
<1>5. CASE MarkSent /\ UNCHANGED queueVars
  <2>1. queue' = queue /\ pc = "spin" /\ hand' = hand
        /\ IF StartsMotor(hand) THEN armed' = TRUE /\ motorLeft' = MotorTimeout
                                ELSE UNCHANGED shutoffVars
    BY <1>5 DEF MarkSent, queueVars
  <2>2. StartQueued' <=> StartQueued
    BY <2>1 DEF StartQueued
  <2>3. Turns(hand) => StartsMotor(hand)
    BY <1>0, CommandShape, StartsMotorExact DEF Turns
  <2>4. CASE StartsMotor(hand)
    <3>1. motorLeft' + quiet' >= MotorTimeout
      BY <1>0, <2>1, <2>4
    <3> QED
      BY <2>1, <2>4, <3>1 DEF SetLater
  <2>5. CASE ~StartsMotor(hand)
    BY <1>0, <1>1, <2>1, <2>2, <2>3, <2>5 DEF SetLater, StartComing, shutoffVars
  <2> QED
    BY <2>4, <2>5
<1>6. CASE Write /\ UNCHANGED queueVars
  <2>1. UNCHANGED <<queue, armed, motorLeft>> /\ pc = "write"
    BY <1>6 DEF Write, queueVars, shutoffVars
  <2> QED
    BY <1>0, <1>1, <2>1 DEF SetLater, StartComing, StartQueued
<1> QED
  BY <1>2, <1>3, <1>4, <1>5, <1>6 DEF Main

LEMMA EarlyStep == EarlyInv /\ [Next]_vars => EarlyInv'
<1> SUFFICES ASSUME EarlyInv, [Next]_vars, quiet' <= MotorTimeout
             PROVE  StartComing' \/ SetLater'
  BY TypeStep DEF EarlyInv
<1>0. /\ queue \in Seq(Commands) /\ motorLeft \in Int /\ motorLeft >= -1 /\ quiet \in Nat
      /\ MotorTimeout \in Nat
  BY DriverAssumption
  DEF EarlyInv, TypeInv, TypeOK, CommandsOK, NumbersOK
<1>1. quiet <= MotorTimeout => StartComing \/ SetLater
  BY DEF EarlyInv
<1>2. CASE Main
  <2>1. quiet' = quiet
    BY <1>2 DEF Main, boundVars, httpVars
  <2> QED
    BY <1>2, <2>1, MainKeepsEarly
<1>3. ASSUME NEW c \in ClientCommands, Request(c)
      PROVE  StartComing' \/ SetLater'
  <2>1. QueueQikCommand(c) /\ c \in Commands /\ UNCHANGED <<pc, hand, armed, motorLeft>>
        /\ quiet' = IF Turns(c) /\ ~leaked' THEN 0 ELSE quiet
    BY <1>3 DEF Request, Commands, mainVars, sendVars, shutoffVars
  <2>2. (StartQueued => StartQueued') /\ (Turns(c) /\ ~leaked' => StartQueued')
    BY <1>0, <2>1, QueueKeepsStart
  <2>3. CASE Turns(c) /\ ~leaked'
    BY <2>2, <2>3 DEF StartComing
  <2>4. CASE ~(Turns(c) /\ ~leaked')
    <3>1. quiet' = quiet
      BY <2>1, <2>4
    <3>2. SetLater => SetLater'
      BY <2>1, <3>1 DEF SetLater
    <3> QED
      BY <1>1, <2>1, <2>2, <3>1, <3>2 DEF StartComing
  <2> QED
    BY <2>3, <2>4
<1>4. CASE ErrorFunc
  <2>1. QueueQikCommand(GetErrorByte) /\ GetErrorByte \in Commands
        /\ UNCHANGED <<pc, hand, armed, motorLeft, quiet>>
    BY <1>4 DEF ErrorFunc, Commands, mainVars, sendVars, shutoffVars, boundVars, httpVars
  <2>2. StartQueued => StartQueued'
    BY <1>0, <2>1, QueueKeepsStart
  <2>3. SetLater => SetLater'
    BY <2>1 DEF SetLater
  <2> QED
    BY <1>1, <2>1, <2>2, <2>3 DEF StartComing
<1>5. CASE Serial \/ Exit \/ Execute \/ MeetError \/ LoseAnswer \/ UNCHANGED vars
  <2>1. UNCHANGED <<queue, pc, hand, armed, motorLeft, quiet>>
    BY <1>5 DEF Serial, Exit, Execute, MeetError, LoseAnswer, vars, queueVars, mainVars, sendVars,
                shutoffVars, boundVars, httpVars
  <2> QED
    BY <1>1, <2>1 DEF StartComing, StartQueued, SetLater
<1>6. CASE Tick
  <2>1. /\ UNCHANGED <<queue, pc, hand, armed>>
        /\ motorLeft' = IF motorLeft >= 0 THEN motorLeft - 1 ELSE -1
        /\ quiet' = IF quiet > MotorTimeout THEN quiet ELSE quiet + 1
    BY <1>6 DEF Tick, queueVars
  <2>2. quiet <= MotorTimeout /\ quiet' = quiet + 1
    BY <1>0, <2>1
  <2>3. motorLeft + quiet >= MotorTimeout => motorLeft' + quiet' >= MotorTimeout
    BY <1>0, <2>1, <2>2
  <2>4. SetLater => SetLater'
    BY <2>1, <2>3 DEF SetLater
  <2> QED
    BY <1>1, <2>1, <2>2, <2>4 DEF StartComing, StartQueued
<1> QED
  BY <1>2, <1>3, <1>4, <1>5, <1>6 DEF Next

\* The automatic shutoff never begins before MotorTimeout has passed since the
\* last command to start a motor came in, except for one that waits in the queue
\* at that moment, for any commands, time limits and interleaving with the other
\* threads (lines 472-504, 568-573).
THEOREM ShutoffNotEarly == Spec => NoEarlyShutoff
<1>1. Init => EarlyInv
  <2> SUFFICES ASSUME Init PROVE EarlyInv
    OBVIOUS
  <2>1. TypeInv
    BY InitialType
  <2>2. ~(quiet <= MotorTimeout)
    BY DriverAssumption DEF Init
  <2> QED
    BY <2>1, <2>2 DEF EarlyInv
<1>2. EarlyInv /\ [Next]_vars =>
        [pc = "check" /\ pc' = "stop M0" =>
           \/ quiet > MotorTimeout
           \/ \E i \in 1 .. Len(queue) : Turns(queue[i])]_vars
  <2> SUFFICES ASSUME EarlyInv, Next, pc = "check", pc' = "stop M0", ~(quiet > MotorTimeout)
               PROVE  StartQueued
    BY DEF StartQueued
  <2>1. CASE CheckShutoff
    <3>1. ShutoffDue
      BY <2>1 DEF CheckShutoff
    <3>2. motorLeft \in Int /\ quiet \in Nat /\ MotorTimeout \in Nat
      <4>1. EarlyInv
        OBVIOUS
      <4> QED
        BY ONLY DriverAssumption, <4>1 DEF EarlyInv, TypeInv, TypeOK, NumbersOK
    <3>3. quiet <= MotorTimeout /\ (motorLeft < 0 => ~(motorLeft + quiet >= MotorTimeout))
      <4>1. ~(quiet > MotorTimeout)
        OBVIOUS
      <4> QED
        BY ONLY <3>2, <4>1
    <3> QED
      BY <3>1, <3>3 DEF EarlyInv, StartComing, SetLater, ShutoffDue
  <2>2. CASE ~CheckShutoff
    <3>1. Main \/ pc' = pc
      BY DEF Next, Serial, Request, Exit, ErrorFunc, Execute, MeetError, LoseAnswer, Tick,
             mainVars
    <3> QED
      BY <2>2, <3>1 DEF Main, CheckErrorPin, AskInitialInfo, StopM0, StopM1, Dequeue, MarkSent,
                        Write
  <2> QED
    BY <2>1, <2>2
<1> QED
  BY <1>1, <1>2, EarlyStep, PTL DEF Spec, NoEarlyShutoff
================================================================================

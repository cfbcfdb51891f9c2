------------------------------- MODULE QikDriver -------------------------------
(***************************************************************************)
(* The driver of the qik motor controller, one command at a time: the main *)
(* thread of MotorDriver.c, which dequeues, sends and shuts the motors off *)
(* (Qik2s9v1.c), the serial thread, which hears the answers                *)
(* (SerialPort.c), the callers of the queue, and the qik at the other end. *)
(*                                                                         *)
(* The queue is that of CommandFifo.tla with a limit; QikQueue.tla is how  *)
(* the ring of bytes comes to be one.  Absolute times are kept as what is  *)
(* left of them, in ticks, since the code only compares them with now.     *)
(***************************************************************************)
EXTENDS QikCommands, FiniteSets

CONSTANTS
  InitialParameters,  \* the configuration parameters main() asks for
  ClientCommands,  \* what the HTTP threads may queue
  Capacity,        \* how many commands fit into the ring
  CmdTimeout,      \* CMD_TIMEOUT_USEC, in ticks
  MotorTimeout,    \* MOTOR_TIMEOUT, in ticks
  MayExit,         \* whether an HTTP thread may end the process
  MaxRequests,     \* bound on the commands the HTTP threads queue
  MaxErrors,       \* bound on the errors the qik meets
  MaxLost          \* bound on the answers lost on the line

ASSUME DriverAssumption ==
  /\ InitialParameters \in Seq(0 .. 127)
  /\ ClientCommands \subseteq MotorCommands
  /\ Capacity \in Nat /\ CmdTimeout \in Nat /\ MotorTimeout \in Nat
  /\ MaxRequests \in Nat /\ MaxErrors \in Nat /\ MaxLost \in Nat
  /\ MayExit \in BOOLEAN

VARIABLES
  alive,       \* the process has not ended
  queue,       \* the commands queued
  leaked,      \* qikMutex is held for good by a rejected caller
  pc,          \* where the main thread is
  asked,       \* how many of the initial queries it has queued
  hand,        \* the command sendCommand() is working on
  cmdLeft,     \* cmdSentTimestamp + CMD_TIMEOUT_USEC - now, 0 once it passed
  armed,       \* motorShutoffTime != 0
  motorLeft,   \* motorShutoffTime - now, -1 once it passed
  pendingCmd,  \* the code of the query sent, NoCommand when 0
  portOpen,    \* SerialPortFileDescrptor != -1
  hearing,     \* the serial thread is inside processResponse()
  isrCalls,    \* the calls of errorFunc() that have not queued yet
  wire,        \* the commands written and not yet executed by the qik
  answers,     \* the codes of the queries answered and not yet read
  motors,      \* per motor, whether the qik drives it
  errPin,      \* the ERR pin of the qik is high
  requests, errors, lost,  \* what the bounds bound
  quiet,       \* history: the ticks since an HTTP thread queued a start, capped
  timedOut,    \* history: the main thread has given up on an answer
  dropped      \* history: a request for the error byte was written before the port
               \* was open, and none has reached the qik since

queueVars == <<queue, leaked>>
sendVars == <<hand, cmdLeft, pendingCmd>>
shutoffVars == <<armed, motorLeft>>
mainVars == <<pc, asked, sendVars, shutoffVars, timedOut>>
lineVars == <<wire, answers, dropped>>
qikVars == <<motors, errPin>>
httpVars == <<requests, quiet>>
boundVars == <<httpVars, errors, lost>>

vars == <<alive, queueVars, mainVars, portOpen, hearing, isrCalls, lineVars, qikVars,
          boundVars>>

\* The queries main() queues before its loop.
InitialCount == 1 + Len(InitialParameters)

InitialQueries ==
  [i \in 1 .. InitialCount |->
     IF i = 1 THEN GetFirmwareVersion ELSE GetConfigurationParameter(InitialParameters[i - 1])]

Init ==
  /\ alive = TRUE
  /\ queue = << >> /\ leaked = FALSE
  /\ pc = "gpio" /\ asked = 0
  /\ hand = GetErrorByte /\ cmdLeft = 0 /\ pendingCmd = NoCommand
  /\ armed = FALSE /\ motorLeft = -1
  /\ portOpen = FALSE /\ hearing = FALSE /\ isrCalls = 0
  /\ wire = << >> /\ answers = << >> /\ dropped = FALSE
  /\ motors = [m \in Motors |-> FALSE] /\ errPin \in BOOLEAN
  /\ requests = 0 /\ errors = 0 /\ lost = 0
  /\ quiet = MotorTimeout + 1 /\ timedOut = FALSE

-----------------------------------------------------------------------------
(***************************************************************************)
(* QueueQikCommand(), whole: it waits for the mutex, and a caller that     *)
(* finds no room keeps it.                                                 *)
(***************************************************************************)

QueueQikCommand(c) ==
  /\ ~leaked
  /\ \/ /\ Len(queue) < Capacity
        /\ queue' = Append(queue, c)
        /\ UNCHANGED leaked
     \/ /\ Len(queue) >= Capacity
        /\ leaked' = TRUE
        /\ UNCHANGED queue

-----------------------------------------------------------------------------
(***************************************************************************)
(* The main thread: main(), processQikState(), DequeueQikCommand() and     *)
(* sendCommand().                                                          *)
(***************************************************************************)

\* Mutant of CheckErrorPin: a pin that is high already is not looked at.
IgnoreErrorPin ==
  /\ pc = "gpio"
  /\ pc' = "ask"
  /\ UNCHANGED <<queueVars, asked, sendVars, shutoffVars, timedOut>>

\* initializeGpio() ends with a look at the pin, which may be high already.
CheckErrorPin ==
  /\ pc = "gpio"
  /\ pc' = "ask"
  /\ IF errPin THEN QueueQikCommand(GetErrorByte) ELSE UNCHANGED queueVars
  /\ UNCHANGED <<asked, sendVars, shutoffVars, timedOut>>

AskInitialInfo ==
  /\ pc = "ask"
  /\ QueueQikCommand(InitialQueries[asked + 1])
  /\ asked' = asked + 1
  /\ pc' = IF asked' = InitialCount THEN "check" ELSE "ask"
  /\ UNCHANGED <<sendVars, shutoffVars, timedOut>>

\* Mutant of ShutoffDue: ">=" instead of ">".
ShutoffDueEarly == armed /\ motorLeft <= 0

\* "motorShutoffTime != 0 && getCurrentTime() > motorShutoffTime"
ShutoffDue == armed /\ motorLeft < 0

CheckShutoff ==
  /\ pc = "check"
  /\ pc' = IF ShutoffDue THEN "stop M0" ELSE "dequeue"
  /\ armed' = (armed /\ ~ShutoffDue)
  /\ UNCHANGED <<asked, sendVars, motorLeft, timedOut>>

StopM0 ==
  /\ pc = "stop M0"
  /\ QueueQikCommand(SetForward(0, 0))
  /\ pc' = "stop M1"
  /\ UNCHANGED <<asked, sendVars, shutoffVars, timedOut>>

\* Mutant of StopM1: the motors are counted from one.
StopM2 ==
  /\ pc = "stop M1"
  /\ QueueQikCommand(SetForward(2, 0))
  /\ pc' = "dequeue"
  /\ UNCHANGED <<asked, sendVars, shutoffVars, timedOut>>

StopM1 ==
  /\ pc = "stop M1"
  /\ QueueQikCommand(SetForward(1, 0))
  /\ pc' = "dequeue"
  /\ UNCHANGED <<asked, sendVars, shutoffVars, timedOut>>

\* The while loop of DequeueQikCommand() only ends when the queue is empty.
Dequeue ==
  /\ pc = "dequeue"
  /\ \/ /\ queue = << >>
        /\ pc' = "check"
        /\ UNCHANGED <<queue, hand>>
     \/ /\ queue # << >>
        /\ hand' = Head(queue)
        /\ queue' = Tail(queue)
        /\ pc' = "spin"
  /\ UNCHANGED <<leaked, asked, cmdLeft, pendingCmd, shutoffVars, timedOut>>

\* Mutant of MaySend: the wait for the answer has no time limit.
MaySendOnceAnswered == pendingCmd = NoCommand

\* The negation of the condition sendCommand() spins on.
MaySend == cmdLeft = 0 \/ pendingCmd = NoCommand

\* Mutant of MarkSent: the query sent does not become the pending one.
MarkNothingPending ==
  /\ pc = "spin"
  /\ MaySend
  /\ pc' = "write"
  /\ cmdLeft' = IF hand.expectResponse THEN CmdTimeout ELSE cmdLeft
  /\ IF StartsMotor(hand)
       THEN armed' = TRUE /\ motorLeft' = MotorTimeout
       ELSE UNCHANGED shutoffVars
  /\ UNCHANGED <<asked, hand, pendingCmd, timedOut>>

\* The rest of sendCommand() up to the write.
MarkSent ==
  /\ pc = "spin"
  /\ MaySend
  /\ pc' = "write"
  /\ timedOut' = (timedOut \/ pendingCmd # NoCommand)
  /\ IF hand.expectResponse
       THEN cmdLeft' = CmdTimeout /\ pendingCmd' = hand.code
       ELSE pendingCmd' = NoCommand /\ UNCHANGED cmdLeft
  /\ IF StartsMotor(hand)
       THEN armed' = TRUE /\ motorLeft' = MotorTimeout
       ELSE UNCHANGED shutoffVars
  /\ UNCHANGED <<asked, hand>>

\* writeToSerialPort(): as long as the port is not open nothing is written.  An
\* open port is taken to have room for the whole command.
Write ==
  /\ pc = "write"
  /\ pc' = "dequeue"
  /\ IF portOpen THEN wire' = Append(wire, hand) /\ UNCHANGED dropped
                 ELSE dropped' = (dropped \/ hand = GetErrorByte) /\ UNCHANGED wire
  /\ UNCHANGED <<asked, sendVars, shutoffVars, timedOut, answers>>

Main ==
  /\ alive
  /\ \/ CheckErrorPin /\ UNCHANGED lineVars
     \/ AskInitialInfo /\ UNCHANGED lineVars
     \/ CheckShutoff /\ UNCHANGED <<queueVars, lineVars>>
     \/ StopM0 /\ UNCHANGED lineVars
     \/ StopM1 /\ UNCHANGED lineVars
     \/ Dequeue /\ UNCHANGED lineVars
     \/ MarkSent /\ UNCHANGED <<queueVars, lineVars>>
     \/ Write /\ UNCHANGED queueVars
  /\ UNCHANGED <<alive, portOpen, hearing, isrCalls, qikVars, boundVars>>

-----------------------------------------------------------------------------
(***************************************************************************)
(* The serial thread: readSerial(), which main() starts after the GPIO.    *)
(***************************************************************************)

OpenPort ==
  /\ pc # "gpio" /\ ~portOpen
  /\ portOpen' = TRUE
  /\ UNCHANGED <<alive, hearing, pendingCmd, answers>>

\* The device cannot be opened: exit().
OpenFails ==
  /\ pc # "gpio" /\ ~portOpen
  /\ alive' = FALSE
  /\ UNCHANGED <<portOpen, hearing, pendingCmd, answers>>

\* A byte is read and processResponse() takes it for the answer to the command
\* that is pending just then.
Hear ==
  /\ portOpen /\ ~hearing
  /\ answers # << >>
  /\ answers' = Tail(answers)
  /\ hearing' = TRUE
  /\ UNCHANGED <<alive, portOpen, pendingCmd>>

\* Its last statement.
ForgetPending ==
  /\ hearing
  /\ hearing' = FALSE
  /\ pendingCmd' = NoCommand
  /\ UNCHANGED <<alive, portOpen, answers>>

Serial ==
  /\ alive
  /\ OpenPort \/ OpenFails \/ Hear \/ ForgetPending
  /\ UNCHANGED <<queueVars, pc, asked, hand, cmdLeft, shutoffVars, timedOut, isrCalls,
                 wire, dropped, qikVars, boundVars>>

-----------------------------------------------------------------------------
(***************************************************************************)
(* The other threads.                                                      *)
(***************************************************************************)

\* An HTTP thread queues one of the commands of a request.
Request(c) ==
  /\ alive /\ pc # "gpio"
  /\ requests < MaxRequests
  /\ requests' = requests + 1
  /\ QueueQikCommand(c)
  /\ quiet' = IF Turns(c) /\ ~leaked' THEN 0 ELSE quiet
  /\ UNCHANGED <<alive, mainVars, portOpen, hearing, isrCalls, lineVars, qikVars, errors,
                 lost>>

\* main() can still return: the GPIO or a thread may not be had.
Starting == pc = "gpio" \/ (pc = "ask" /\ asked = 0 /\ requests = 0)

\* The process ends: main() returns, or an HTTP thread calls exit() or execl(), as
\* execute_cgi() does.
Exit ==
  /\ alive /\ (Starting \/ (MayExit /\ pc # "gpio"))
  /\ alive' = FALSE
  /\ UNCHANGED <<queueVars, mainVars, portOpen, hearing, isrCalls, lineVars, qikVars,
                 boundVars>>

\* errorFunc(), on the thread that watches the ERR pin.
ErrorFunc ==
  /\ alive /\ isrCalls > 0
  /\ isrCalls' = isrCalls - 1
  /\ QueueQikCommand(GetErrorByte)
  /\ UNCHANGED <<alive, mainVars, portOpen, hearing, lineVars, qikVars, boundVars>>

-----------------------------------------------------------------------------
(***************************************************************************)
(* The qik, the line and the clock.  The code shows what the driver relies *)
(* on: commands are executed in the order in which they are written, a     *)
(* query is answered by a byte, and the ERR pin is high from an error to   *)
(* the next GET_ERROR_BYTE.                                                *)
(***************************************************************************)

Execute ==
  /\ wire # << >>
  /\ wire' = Tail(wire)
  /\ LET c == Head(wire)
     IN  IF c.expectResponse
           THEN /\ answers' = Append(answers, c.code)
                /\ errPin' = (errPin /\ c.code # "GET_ERROR_BYTE")
                /\ dropped' = (dropped /\ c.code # "GET_ERROR_BYTE")
                /\ UNCHANGED motors
           ELSE /\ motors' = [motors EXCEPT ![c.motor] = Turns(c)]
                /\ UNCHANGED <<answers, errPin, dropped>>
  /\ UNCHANGED <<alive, queueVars, mainVars, portOpen, hearing, isrCalls, boundVars>>

\* An error sets the pin and, if the qik is configured so, stops the motors.
\* A rising edge calls errorFunc(), unless it comes before that was set up.
MeetError ==
  /\ errors < MaxErrors
  /\ errors' = errors + 1
  /\ errPin' = TRUE
  /\ \/ ~errPin /\ isrCalls' = isrCalls + 1
     \/ (errPin \/ pc = "gpio") /\ UNCHANGED isrCalls
  /\ \/ motors' = [m \in Motors |-> FALSE]
     \/ UNCHANGED motors
  /\ UNCHANGED <<alive, queueVars, mainVars, portOpen, hearing, lineVars, httpVars, lost>>

LoseAnswer ==
  /\ lost < MaxLost
  /\ lost' = lost + 1
  /\ answers # << >>
  /\ answers' = Tail(answers)
  /\ UNCHANGED <<alive, queueVars, mainVars, portOpen, hearing, isrCalls, wire, dropped,
                 qikVars, httpVars, errors>>

\* Time passes; nobody looks at the clock once the process has ended.
Tick ==
  /\ alive
  /\ cmdLeft' = IF cmdLeft > 0 THEN cmdLeft - 1 ELSE 0
  /\ motorLeft' = IF motorLeft >= 0 THEN motorLeft - 1 ELSE -1
  /\ quiet' = IF quiet > MotorTimeout THEN quiet ELSE quiet + 1
  /\ UNCHANGED <<alive, queueVars, pc, asked, hand, pendingCmd, armed, timedOut, portOpen,
                 hearing, isrCalls, lineVars, qikVars, requests, errors, lost>>

Next ==
  \/ Main
  \/ Serial
  \/ \E c \in ClientCommands : Request(c)
  \/ Exit
  \/ ErrorFunc
  \/ Execute
  \/ MeetError
  \/ LoseAnswer
  \/ Tick

\* The scheduler runs every thread that can run, the qik executes what it is
\* sent and time passes.  Requests, errors, losses and exits need not happen.
Fairness ==
  /\ WF_vars(Main) /\ WF_vars(Serial) /\ WF_vars(ErrorFunc)
  /\ WF_vars(Execute) /\ WF_vars(Tick)

Spec == Init /\ [][Next]_vars /\ Fairness

-----------------------------------------------------------------------------
(***************************************************************************)
(* Properties.                                                             *)
(***************************************************************************)

Commands ==
  ClientCommands \cup {InitialQueries[i] : i \in 1 .. InitialCount}
    \cup {GetErrorByte, SetForward(0, 0), SetForward(1, 0)}

Codes == {c.code : c \in Commands}

FlagsOK ==
  /\ alive \in BOOLEAN /\ leaked \in BOOLEAN /\ armed \in BOOLEAN
  /\ portOpen \in BOOLEAN /\ hearing \in BOOLEAN /\ errPin \in BOOLEAN
  /\ timedOut \in BOOLEAN /\ dropped \in BOOLEAN

CommandsOK ==
  /\ queue \in Seq(Commands) /\ wire \in Seq(Commands) /\ hand \in Commands
  /\ answers \in Seq(Codes) /\ pendingCmd \in Codes \cup {NoCommand}

PlacesOK ==
  /\ pc \in {"gpio", "ask", "check", "stop M0", "stop M1", "dequeue", "spin", "write"}
  /\ asked \in 0 .. InitialCount
  /\ motors \in [Motors -> BOOLEAN]

NumbersOK ==
  /\ cmdLeft \in 0 .. CmdTimeout /\ motorLeft \in -1 .. MotorTimeout
  /\ quiet \in 0 .. MotorTimeout + 1
  /\ isrCalls \in Nat /\ requests \in Nat /\ errors \in Nat /\ lost \in Nat

\* The types of the variables.
TypeOK == FlagsOK /\ CommandsOK /\ PlacesOK /\ NumbersOK

\* The commands of s that drive motor m.
For(m, s) == {i \in 1 .. Len(s) : ~s[i].expectResponse /\ s[i].motor = m}

\* Motor m will turn once the qik has executed what is on the wire.
WillTurn(m) ==
  \/ motors[m] /\ For(m, wire) = {}
  \/ \E i \in For(m, wire) : /\ Turns(wire[i])
                             /\ \A j \in For(m, wire) : j <= i

\* A command that stops motor m is on its way to the wire.
StopComing(m) ==
  \/ pc = "stop M0" \/ (pc = "stop M1" /\ m = 1)
  \/ pc \in {"spin", "write"} /\ Stops(hand) /\ hand.motor = m
  \/ \E i \in For(m, queue) : Stops(queue[i])

\* As long as the process lives and the mutex is not lost, the automatic shutoff
\* covers every motor at every moment (lines 472-507 and 565-577): a motor turns
\* or is about to only while the shutoff is armed or a stop for it is coming,
\* whatever the threads, the line and the qik do.  Nothing covers a motor once
\* the process has ended, or nobody gets the mutex any more.
Covered ==
  alive /\ ~leaked => \A m \in Motors : WillTurn(m) => armed \/ StopComing(m)

\* The answer the main thread waits for is the one that arrives: until it has
\* given up on one, at most one query is unanswered and it is the pending one
\* (lines 451-470, 515-559).
AnswersMatch ==
  ~timedOut => LET asking == {i \in 1 .. Len(wire) : wire[i].expectResponse}
               IN  /\ Cardinality(asking) + Len(answers) <= 1
                   /\ \A i \in asking : wire[i].code = pendingCmd
                   /\ \A i \in 1 .. Len(answers) : answers[i] = pendingCmd

\* No answer can hold the main thread up: the spin of sendCommand() ends even
\* if the byte is lost or was heard before it was waited for (lines 454-458).
SpinEnds == (alive /\ pc = "spin") ~> (~alive \/ pc # "spin")

\* A motor that turns is stopped in the end, although no client ever asks for
\* it, unless the process ends or the mutex is lost before that (lines 562-577).
MotorsStop == \A m \in Motors : motors[m] ~> ~motors[m] \/ ~alive \/ leaked

\* An error the qik signals is read and so cleared in the end, also one that was
\* there from the start (MotorDriver.c lines 26-30 and 114-125), unless the
\* process ends or the mutex is lost before that, or the request for this very
\* error was written before the port was open.
ErrorsRead == errPin ~> ~errPin \/ dropped \/ ~alive \/ leaked

\* The shutoff does not strike early: not before MotorTimeout has passed since
\* the last command to start a motor came in, save one that waits in the queue
\* at that very moment (lines 472-504, 568-573).
NoEarlyShutoff ==
  [][pc = "check" /\ pc' = "stop M0" =>
       \/ quiet > MotorTimeout
       \/ \E i \in 1 .. Len(queue) : Turns(queue[i])]_vars

\* What the comment of processQikState() says, "Turn off the motors if it's
\* been 2 seconds without a command" (line 562).
MotorsShutOff == \A m \in Motors : motors[m] ~> ~motors[m]
================================================================================

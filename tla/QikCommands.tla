------------------------------ MODULE QikCommands ------------------------------
(***************************************************************************)
(* The commands that MotorDriver/Qik2s9v1.c builds for the qik: what       *)
(* getFirmwareVersion(), ..., setM1Reverse() put into msg[] and the flag   *)
(* they pass along.  The start byte and the device id are the same in all  *)
(* of them and are left out.                                               *)
(***************************************************************************)
EXTENDS Integers, Sequences

Motors == {0, 1}

\* Stands for "no command", the 0 of pendingCmd.
NoCommand == "none"

\* A command that the qik answers with one byte.
Query(code, parameter) ==
  [code |-> code, motor |-> 0, arg |-> parameter, expectResponse |-> TRUE]

GetFirmwareVersion == Query("GET_FIRMWARE_VERSION", 0)

GetErrorByte == Query("GET_ERROR_BYTE", 0)

GetConfigurationParameter(parameter) == Query("GET_CONFIG_PARAM", parameter)

SetConfigurationParameter(parameter) == Query("SET_CONFIG_PARAM", parameter)

\* A command that drives a motor and that the qik does not answer.
Drive(code, motor, arg) ==
  [code |-> code, motor |-> motor, arg |-> arg, expectResponse |-> FALSE]

SetCoast(motor) == Drive("COAST", motor, 0)

\* A speed of eight bits is sent as seven bits and a choice of the code.
SetForward(motor, speed) ==
  IF speed > 127 THEN Drive("FORWARD_128", motor, speed - 128)
                 ELSE Drive("FORWARD", motor, speed)

SetReverse(motor, speed) ==
  IF speed > 127 THEN Drive("REVERSE_128", motor, speed - 128)
                 ELSE Drive("REVERSE", motor, speed)

\* All that the setters of the motors can build.
MotorCommands ==
  {SetCoast(motor) : motor \in Motors}
    \cup {SetForward(motor, speed) : motor \in Motors, speed \in 0 .. 255}
    \cup {SetReverse(motor, speed) : motor \in Motors, speed \in 0 .. 255}

(***************************************************************************)
(* What processMotorControl() makes of the two halves of a POST: a verb    *)
(* stands for a speed, a direction for a command to either motor.          *)
(***************************************************************************)

Verbs == {"START", "STOP"}

SpeedFor(verb) == IF verb = "START" THEN 255 ELSE 0

M0Command(direction, speed) ==
  IF direction \in {"UP", "LEFT"} THEN SetForward(0, speed) ELSE SetReverse(0, speed)

\* Mutant of M1Command: the motors are counted from one.
M2Command(direction, speed) ==
  IF direction \in {"UP", "RIGHT"} THEN SetForward(2, speed) ELSE SetReverse(2, speed)

M1Command(direction, speed) ==
  IF direction \in {"UP", "RIGHT"} THEN SetForward(1, speed) ELSE SetReverse(1, speed)

\* Mutant of StartsMotor: the codes for the upper half of the speeds are
\* treated like the others.
StartsMotorByArgument(c) ==
  c.code \in {"FORWARD", "REVERSE", "FORWARD_128", "REVERSE_128"} /\ c.arg # 0

\* The commands for which sendCommand() arms the automatic shutoff.
StartsMotor(c) ==
  \/ c.code \in {"FORWARD", "REVERSE"} /\ c.arg # 0
  \/ c.code \in {"FORWARD_128", "REVERSE_128"}

\* The speed at which the qik drives the motor once it has executed c.
Speed(c) == IF c.code \in {"FORWARD_128", "REVERSE_128"} THEN c.arg + 128 ELSE c.arg

Turns(c) == ~c.expectResponse /\ Speed(c) > 0

Stops(c) == ~c.expectResponse /\ Speed(c) = 0
================================================================================

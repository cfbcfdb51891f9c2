-------------------------------- MODULE Telebra --------------------------------
(***************************************************************************)
(* From the hand on the key to the motors: the page of RemotePage.tla, its *)
(* POSTs, which may overtake each other or get lost, the HTTP threads that *)
(* turn each into two commands (Qik2s9v1.c 305-354), and the automatic     *)
(* shutoff (451-577).                                                      *)
(*                                                                         *)
(* Commands take effect here in the order in which they are queued, before *)
(* time passes: how the queue, the main thread, the line and the qik come  *)
(* to that is in QikQueue.tla and QikDriver.tla.                           *)
(* A POST is taken apart undisturbed: what else strtok() may come to is in *)
(* MotorControl.tla.                                                       *)
(***************************************************************************)
EXTENDS RemotePage

CONSTANTS
  MotorTimeout,  \* MOTOR_TIMEOUT, in ticks
  MaxDelay,      \* the ticks a POST takes at most to be served, if it is
  MaxLost        \* bound on the POSTs that are lost

ASSUME TelebraAssumption == MotorTimeout \in Nat /\ MaxDelay \in Nat /\ MaxLost \in Nat

VARIABLES
  motors,     \* per motor, which way the qik drives it
  armed,      \* motorShutoffTime != 0
  motorLeft,  \* motorShutoffTime - now, -1 once it passed
  stopping,   \* the main thread is between the two stops of the shutoff
  lost,       \* what MaxLost bounds
  idle        \* history: the ticks since a handler of the page last ran with
              \* something held down, capped; not counted once muddled

carVars == <<motors, armed, motorLeft, stopping>>
vars == <<pageVars, carVars, lost, idle>>

\* The longest a motor turns after everything was let go, in ticks: a START
\* sent at the last moment, its delay, and the shutoff, which compares with ">".
Grace == MaxDelay + MotorTimeout + 1

Init ==
  /\ PageInit
  /\ motors = [m \in Motors |-> "stop"]
  /\ armed = FALSE /\ motorLeft = -1 /\ stopping = FALSE
  /\ lost = 0 /\ idle = 0

-----------------------------------------------------------------------------
(***************************************************************************)
(* A command reaches the qik, past sendCommand().                          *)
(***************************************************************************)

Heading(c) ==
  IF ~Turns(c) THEN "stop"
  ELSE IF c.code \in {"FORWARD", "FORWARD_128"} THEN "forward" ELSE "reverse"

Arm(c) ==
  IF StartsMotor(c) THEN armed' = TRUE /\ motorLeft' = MotorTimeout
                    ELSE UNCHANGED <<armed, motorLeft>>

Drives(c) == motors' = [motors EXCEPT ![c.motor] = Heading(c)]

-----------------------------------------------------------------------------
(***************************************************************************)
(* The HTTP thread of a POST: processMotorControl() queues its two         *)
(* commands one at a time.                                                 *)
(***************************************************************************)

QueueM0(i) ==
  /\ posts[i].queued = 0
  /\ LET c == M0Command(posts[i].dir, SpeedFor(posts[i].verb))
     IN  Drives(c) /\ Arm(c)
  /\ posts' = [posts EXCEPT ![i].queued = 1]

\* The thread is done.
QueueM1(i) ==
  /\ posts[i].queued = 1
  /\ LET c == M1Command(posts[i].dir, SpeedFor(posts[i].verb))
     IN  Drives(c) /\ Arm(c)
  /\ posts' = RemoveAt(posts, i)

Serve(i) ==
  /\ QueueM0(i) \/ QueueM1(i)
  /\ UNCHANGED <<userVars, keyPressed, timer, orphan, stopping, lost, idle>>

\* The connection fails, or is one of those httpdMain() never answers.
LosePost(i) ==
  /\ posts[i].queued = 0
  /\ lost < MaxLost /\ lost' = lost + 1
  /\ posts' = RemoveAt(posts, i)
  /\ UNCHANGED <<userVars, keyPressed, timer, orphan, carVars, idle>>

-----------------------------------------------------------------------------
(***************************************************************************)
(* processQikState(), on the main thread.                                  *)
(***************************************************************************)

ShutoffDue == armed /\ motorLeft < 0

\* The shutoff is disarmed and the first of its two stops queued.
BeginShutoff ==
  /\ ShutoffDue /\ ~stopping
  /\ armed' = FALSE
  /\ Drives(SetForward(0, 0))
  /\ stopping' = TRUE
  /\ UNCHANGED motorLeft

\* Mutant of EndShutoff: the first motor is named again.
EndShutoffOfM0 ==
  /\ stopping
  /\ Drives(SetForward(0, 0))
  /\ stopping' = FALSE
  /\ UNCHANGED <<armed, motorLeft>>

EndShutoff ==
  /\ stopping
  /\ Drives(SetForward(1, 0))
  /\ stopping' = FALSE
  /\ UNCHANGED <<armed, motorLeft>>

ProcessQikState ==
  /\ BeginShutoff \/ EndShutoff
  /\ UNCHANGED <<pageVars, lost, idle>>

-----------------------------------------------------------------------------
\* Time passes, but not while a POST has waited its longest or the main thread
\* has something to do.
Tick ==
  /\ \A i \in 1 .. Len(posts) : posts[i].age < MaxDelay
  /\ ~ShutoffDue /\ ~stopping
  /\ posts' = [i \in 1 .. Len(posts) |-> [posts[i] EXCEPT !.age = @ + 1]]
  /\ timer' = [d \in Directions |-> Elapse(timer[d])]
  /\ orphan' = [d \in Directions |-> Elapse(orphan[d])]
  /\ motorLeft' = IF motorLeft >= 0 THEN motorLeft - 1 ELSE -1
  /\ idle' = IF muddled \/ idle > Grace THEN idle ELSE idle + 1
  /\ UNCHANGED <<userVars, keyPressed, motors, armed, stopping, lost>>

PageStep ==
  /\ User \/ \E d \in Directions : Repeat(d)
  /\ idle' = IF HandsOff' /\ ~muddled' THEN idle ELSE 0
  /\ UNCHANGED <<carVars, lost>>

Next ==
  \/ PageStep
  \/ \E i \in 1 .. Len(posts) : Serve(i) \/ LosePost(i)
  \/ ProcessQikState
  \/ Tick

\* Time passes, a timeout that is over is handled, a POST that is not lost is
\* served, the main thread runs.  Nothing is assumed of the user.
Fairness ==
  /\ WF_vars(Tick)
  /\ WF_vars(/\ \E d \in Directions : Repeat(d)
             /\ idle' = IF HandsOff' /\ ~muddled' THEN idle ELSE 0
             /\ UNCHANGED <<carVars, lost>>)
  /\ WF_vars(\E i \in 1 .. Len(posts) : Serve(i))
  /\ WF_vars(ProcessQikState)

Spec == Init /\ [][Next]_vars /\ Fairness

-----------------------------------------------------------------------------
(***************************************************************************)
(* Properties.                                                             *)
(***************************************************************************)

\* The types of the variables.
TypeOK ==
  /\ PageTypeOK
  /\ posts \in Seq([dir : Directions, verb : Verbs, age : 0 .. MaxDelay, queued : 0 .. 1])
  /\ motors \in [Motors -> {"forward", "reverse", "stop"}]
  /\ armed \in BOOLEAN /\ stopping \in BOOLEAN
  /\ motorLeft \in -1 .. MotorTimeout
  /\ lost \in 0 .. MaxLost /\ idle \in 0 .. Grace + 1

\* As long as no button is held together with a key or a second button and each
\* release is seen where the press was, the page repeats what is held and nothing
\* else: no timeout is left when all hands are off, and none that no handle names,
\* however many keys are held (index.html lines 32-95).
RepeatsWhatIsHeld ==
  ~muddled => /\ HandsOff => keyPressed = NoDir
              /\ \A d \in Directions : orphan[d] = Unset
              /\ \A d \in Directions : timer[d] # Unset => d = keyPressed

\* The vehicle stands still once everything has been let go for the time of the
\* shutoff and the delay of a POST, although a START may overtake the STOP
\* after it and the STOP may get lost (Qik2s9v1.c lines 471-507 and 561-577).
StopsInTime == ~muddled /\ HandsOff /\ idle > Grace => \A m \in Motors : motors[m] = "stop"

\* Which way the motors turn for a direction: both forward or both reverse, or
\* against each other.
Course(d) ==
  [m \in Motors |-> IF d = "UP" \/ (d = "LEFT" /\ m = 0) \/ (d = "RIGHT" /\ m = 1)
                      THEN "forward" ELSE "reverse"]

\* A direction that stays on for good is driven again and again, whatever
\* commands of other requests came between its own two, got lost or were
\* overtaken, and however often the shutoff struck (index.html lines 81-88,
\* Qik2s9v1.c lines 330-349).
HeldIsDriven ==
  \A d \in Directions :
    <>[](keyPressed = d /\ \A e \in Directions \ {d} : timer[e] = Unset /\ orphan[e] = Unset)
      => []<>(motors = Course(d))
================================================================================

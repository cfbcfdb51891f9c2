------------------------------- MODULE RemotePage ------------------------------
(***************************************************************************)
(* The page of MotorDriver/htdocs/index.html: arrow keys and buttons start *)
(* and stop a direction, a timeout repeats the START while it is held, and *)
(* each START or STOP is a POST of its own.  Its script runs one handler   *)
(* at a time.                                                              *)
(***************************************************************************)
EXTENDS QikCommands, SequencesExt

CONSTANTS
  Directions,    \* the directions that have a key and a button
  NoDir,         \* directions.NO_DIR
  RepeatPeriod,  \* the timeout of startMotor(), in ticks
  MaxInputs,     \* bound on what the user does
  MaxPosts       \* bound on the POSTs under way; a browser has one too

ASSUME PageAssumption ==
  /\ Directions \subseteq {"UP", "DOWN", "LEFT", "RIGHT"}
  /\ NoDir \notin Directions
  /\ RepeatPeriod \in Nat /\ MaxInputs \in Nat /\ MaxPosts \in Nat

VARIABLES
  keys,        \* the arrow keys held down
  button,      \* the button the mouse holds down
  keyPressed,  \* the direction the page takes for held
  timer,       \* per direction, what is left of the timeout timerHandle[dir] names
  orphan,      \* per direction, the same for a timeout whose handle was overwritten
  posts,       \* the POSTs under way
  inputs,      \* what MaxInputs bounds
  muddled      \* history: a key and a button, or two buttons, were held at a time, or
               \* a release was unseen or seen by another button

userVars == <<keys, button, inputs, muddled>>
pageVars == <<userVars, keyPressed, timer, orphan, posts>>

\* No timeout is set.
Unset == -1

PageInit ==
  /\ keys = {} /\ button = NoDir
  /\ keyPressed = NoDir
  /\ timer = [d \in Directions |-> Unset]
  /\ orphan = [d \in Directions |-> Unset]
  /\ posts = << >>
  /\ inputs = 0 /\ muddled = FALSE

-----------------------------------------------------------------------------
(***************************************************************************)
(* The functions of the script.                                            *)
(***************************************************************************)

\* Mutant of SendMotorPost: the direction is taken from keyPressed.
SendForKeyPressed(d, verb) ==
  /\ Len(posts) < MaxPosts
  /\ posts' = Append(posts, [dir |-> keyPressed, verb |-> verb, age |-> 0, queued |-> 0])

\* sendMotorPost(): the POST of one request does not wait for the one before.
SendMotorPost(d, verb) ==
  /\ Len(posts) < MaxPosts
  /\ posts' = Append(posts, [dir |-> d, verb |-> verb, age |-> 0, queued |-> 0])

\* Overwriting timerHandle[d] leaves a timeout that is still set without one.
\* One such timeout for each direction is the bound.
Forget(d, left) ==
  /\ orphan[d] = Unset \/ left = Unset
  /\ orphan' = IF left = Unset THEN orphan ELSE [orphan EXCEPT ![d] = left]

\* Mutant of SetTimer: the START is not repeated.
PostOnce(d) ==
  /\ timer' = [timer EXCEPT ![d] = Unset]
  /\ keyPressed' = d
  /\ SendMotorPost(d, "START")

SetTimer(d) ==
  /\ timer' = [timer EXCEPT ![d] = RepeatPeriod]
  /\ keyPressed' = d
  /\ SendMotorPost(d, "START")

\* startMotor() called by an event.
StartMotor(d) == SetTimer(d) /\ Forget(d, timer[d])

\* Mutant of StopMotor: clearTimeout() is forgotten.
StopWithoutClear(d) ==
  /\ SendMotorPost(d, "STOP")
  /\ keyPressed' = NoDir
  /\ UNCHANGED <<timer, orphan>>

StopMotor(d) ==
  /\ SendMotorPost(d, "STOP")
  /\ timer' = [timer EXCEPT ![d] = Unset]
  /\ keyPressed' = NoDir
  /\ UNCHANGED orphan

NoCall == UNCHANGED <<keyPressed, timer, orphan, posts>>

-----------------------------------------------------------------------------
(***************************************************************************)
(* The user.                                                               *)
(***************************************************************************)

Input == inputs < MaxInputs /\ inputs' = inputs + 1

\* document.onkeydown, also called over and over while a key is held down.
KeyDown(d) ==
  /\ keys' = keys \cup {d}
  /\ IF d \in keys THEN keyPressed = NoDir /\ UNCHANGED inputs ELSE Input
  /\ IF keyPressed = NoDir THEN StartMotor(d) ELSE NoCall
  /\ muddled' = (muddled \/ button # NoDir)
  /\ UNCHANGED button

\* document.onkeyup
KeyUp(d) ==
  /\ d \in keys /\ keys' = keys \ {d}
  /\ Input
  /\ IF d = keyPressed THEN StopMotor(d) ELSE NoCall
  /\ UNCHANGED <<button, muddled>>

\* onmousedown of a button, which looks neither at keyPressed nor whether another
\* button of the mouse is down already.
MouseDown(d) ==
  /\ button' = d
  /\ Input
  /\ StartMotor(d)
  /\ muddled' = (muddled \/ keys # {} \/ button # NoDir)
  /\ UNCHANGED keys

\* onmouseup of a button, wherever the mouse was pressed.  Another button of the
\* mouse may still be down, if one was pressed too.
MouseUp(d) ==
  /\ button' = NoDir \/ (muddled /\ button' = button)
  /\ Input
  /\ StopMotor(d)
  /\ muddled' = (muddled \/ d # button)
  /\ UNCHANGED keys

\* The mouse is let go beside the button, or the keys after the page has lost
\* the focus: no handler is called.
UnseenRelease ==
  /\ \/ button # NoDir /\ button' = NoDir /\ UNCHANGED keys
     \/ keys # {} /\ keys' = {} /\ UNCHANGED button
  /\ Input
  /\ muddled' = TRUE
  /\ NoCall

\* The timeout of a direction is over: startMotor() again.  Its own handle is
\* overwritten, or that of the timeout set after it.
Repeat(d) ==
  /\ \/ timer[d] = 0 /\ UNCHANGED orphan
     \/ orphan[d] = 0 /\ orphan' = [orphan EXCEPT ![d] = timer[d]]
  /\ SetTimer(d)
  /\ UNCHANGED userVars

User ==
  \/ \E d \in Directions : KeyDown(d) \/ KeyUp(d) \/ MouseDown(d) \/ MouseUp(d)
  \/ UnseenRelease

\* What a tick does to a timeout.
Elapse(left) == IF left > 0 THEN left - 1 ELSE left

\* Nothing is held down.
HandsOff == keys = {} /\ button = NoDir

\* The types of the variables.
PageTypeOK ==
  /\ keys \subseteq Directions
  /\ button \in Directions \cup {NoDir} /\ keyPressed \in Directions \cup {NoDir}
  /\ timer \in [Directions -> {Unset} \cup 0 .. RepeatPeriod]
  /\ orphan \in [Directions -> {Unset} \cup 0 .. RepeatPeriod]
  /\ inputs \in 0 .. MaxInputs /\ muddled \in BOOLEAN
  /\ Len(posts) <= MaxPosts
================================================================================

------------------------------ MODULE TelebraProofs -----------------------------
(***************************************************************************)
(* Theorems about the page and the vehicle in Telebra.tla, for any         *)
(* directions, whatever the user does with keys and mouse and for however  *)
(* long, and for any periods, limits, delays and losses.                   *)
(***************************************************************************)
EXTENDS Telebra, SequenceTheorems, TLAPS

PageTyped ==
  /\ keys \subseteq Directions
  /\ button \in Directions \cup {NoDir} /\ keyPressed \in Directions \cup {NoDir}
  /\ timer \in [Directions -> Int] /\ orphan \in [Directions -> Int]

\* The one direction that may be repeated is that of the button that is held, or
\* of one of the keys.
RepeatsOne ==
  ~muddled =>
    /\ \A d \in Directions : orphan[d] = Unset
    /\ \A d \in Directions : timer[d] # Unset => d = keyPressed
    /\ button # NoDir => keys = {} /\ keyPressed = button
    /\ button = NoDir => keyPressed \in keys \cup {NoDir}

IInv == PageTyped /\ RepeatsOne

\* Nothing is held and nothing set in the beginning.
LEMMA InitInv == Init => IInv
BY DEF Init, PageInit, IInv, PageTyped, RepeatsOne, Unset

\* What is typed stays so.
LEMMA UserTyped == ASSUME IInv, User \/ \E d \in Directions : Repeat(d) PROVE PageTyped'
<1>1. CASE \E d \in Directions : KeyDown(d)
  BY <1>1, TelebraAssumption, PageAssumption
  DEF KeyDown, StartMotor, SetTimer, Forget, NoCall, IInv, PageTyped, Unset
<1>2. CASE \E d \in Directions : KeyUp(d)
  BY <1>2 DEF KeyUp, StopMotor, NoCall, IInv, PageTyped, Unset
<1>3. CASE \E d \in Directions : MouseDown(d)
  BY <1>3, PageAssumption
  DEF MouseDown, StartMotor, SetTimer, Forget, IInv, PageTyped, Unset
<1>4. CASE \E d \in Directions : MouseUp(d)
  BY <1>4 DEF MouseUp, StopMotor, IInv, PageTyped, Unset
<1>5. CASE UnseenRelease
  BY <1>5 DEF UnseenRelease, NoCall, IInv, PageTyped
<1>6. CASE \E d \in Directions : Repeat(d)
  BY <1>6, PageAssumption DEF Repeat, SetTimer, userVars, IInv, PageTyped
<1> QED
  BY <1>1, <1>2, <1>3, <1>4, <1>5, <1>6 DEF User

\* A handler starts a direction only when none is on, and stops the one that is.
LEMMA UserRepeats == ASSUME IInv, User \/ \E d \in Directions : Repeat(d) PROVE RepeatsOne'
<1> SUFFICES ASSUME ~muddled'
             PROVE  /\ \A d \in Directions : orphan'[d] = Unset
                    /\ \A d \in Directions : timer'[d] # Unset => d = keyPressed'
                    /\ button' # NoDir => keys' = {} /\ keyPressed' = button'
                    /\ button' = NoDir => keyPressed' \in keys' \cup {NoDir}
  BY DEF RepeatsOne
<1>1. ~muddled
  BY DEF User, KeyDown, KeyUp, MouseDown, MouseUp, UnseenRelease, Repeat, userVars
<1>2. /\ \A d \in Directions : orphan[d] = Unset
      /\ \A d \in Directions : timer[d] # Unset => d = keyPressed
      /\ button # NoDir => keys = {} /\ keyPressed = button
      /\ button = NoDir => keyPressed \in keys \cup {NoDir}
  BY <1>1 DEF IInv, RepeatsOne
<1>3. ASSUME NEW d \in Directions, KeyDown(d), keyPressed = NoDir
      PROVE  /\ orphan' = orphan /\ timer' = [timer EXCEPT ![d] = RepeatPeriod]
             /\ keyPressed' = d /\ button' = NoDir /\ d \in keys'
  <2>1. timer[d] = Unset
    BY <1>2, <1>3, PageAssumption
  <2>2. button = NoDir
    BY <1>3 DEF KeyDown
  <2> QED
    BY <1>3, <2>1, <2>2 DEF KeyDown, StartMotor, SetTimer, Forget
<1>4. CASE \E d \in Directions : KeyDown(d)
  <2>1. PICK d \in Directions : KeyDown(d)
    BY <1>4
  <2>2. CASE keyPressed = NoDir
    BY <1>2, <1>3, <2>1, <2>2, PageAssumption DEF IInv, PageTyped
  <2>3. CASE keyPressed # NoDir
    BY <1>2, <2>1, <2>3 DEF KeyDown, NoCall
  <2> QED
    BY <2>2, <2>3
<1>5. CASE \E d \in Directions : KeyUp(d)
  <2>1. PICK d \in Directions : KeyUp(d)
    BY <1>5
  <2>2. button = NoDir /\ button' = NoDir /\ keys' = keys \ {d} /\ d # NoDir
    BY <1>2, <2>1, PageAssumption DEF KeyUp
  <2>3. CASE d = keyPressed
    BY <1>2, <2>1, <2>2, <2>3 DEF KeyUp, StopMotor, IInv, PageTyped
  <2>4. CASE d # keyPressed
    BY <1>2, <2>1, <2>2, <2>4 DEF KeyUp, NoCall
  <2> QED
    BY <2>3, <2>4
<1>6. CASE \E d \in Directions : MouseDown(d)
  <2>1. PICK d \in Directions : MouseDown(d)
    BY <1>6
  <2>2. keys = {} /\ keys' = {} /\ button = NoDir /\ keyPressed = NoDir
    BY <1>2, <2>1 DEF MouseDown
  <2>3. timer[d] = Unset
    BY <1>2, <2>2, PageAssumption
  <2>4. /\ orphan' = orphan /\ timer' = [timer EXCEPT ![d] = RepeatPeriod]
        /\ keyPressed' = d /\ button' = d
    BY <2>1, <2>3 DEF MouseDown, StartMotor, SetTimer, Forget
  <2> QED
    BY <1>2, <2>2, <2>4, PageAssumption DEF IInv, PageTyped
<1>7. CASE \E d \in Directions : MouseUp(d)
  <2>1. PICK d \in Directions : MouseUp(d)
    BY <1>7
  <2>2. d = button /\ button' = NoDir /\ keys' = {} /\ keyPressed' = NoDir
    BY <1>1, <1>2, <2>1, PageAssumption DEF MouseUp, StopMotor
  <2> QED
    BY <1>2, <2>1, <2>2 DEF MouseUp, StopMotor, IInv, PageTyped
<1>8. CASE UnseenRelease
  BY <1>8 DEF UnseenRelease
<1>9. CASE \E d \in Directions : Repeat(d)
  <2>1. PICK d \in Directions : Repeat(d)
    BY <1>9
  <2>2. timer[d] = 0 /\ d = keyPressed /\ orphan' = orphan
    BY <1>2, <2>1 DEF Repeat, Unset
  <2>3. /\ timer' = [timer EXCEPT ![d] = RepeatPeriod]
        /\ UNCHANGED <<keyPressed, keys, button>>
    BY <2>1, <2>2 DEF Repeat, SetTimer, userVars
  <2> QED
    BY <1>2, <2>2, <2>3 DEF IInv, PageTyped
<1> QED
  BY <1>4, <1>5, <1>6, <1>7, <1>8, <1>9 DEF User

\* Time that passes sets no timeout and unsets none.
LEMMA TickInv == IInv /\ Tick => IInv'
<1> SUFFICES ASSUME IInv, Tick PROVE IInv'
  OBVIOUS
<1>1. /\ UNCHANGED <<keys, button, keyPressed, muddled>>
      /\ timer' = [d \in Directions |-> Elapse(timer[d])]
      /\ orphan' = [d \in Directions |-> Elapse(orphan[d])]
  BY DEF Tick, userVars
<1>2. \A left \in Int : Elapse(left) \in Int /\ (Elapse(left) = Unset <=> left = Unset)
  BY DEF Elapse, Unset
<1> QED
  BY <1>1, <1>2 DEF IInv, PageTyped, RepeatsOne

\* What else happens is none of the page's business.
LEMMA StepInv == IInv /\ [Next]_vars => IInv'
<1> SUFFICES ASSUME IInv, [Next]_vars PROVE IInv'
  OBVIOUS
<1>1. CASE PageStep
  BY <1>1, UserTyped, UserRepeats DEF PageStep, IInv
<1>2. CASE Tick
  BY <1>2, TickInv
<1>3. CASE (\E i \in 1 .. Len(posts) : Serve(i) \/ LosePost(i)) \/ ProcessQikState
           \/ UNCHANGED vars
  <2>1. UNCHANGED <<keys, button, keyPressed, timer, orphan, muddled>>
    BY <1>3 DEF Serve, LosePost, ProcessQikState, vars, pageVars, userVars
  <2> QED
    BY <2>1 DEF IInv, PageTyped, RepeatsOne
<1> QED
  BY <1>1, <1>2, <1>3 DEF Next

-----------------------------------------------------------------------------
(***************************************************************************)
(* The types of all variables.                                             *)
(***************************************************************************)

Post == [dir : Directions, verb : Verbs, age : 0 .. MaxDelay, queued : 0 .. 1]

\* What RemoveAt() leaves are elements that were there before.
LEMMA RemoveAtShape ==
  ASSUME NEW S, NEW s \in Seq(S), NEW k \in 1 .. Len(s)
  PROVE  /\ RemoveAt(s, k) \in Seq(S) /\ Len(RemoveAt(s, k)) = Len(s) - 1
         /\ \A n \in 1 .. Len(s) - 1 : RemoveAt(s, k)[n] = IF n < k THEN s[n] ELSE s[n + 1]
<1> DEFINE before == SubSeq(s, 1, k - 1)
           after == SubSeq(s, k + 1, Len(s))
<1>1. Len(s) \in Nat /\ \A n \in 1 .. Len(s) : s[n] \in S
  BY LenProperties, ElementOfSeq
<1>2. /\ before \in Seq(S) /\ Len(before) = k - 1
      /\ \A n \in 1 .. k - 1 : before[n] = s[n]
  <2>1. \A n \in 1 .. k - 1 : s[n] \in S
    BY <1>1
  <2> QED
    BY <1>1, <2>1, SubSeqProperties
<1>3. /\ after \in Seq(S) /\ Len(after) = Len(s) - k
      /\ \A n \in 1 .. Len(s) - k : after[n] = s[n + k]
  <2>1. \A n \in k + 1 .. Len(s) : s[n] \in S
    BY <1>1
  <2>2. /\ after \in Seq(S)
        /\ Len(after) = IF k + 1 <= Len(s) THEN Len(s) - (k + 1) + 1 ELSE 0
        /\ \A n \in 1 .. Len(s) - (k + 1) + 1 : after[n] = s[(k + 1) + n - 1]
    <3> HIDE DEF after
    <3>1. k + 1 \in Int /\ Len(s) \in Int
      BY <1>1
    <3> QED
      BY <2>1, <3>1, SubSeqProperties DEF after
  <2>3. \A n \in 1 .. Len(s) - k : (k + 1) + n - 1 = n + k
    BY <1>1
  <2> HIDE DEF after
  <2> QED
    BY <1>1, <2>2, <2>3
<1> HIDE DEF before, after
<1>4. /\ before \o after \in Seq(S) /\ Len(before \o after) = Len(s) - 1
      /\ \A n \in 1 .. Len(s) - 1 :
           (before \o after)[n] = IF n <= k - 1 THEN before[n] ELSE after[n - (k - 1)]
  <2>1. /\ before \o after \in Seq(S) /\ Len(before \o after) = Len(before) + Len(after)
        /\ \A n \in 1 .. Len(before) + Len(after) :
             (before \o after)[n] = IF n <= Len(before) THEN before[n] ELSE after[n - Len(before)]
    BY <1>2, <1>3, ConcatProperties
  <2>2. Len(before) = k - 1 /\ Len(before) + Len(after) = Len(s) - 1
    BY <1>1, <1>2, <1>3
  <2> QED
    BY <2>1, <2>2
<1>5. RemoveAt(s, k) = before \o after
  BY DEF RemoveAt, before, after
<1>6. ASSUME NEW n \in 1 .. Len(s) - 1
      PROVE  (before \o after)[n] = IF n < k THEN s[n] ELSE s[n + 1]
  <2>1. n < k => (before \o after)[n] = s[n]
    BY <1>1, <1>2, <1>4
  <2>2. ASSUME ~(n < k) PROVE (before \o after)[n] = s[n + 1]
    <3>1. n - (k - 1) \in 1 .. Len(s) - k /\ n - (k - 1) + k = n + 1
      BY <1>1, <2>2
    <3> QED
      BY <1>1, <1>3, <1>4, <2>2, <3>1
  <2> QED
    BY <2>1, <2>2
<1> QED
  BY <1>4, <1>5, <1>6

\* A POST becomes a command for either motor; it starts the motor, and arms the
\* shutoff, if it is a START, and stops it if it is a STOP.
LEMMA CommandOfPost ==
  ASSUME NEW d \in Directions, NEW verb \in Verbs,
         NEW cmd \in {M0Command(d, SpeedFor(verb)), M1Command(d, SpeedFor(verb))}
  PROVE  /\ cmd.motor = (IF cmd = M0Command(d, SpeedFor(verb)) THEN 0 ELSE 1)
         /\ Heading(cmd) \in {"forward", "reverse", "stop"}
         /\ Heading(cmd) # "stop" <=> verb = "START"
         /\ StartsMotor(cmd) <=> verb = "START"
BY DEF M0Command, M1Command, SpeedFor, SetForward, SetReverse, Drive, Heading, Turns, Speed,
       StartsMotor, Verbs

\* What a handler of the page does to the POSTs: it sends at most one, which is a
\* START only if something is held down afterwards or a timeout is over.
LEMMA PageSends ==
  ASSUME TypeOK, User \/ \E d \in Directions : Repeat(d)
  PROVE  /\ posts' \in Seq(Post) /\ Len(posts') <= MaxPosts
         /\ \/ posts' = posts
            \/ \E d \in Directions : SendMotorPost(d, "STOP")
            \/ \E d \in Directions : SendMotorPost(d, "START") /\ (HandsOff' => Repeat(d))
<1>1. posts \in Seq(Post) /\ Len(posts) <= MaxPosts
  BY DEF TypeOK, PageTypeOK, Post
<1>2. ASSUME NEW d \in Directions, NEW verb \in Verbs, SendMotorPost(d, verb)
      PROVE  posts' \in Seq(Post) /\ Len(posts') <= MaxPosts
  <2> DEFINE new == [dir |-> d, verb |-> verb, age |-> 0, queued |-> 0]
  <2>1. new \in Post
    BY TelebraAssumption DEF Post
  <2>2. Len(posts) < MaxPosts /\ posts' = Append(posts, new)
    BY <1>2 DEF SendMotorPost
  <2> HIDE DEF new
  <2>3. posts' \in Seq(Post) /\ Len(posts') = Len(posts) + 1
    BY <1>1, <2>1, <2>2, AppendProperties
  <2> QED
    BY <1>1, <2>2, <2>3, LenProperties, PageAssumption
<1>3. \/ posts' = posts
      \/ \E d \in Directions : SendMotorPost(d, "STOP")
      \/ \E d \in Directions : SendMotorPost(d, "START") /\ (HandsOff' => Repeat(d))
  <2>1. CASE \E d \in Directions : KeyDown(d)
    BY <2>1 DEF KeyDown, StartMotor, SetTimer, NoCall, HandsOff
  <2>2. CASE \E d \in Directions : KeyUp(d)
    BY <2>2 DEF KeyUp, StopMotor, NoCall
  <2>3. CASE \E d \in Directions : MouseDown(d)
    BY <2>3, PageAssumption DEF MouseDown, StartMotor, SetTimer, HandsOff
  <2>4. CASE \E d \in Directions : MouseUp(d)
    BY <2>4 DEF MouseUp, StopMotor
  <2>5. CASE UnseenRelease
    BY <2>5 DEF UnseenRelease, NoCall
  <2>6. CASE \E d \in Directions : Repeat(d)
    BY <2>6 DEF Repeat, SetTimer
  <2> QED
    BY <2>1, <2>2, <2>3, <2>4, <2>5, <2>6 DEF User
<1>4. "START" \in Verbs /\ "STOP" \in Verbs
  BY DEF Verbs
<1> QED
  BY <1>1, <1>2, <1>3, <1>4

\* The page's handlers keep the types.
LEMMA PageStepType == ASSUME TypeOK, PageStep PROVE TypeOK'
<1> USE DEF TypeOK, PageTypeOK
<1>1. User \/ \E d \in Directions : Repeat(d)
  BY DEF PageStep
<1>2. posts' \in Seq(Post) /\ Len(posts') <= MaxPosts
  BY <1>1, PageSends
<1>3. UNCHANGED <<motors, armed, motorLeft, stopping, lost>>
  BY DEF PageStep, carVars
<1>4. idle' \in 0 .. Grace + 1
  BY TelebraAssumption DEF PageStep, Grace
<1>5. inputs' \in 0 .. MaxInputs /\ muddled' \in BOOLEAN
  <2>1. muddled' \in BOOLEAN
    BY <1>1 DEF User, KeyDown, KeyUp, MouseDown, MouseUp, UnseenRelease, Repeat, userVars
  <2>2. inputs' = inputs \/ Input
    BY <1>1 DEF User, KeyDown, KeyUp, MouseDown, MouseUp, UnseenRelease, Repeat, userVars
  <2> QED
    BY <2>1, <2>2, PageAssumption DEF Input
<1>6. keys' \subseteq Directions /\ button' \in Directions \cup {NoDir}
  BY <1>1 DEF User, KeyDown, KeyUp, MouseDown, MouseUp, UnseenRelease, Repeat, userVars
<1>7. /\ keyPressed' \in Directions \cup {NoDir}
      /\ timer' \in [Directions -> {Unset} \cup 0 .. RepeatPeriod]
      /\ orphan' \in [Directions -> {Unset} \cup 0 .. RepeatPeriod]
  <2>1. RepeatPeriod \in {Unset} \cup 0 .. RepeatPeriod /\ Unset \in {Unset} \cup 0 .. RepeatPeriod
    BY PageAssumption
  <2>2. CASE \E d \in Directions : KeyDown(d)
    BY <2>1, <2>2 DEF KeyDown, StartMotor, SetTimer, Forget, NoCall
  <2>3. CASE \E d \in Directions : KeyUp(d)
    BY <2>1, <2>3 DEF KeyUp, StopMotor, NoCall
  <2>4. CASE \E d \in Directions : MouseDown(d)
    BY <2>1, <2>4 DEF MouseDown, StartMotor, SetTimer, Forget
  <2>5. CASE \E d \in Directions : MouseUp(d)
    BY <2>1, <2>5 DEF MouseUp, StopMotor
  <2>6. CASE UnseenRelease
    BY <2>6 DEF UnseenRelease, NoCall
  <2>7. CASE \E d \in Directions : Repeat(d)
    BY <2>1, <2>7 DEF Repeat, SetTimer
  <2> QED
    BY <1>1, <2>2, <2>3, <2>4, <2>5, <2>6, <2>7 DEF User
<1> QED
  BY <1>2, <1>3, <1>4, <1>5, <1>6, <1>7 DEF Post

\* A motor gets a command of a POST with this verb.
Commanded(verb) ==
  \E m \in Motors, heading \in {"forward", "reverse", "stop"} :
    /\ motors' = [motors EXCEPT ![m] = heading]
    /\ heading # "stop" => verb = "START"
    /\ IF verb = "START" THEN armed' = TRUE /\ motorLeft' = MotorTimeout
                         ELSE UNCHANGED <<armed, motorLeft>>

\* What the thread of a POST does: one command reaches a motor, and the POST is
\* marked or removed.
LEMMA ServeShape ==
  ASSUME TypeOK, NEW n \in 1 .. Len(posts), Serve(n)
  PROVE  /\ posts' \in Seq(Post) /\ Len(posts') <= Len(posts)
         /\ \A k \in 1 .. Len(posts') : \E l \in 1 .. Len(posts) :
              posts'[k].verb = posts[l].verb /\ posts'[k].age = posts[l].age
         /\ Commanded(posts[n].verb)
         /\ UNCHANGED <<userVars, keyPressed, timer, orphan, stopping, lost, idle>>
<1>1. posts \in Seq(Post) /\ Len(posts) \in Nat /\ posts[n] \in Post
  BY LenProperties, ElementOfSeq DEF TypeOK, Post
<1>2. posts[n].dir \in Directions /\ posts[n].verb \in Verbs
  BY <1>1 DEF Post
<1> DEFINE cmd0 == M0Command(posts[n].dir, SpeedFor(posts[n].verb))
           cmd1 == M1Command(posts[n].dir, SpeedFor(posts[n].verb))
<1>3. ASSUME NEW cmd \in {cmd0, cmd1},
             motors' = [motors EXCEPT ![cmd.motor] = Heading(cmd)],
             IF StartsMotor(cmd) THEN armed' = TRUE /\ motorLeft' = MotorTimeout
                                 ELSE UNCHANGED <<armed, motorLeft>>
      PROVE  Commanded(posts[n].verb)
  <2>1. /\ cmd.motor \in Motors /\ Heading(cmd) \in {"forward", "reverse", "stop"}
        /\ Heading(cmd) # "stop" => posts[n].verb = "START"
        /\ StartsMotor(cmd) <=> posts[n].verb = "START"
    BY <1>2, CommandOfPost DEF Motors
  <2> QED
    BY <1>3, <2>1 DEF Commanded
<1>4. CASE QueueM0(n)
  <2>1. Drives(cmd0) /\ Arm(cmd0) /\ posts' = [posts EXCEPT ![n].queued = 1]
    BY <1>4 DEF QueueM0
  <2> DEFINE marked == [posts[n] EXCEPT !.queued = 1]
  <2>2. /\ marked \in Post /\ marked.verb = posts[n].verb /\ marked.age = posts[n].age
        /\ posts' = [posts EXCEPT ![n] = marked]
    BY <1>1, <2>1 DEF Post
  <2> HIDE DEF marked
  <2>3. /\ posts' \in Seq(Post) /\ Len(posts') = Len(posts)
        /\ \A k \in 1 .. Len(posts) : posts'[k] = IF k = n THEN marked ELSE posts[k]
    BY <1>1, <2>2, ExceptSeq
  <2>6. Commanded(posts[n].verb)
    BY <1>3, <2>1 DEF Drives, Arm
  <2>4. \A k \in 1 .. Len(posts') : \E l \in 1 .. Len(posts) :
          posts'[k].verb = posts[l].verb /\ posts'[k].age = posts[l].age
    BY <2>2, <2>3
  <2>5. UNCHANGED <<userVars, keyPressed, timer, orphan, stopping, lost, idle>>
    BY DEF Serve
  <2>7. posts' \in Seq(Post) /\ Len(posts') <= Len(posts)
    BY <1>1, <2>3
  <2> QED
    BY <2>4, <2>5, <2>6, <2>7
<1>5. CASE QueueM1(n)
  <2>1. Drives(cmd1) /\ Arm(cmd1) /\ posts' = RemoveAt(posts, n)
    BY <1>5 DEF QueueM1
  <2>2. /\ posts' \in Seq(Post) /\ Len(posts') = Len(posts) - 1
        /\ \A k \in 1 .. Len(posts) - 1 :
             posts'[k] = IF k < n THEN posts[k] ELSE posts[k + 1]
    BY <1>1, <2>1, RemoveAtShape
  <2>5. Commanded(posts[n].verb)
    BY <1>3, <2>1 DEF Drives, Arm
  <2>3. \A k \in 1 .. Len(posts') : \E l \in 1 .. Len(posts) : posts'[k] = posts[l]
    BY <1>1, <2>2
  <2>4. UNCHANGED <<userVars, keyPressed, timer, orphan, stopping, lost, idle>>
    BY DEF Serve
  <2>6. posts' \in Seq(Post) /\ Len(posts') <= Len(posts)
    BY <1>1, <2>2
  <2>7. \A k \in 1 .. Len(posts') : \E l \in 1 .. Len(posts) :
          posts'[k].verb = posts[l].verb /\ posts'[k].age = posts[l].age
    BY <2>3
  <2> QED
    BY <2>4, <2>5, <2>6, <2>7
<1> QED
  BY <1>4, <1>5 DEF Serve

\* A lost POST is removed.
LEMMA LoseShape ==
  ASSUME TypeOK, NEW n \in 1 .. Len(posts), LosePost(n)
  PROVE  /\ posts' \in Seq(Post) /\ Len(posts') <= Len(posts)
         /\ \A k \in 1 .. Len(posts') : \E l \in 1 .. Len(posts) : posts'[k] = posts[l]
         /\ lost' \in 0 .. MaxLost
         /\ UNCHANGED <<userVars, keyPressed, timer, orphan, carVars, idle>>
<1>1. posts \in Seq(Post) /\ Len(posts) \in Nat
  BY LenProperties DEF TypeOK, Post
<1>2. posts' = RemoveAt(posts, n)
  BY DEF LosePost
<1>3. /\ posts' \in Seq(Post) /\ Len(posts') = Len(posts) - 1
      /\ \A k \in 1 .. Len(posts) - 1 :
           posts'[k] = IF k < n THEN posts[k] ELSE posts[k + 1]
  BY <1>1, <1>2, RemoveAtShape
<1>4. \A k \in 1 .. Len(posts') : \E l \in 1 .. Len(posts) : posts'[k] = posts[l]
  BY <1>1, <1>3
<1>5. lost' \in 0 .. MaxLost /\ UNCHANGED <<userVars, keyPressed, timer, orphan, carVars, idle>>
  BY TelebraAssumption DEF LosePost, TypeOK
<1> QED
  BY <1>1, <1>3, <1>4, <1>5

\* A tick makes every POST older, by no more than it may become.
LEMMA TickShape ==
  ASSUME TypeOK, Tick
  PROVE  /\ posts' \in Seq(Post) /\ Len(posts') = Len(posts)
         /\ \A n \in 1 .. Len(posts) :
              posts'[n].verb = posts[n].verb /\ posts'[n].age = posts[n].age + 1
<1>1. posts \in Seq(Post) /\ Len(posts) \in Nat /\ \A n \in 1 .. Len(posts) : posts[n] \in Post
  BY LenProperties, ElementOfSeq DEF TypeOK, Post
<1> DEFINE older(n) == [posts[n] EXCEPT !.age = @ + 1]
<1>2. posts' = [n \in 1 .. Len(posts) |-> older(n)]
  BY DEF Tick
<1>3. ASSUME NEW n \in 1 .. Len(posts)
      PROVE  older(n) \in Post /\ older(n).verb = posts[n].verb
             /\ older(n).age = posts[n].age + 1
  <2>1. posts[n] \in Post /\ posts[n].age < MaxDelay
    BY <1>1 DEF Tick
  <2> QED
    BY <2>1, TelebraAssumption DEF Post
<1> HIDE DEF older
<1>4. posts' \in [1 .. Len(posts) -> Post]
  BY <1>2, <1>3
<1>5. posts' \in Seq(Post) /\ Len(posts') = Len(posts)
  BY <1>1, <1>4
<1> QED
  BY <1>2, <1>3, <1>5

\* Every step keeps the types.
LEMMA StepType == TypeOK /\ [Next]_vars => TypeOK'
<1> SUFFICES ASSUME TypeOK, [Next]_vars PROVE TypeOK'
  OBVIOUS
<1>1. CASE PageStep
  BY <1>1, PageStepType
<1>2. CASE \E n \in 1 .. Len(posts) : Serve(n)
  <2>1. PICK n \in 1 .. Len(posts) : Serve(n)
    BY <1>2
  <2>2. Len(posts) \in Nat /\ Len(posts) <= MaxPosts
    BY LenProperties DEF TypeOK, PageTypeOK
  <2>3. /\ posts' \in Seq(Post) /\ Len(posts') <= Len(posts)
        /\ UNCHANGED <<userVars, keyPressed, timer, orphan, stopping, lost, idle>>
    BY <2>1, ServeShape
  <2>4. Len(posts') \in Nat
    BY <2>3, LenProperties
  <2>5. /\ motors' \in [Motors -> {"forward", "reverse", "stop"}]
        /\ armed' \in BOOLEAN /\ motorLeft' \in -1 .. MotorTimeout
    <3>1. Commanded(posts[n].verb)
      BY <2>1, ServeShape
    <3>2. PICK m \in Motors, heading \in {"forward", "reverse", "stop"} :
            /\ motors' = [motors EXCEPT ![m] = heading]
            /\ armed' \in {TRUE, armed} /\ motorLeft' \in {MotorTimeout, motorLeft}
      BY <3>1 DEF Commanded
    <3>3. motorLeft' \in -1 .. MotorTimeout
      BY <3>2, TelebraAssumption DEF TypeOK
    <3> QED
      BY <3>2, <3>3 DEF TypeOK
  <2> QED
    BY <2>2, <2>3, <2>4, <2>5, PageAssumption DEF TypeOK, PageTypeOK, Post, userVars
<1>3. CASE \E n \in 1 .. Len(posts) : LosePost(n)
  <2>1. PICK n \in 1 .. Len(posts) : LosePost(n)
    BY <1>3
  <2>2. Len(posts) \in Nat /\ Len(posts) <= MaxPosts
    BY LenProperties DEF TypeOK, PageTypeOK
  <2>3. /\ posts' \in Seq(Post) /\ Len(posts') <= Len(posts) /\ lost' \in 0 .. MaxLost
        /\ UNCHANGED <<userVars, keyPressed, timer, orphan, carVars, idle>>
    BY <2>1, LoseShape
  <2>4. Len(posts') \in Nat
    BY <2>3, LenProperties
  <2> QED
    BY <2>2, <2>3, <2>4, PageAssumption DEF TypeOK, PageTypeOK, Post, userVars, carVars
<1>4. CASE ProcessQikState
  <2>1. PICK m \in Motors : motors' = [motors EXCEPT ![m] = "stop"]
    BY <1>4, TelebraAssumption
    DEF ProcessQikState, BeginShutoff, EndShutoff, Drives, SetForward, Drive, Heading, Turns,
        Speed, Motors
  <2>2. armed' \in BOOLEAN /\ stopping' \in BOOLEAN /\ UNCHANGED <<motorLeft, pageVars, lost, idle>>
    BY <1>4 DEF ProcessQikState, BeginShutoff, EndShutoff, TypeOK
  <2> QED
    BY <2>1, <2>2 DEF TypeOK, PageTypeOK, pageVars, userVars
<1>5. CASE Tick
  <2>1. posts' \in Seq(Post) /\ Len(posts') = Len(posts)
    BY <1>5, TickShape
  <2>2. UNCHANGED <<userVars, keyPressed, motors, armed, stopping, lost>>
    BY <1>5 DEF Tick
  <2>3. motorLeft' \in -1 .. MotorTimeout /\ idle' \in 0 .. Grace + 1
    BY <1>5, TelebraAssumption DEF Tick, TypeOK, Grace
  <2>4. \A left \in {Unset} \cup 0 .. RepeatPeriod :
          Elapse(left) \in {Unset} \cup 0 .. RepeatPeriod
    BY PageAssumption DEF Elapse, Unset
  <2>5. /\ timer' = [d \in Directions |-> Elapse(timer[d])]
        /\ orphan' = [d \in Directions |-> Elapse(orphan[d])]
    BY <1>5 DEF Tick
  <2>6. /\ timer' \in [Directions -> {Unset} \cup 0 .. RepeatPeriod]
        /\ orphan' \in [Directions -> {Unset} \cup 0 .. RepeatPeriod]
    BY <2>4, <2>5 DEF TypeOK, PageTypeOK
  <2> QED
    BY <2>1, <2>2, <2>3, <2>6 DEF TypeOK, PageTypeOK, Post, userVars
<1>6. CASE UNCHANGED vars
  BY <1>6 DEF TypeOK, PageTypeOK, vars, pageVars, userVars, carVars
<1> QED
  BY <1>1, <1>2, <1>3, <1>4, <1>5, <1>6 DEF Next

\* The variables have their types in the beginning.
LEMMA InitType == Init => TypeOK
<1> SUFFICES ASSUME Init PROVE TypeOK
  OBVIOUS
<1>1. posts \in Seq(Post) /\ Len(posts) <= MaxPosts
  BY PageAssumption, EmptySeq DEF Init, PageInit
<1>2. Grace + 1 \in Nat
  BY TelebraAssumption DEF Grace
<1>3. PageTypeOK
  <2>1. inputs \in 0 .. MaxInputs
    BY PageAssumption DEF Init, PageInit
  <2>2. /\ timer \in [Directions -> {Unset} \cup 0 .. RepeatPeriod]
        /\ orphan \in [Directions -> {Unset} \cup 0 .. RepeatPeriod]
    BY DEF Init, PageInit
  <2>3. /\ keys \subseteq Directions /\ button \in Directions \cup {NoDir}
        /\ keyPressed \in Directions \cup {NoDir} /\ muddled \in BOOLEAN
    BY DEF Init, PageInit
  <2> QED
    BY <1>1, <2>1, <2>2, <2>3 DEF PageTypeOK
<1>4. motorLeft \in -1 .. MotorTimeout /\ lost \in 0 .. MaxLost /\ idle \in 0 .. Grace + 1
  BY <1>2, TelebraAssumption DEF Init
<1>5. motors \in [Motors -> {"forward", "reverse", "stop"}]
  BY DEF Init
<1>6. armed \in BOOLEAN /\ stopping \in BOOLEAN
  BY DEF Init
<1> QED
  BY <1>1, <1>3, <1>4, <1>5, <1>6 DEF TypeOK, Post

\* The page and the vehicle stay within their types: no timeout is longer than the
\* period, no POST older than the longest delay, no shutoff further away than
\* MOTOR_TIMEOUT.
THEOREM TypeCorrect == Spec => []TypeOK
BY InitType, StepType, PTL DEF Spec

\* The page repeats what is held and nothing else, whatever keys and buttons the
\* user presses in whatever order, as long as no button is held together with a
\* key or another button and every release is seen where the press was.
THEOREM PageRepeatsHeld == Spec => []RepeatsWhatIsHeld
<1>1. IInv => RepeatsWhatIsHeld
  BY DEF IInv, RepeatsOne, RepeatsWhatIsHeld, HandsOff
<1> QED
  BY <1>1, InitInv, StepInv, PTL DEF Spec

-----------------------------------------------------------------------------
(***************************************************************************)
(* The vehicle stands still in time.                                       *)
(***************************************************************************)

\* A START under way was sent no earlier than something was last held down.
StartsAreFresh ==
  ~muddled => \A n \in 1 .. Len(posts) : posts[n].verb = "START" => idle <= posts[n].age

\* The shutoff was armed by a START that was as fresh, and strikes in time.
ArmedInTime ==
  ~muddled => /\ armed => idle + motorLeft <= MaxDelay + MotorTimeout
              /\ stopping => idle <= Grace

\* A motor turns only while the shutoff is armed, or has one stop to queue.
TurningIsCovered ==
  /\ motors[0] # "stop" => armed
  /\ motors[1] # "stop" => armed \/ stopping

StopInv == StartsAreFresh /\ ArmedInTime /\ TurningIsCovered

\* A handler of the page sends a START only with something held down, and time
\* counts from then.
LEMMA StopPage == ASSUME TypeOK, IInv, StopInv, PageStep PROVE StopInv'
<1>1. UNCHANGED <<motors, armed, motorLeft, stopping>>
  BY DEF PageStep, carVars
<1>2. TurningIsCovered'
  BY <1>1 DEF StopInv, TurningIsCovered
<1>3. User \/ \E d \in Directions : Repeat(d)
  BY DEF PageStep
<1>4. muddled => muddled'
  BY <1>3 DEF User, KeyDown, KeyUp, MouseDown, MouseUp, UnseenRelease, Repeat, userVars
<1>5. idle \in Nat /\ idle' \in Nat /\ idle' <= idle /\ (~HandsOff' => idle' = 0)
  BY TelebraAssumption DEF PageStep, TypeOK, Grace
<1>6. ArmedInTime'
  <2> SUFFICES ASSUME ~muddled'
               PROVE  /\ armed => idle' + motorLeft <= MaxDelay + MotorTimeout
                      /\ stopping => idle' <= Grace
    BY <1>1 DEF ArmedInTime
  <2>1. /\ armed => idle + motorLeft <= MaxDelay + MotorTimeout
        /\ stopping => idle <= Grace
    BY <1>4 DEF StopInv, ArmedInTime
  <2>2. motorLeft \in Int /\ Grace \in Int /\ MaxDelay + MotorTimeout \in Int
    BY TelebraAssumption DEF TypeOK, Grace
  <2>3. /\ idle + motorLeft <= MaxDelay + MotorTimeout
             => idle' + motorLeft <= MaxDelay + MotorTimeout
        /\ idle <= Grace => idle' <= Grace
    BY <1>5, <2>2
  <2> QED
    BY <2>1, <2>3
<1>7. posts \in Seq(Post) /\ Len(posts) \in Nat /\ \A n \in 1 .. Len(posts) : posts[n] \in Post
  BY LenProperties, ElementOfSeq DEF TypeOK, Post
<1>8. \A n \in 1 .. Len(posts) : posts[n].age \in Nat
  BY <1>7, TelebraAssumption DEF Post
<1>9. ASSUME NEW d \in Directions, Repeat(d), ~muddled' PROVE ~HandsOff'
  <2>1. UNCHANGED <<keys, button, muddled>> /\ (timer[d] = 0 \/ orphan[d] = 0)
    BY <1>9 DEF Repeat, userVars
  <2>2. d = keyPressed
    BY <1>9, <2>1 DEF IInv, RepeatsOne, Unset
  <2> QED
    BY <1>9, <2>1, <2>2, PageAssumption DEF IInv, RepeatsOne, HandsOff
<1>10. StartsAreFresh'
  <2> SUFFICES ASSUME ~muddled', NEW n \in 1 .. Len(posts'), posts'[n].verb = "START"
               PROVE  idle' <= posts'[n].age
    BY DEF StartsAreFresh
  <2>1. CASE posts' = posts
    BY <1>4, <1>5, <1>8, <2>1 DEF StopInv, StartsAreFresh
  <2>2. ASSUME NEW d \in Directions, NEW verb \in Verbs, SendMotorPost(d, verb),
               verb = "START" => ~HandsOff'
        PROVE  idle' <= posts'[n].age
    <3> DEFINE new == [dir |-> d, verb |-> verb, age |-> 0, queued |-> 0]
    <3>1. new \in Post /\ new.verb = verb /\ new.age = 0
      BY TelebraAssumption DEF Post
    <3>2. posts' = Append(posts, new)
      BY <2>2 DEF SendMotorPost
    <3> HIDE DEF new
    <3>3. /\ Len(posts') = Len(posts) + 1 /\ posts'[Len(posts) + 1] = new
          /\ \A k \in 1 .. Len(posts) : posts'[k] = posts[k]
      BY <1>7, <3>1, <3>2, AppendProperties
    <3>4. CASE n = Len(posts) + 1
      <4>1. verb = "START"
        BY <3>1, <3>3, <3>4
      <4> QED
        BY <1>5, <2>2, <3>1, <3>3, <3>4, <4>1
    <3>5. CASE n \in 1 .. Len(posts)
      <4>1. posts[n].verb = "START" /\ posts'[n].age = posts[n].age
        BY <3>3, <3>5
      <4>2. idle <= posts[n].age
        BY <1>4, <3>5, <4>1 DEF StopInv, StartsAreFresh
      <4> QED
        BY <1>5, <1>8, <3>5, <4>1, <4>2
    <3> QED
      BY <1>7, <3>3, <3>4, <3>5
  <2>3. "START" \in Verbs /\ "STOP" \in Verbs /\ "STOP" # "START"
    BY DEF Verbs
  <2> QED
    BY <1>3, <1>9, <2>1, <2>2, <2>3, PageSends
<1> QED
  BY <1>2, <1>6, <1>10 DEF StopInv

\* A START arms the shutoff for no longer than it may still take.
LEMMA StopServe == ASSUME TypeOK, StopInv, NEW n \in 1 .. Len(posts), Serve(n) PROVE StopInv'
<1>1. /\ \A k \in 1 .. Len(posts') : \E l \in 1 .. Len(posts) :
           posts'[k].verb = posts[l].verb /\ posts'[k].age = posts[l].age
      /\ UNCHANGED <<muddled, stopping, idle>>
  BY ServeShape DEF userVars
<1>2. StartsAreFresh'
  BY <1>1 DEF StopInv, StartsAreFresh
<1>3. PICK m \in Motors, heading \in {"forward", "reverse", "stop"} :
        /\ motors' = [motors EXCEPT ![m] = heading]
        /\ heading # "stop" => posts[n].verb = "START"
        /\ IF posts[n].verb = "START" THEN armed' = TRUE /\ motorLeft' = MotorTimeout
                                      ELSE UNCHANGED <<armed, motorLeft>>
  BY ServeShape DEF Commanded
<1>4. motors \in [Motors -> {"forward", "reverse", "stop"}] /\ Motors = {0, 1}
  BY DEF TypeOK, Motors
<1>5. TurningIsCovered'
  BY <1>1, <1>3, <1>4 DEF StopInv, TurningIsCovered
<1>6. posts[n] \in Post
  BY ElementOfSeq DEF TypeOK, Post
<1>7. posts[n].age \in 0 .. MaxDelay
  BY <1>6 DEF Post
<1>8. ArmedInTime'
  <2>1. CASE posts[n].verb = "START"
    <3>1. ~muddled => idle <= MaxDelay
      BY <1>7, <2>1, TelebraAssumption DEF StopInv, StartsAreFresh, TypeOK, Grace
    <3> QED
      BY <1>1, <1>3, <2>1, <3>1, TelebraAssumption DEF StopInv, ArmedInTime, TypeOK, Grace
  <2>2. CASE posts[n].verb # "START"
    BY <1>1, <1>3, <2>2 DEF StopInv, ArmedInTime
  <2> QED
    BY <2>1, <2>2
<1> QED
  BY <1>2, <1>5, <1>8 DEF StopInv

\* The shutoff stops one motor after the other.
LEMMA StopShutoff == ASSUME TypeOK, StopInv, ProcessQikState PROVE StopInv'
<1>1. UNCHANGED <<posts, muddled, idle, motorLeft>>
  BY DEF ProcessQikState, BeginShutoff, EndShutoff, pageVars, userVars
<1>2. StartsAreFresh'
  BY <1>1 DEF StopInv, StartsAreFresh
<1>3. motors \in [Motors -> {"forward", "reverse", "stop"}] /\ Motors = {0, 1}
  BY DEF TypeOK, Motors
<1>4. CASE BeginShutoff
  <2>1. motors' = [motors EXCEPT ![0] = "stop"] /\ ~armed' /\ armed /\ stopping' = TRUE
        /\ ~stopping
    BY <1>4 DEF BeginShutoff, ShutoffDue, Drives, SetForward, Drive, Heading, Turns, Speed
  <2>2. TurningIsCovered'
    BY <1>3, <2>1 DEF StopInv, TurningIsCovered
  <2>3. ArmedInTime'
    BY <1>1, <2>1, TelebraAssumption DEF StopInv, ArmedInTime, TypeOK, Grace
  <2> QED
    BY <1>2, <2>2, <2>3 DEF StopInv
<1>5. CASE EndShutoff
  <2>1. motors' = [motors EXCEPT ![1] = "stop"] /\ armed' = armed /\ stopping' = FALSE
    BY <1>5 DEF EndShutoff, Drives, SetForward, Drive, Heading, Turns, Speed
  <2>2. TurningIsCovered'
    BY <1>3, <2>1 DEF StopInv, TurningIsCovered
  <2>3. ArmedInTime'
    BY <1>1, <2>1 DEF StopInv, ArmedInTime
  <2> QED
    BY <1>2, <2>2, <2>3 DEF StopInv
<1> QED
  BY <1>4, <1>5 DEF ProcessQikState

\* Time that passes makes the POSTs older and brings the shutoff nearer.
LEMMA StopTick == ASSUME TypeOK, StopInv, Tick PROVE StopInv'
<1>1. /\ UNCHANGED <<muddled, motors, armed, stopping>> /\ ~stopping
      /\ ~(armed /\ motorLeft < 0)
      /\ motorLeft' = IF motorLeft >= 0 THEN motorLeft - 1 ELSE -1
  BY DEF Tick, userVars, ShutoffDue
<1>2. idle \in Nat /\ idle' \in Nat /\ idle' <= idle + 1 /\ motorLeft \in Int
  BY TelebraAssumption DEF Tick, TypeOK, Grace
<1>3. /\ posts' \in Seq(Post) /\ Len(posts') = Len(posts)
      /\ \A n \in 1 .. Len(posts) :
           posts'[n].verb = posts[n].verb /\ posts'[n].age = posts[n].age + 1
  BY TickShape
<1>4. \A n \in 1 .. Len(posts) : posts[n].age \in Nat
  <2>1. \A n \in 1 .. Len(posts) : posts[n] \in Post
    BY ElementOfSeq DEF TypeOK, Post
  <2> QED
    BY <2>1, TelebraAssumption DEF Post
<1>5. StartsAreFresh'
  BY <1>1, <1>2, <1>3, <1>4 DEF StopInv, StartsAreFresh
<1>6. ArmedInTime'
  <2> SUFFICES ASSUME ~muddled, armed
               PROVE  idle' + motorLeft' <= MaxDelay + MotorTimeout
    BY <1>1 DEF ArmedInTime
  <2>1. idle + motorLeft <= MaxDelay + MotorTimeout
    BY DEF StopInv, ArmedInTime
  <2>2. motorLeft' = motorLeft - 1
    BY <1>1, <1>2
  <2>3. MaxDelay + MotorTimeout \in Int
    BY TelebraAssumption
  <2>4. \A before, now, left, most \in Int :
          now <= before + 1 /\ before + left <= most => now + (left - 1) <= most
    OBVIOUS
  <2>5. idle' + (motorLeft - 1) <= MaxDelay + MotorTimeout
    BY <1>2, <2>1, <2>3, <2>4
  <2> QED
    BY <2>2, <2>5
<1>7. TurningIsCovered'
  BY <1>1 DEF StopInv, TurningIsCovered
<1> QED
  BY <1>5, <1>6, <1>7 DEF StopInv

\* Every step keeps what the shutoff rests on.
LEMMA StepStop == TypeOK /\ IInv /\ StopInv /\ [Next]_vars => StopInv'
<1> SUFFICES ASSUME TypeOK, IInv, StopInv, [Next]_vars PROVE StopInv'
  OBVIOUS
<1>1. CASE PageStep
  BY <1>1, StopPage
<1>2. CASE \E n \in 1 .. Len(posts) : Serve(n)
  BY <1>2, StopServe
<1>3. CASE \E n \in 1 .. Len(posts) : LosePost(n)
  <2>1. /\ \A k \in 1 .. Len(posts') : \E l \in 1 .. Len(posts) : posts'[k] = posts[l]
        /\ UNCHANGED <<muddled, carVars, idle>>
    BY <1>3, LoseShape DEF userVars
  <2> QED
    BY <2>1 DEF StopInv, StartsAreFresh, ArmedInTime, TurningIsCovered, carVars
<1>4. CASE ProcessQikState
  BY <1>4, StopShutoff
<1>5. CASE Tick
  BY <1>5, StopTick
<1>6. CASE UNCHANGED vars
  BY <1>6
  DEF StopInv, StartsAreFresh, ArmedInTime, TurningIsCovered, vars, pageVars, userVars, carVars
<1> QED
  BY <1>1, <1>2, <1>3, <1>4, <1>5, <1>6 DEF Next

\* The vehicle stands still once everything has been let go for the time of the
\* shutoff and the delay of a POST, for any delay and any MOTOR_TIMEOUT, whichever
\* POSTs get lost and in whatever order the others are served.
THEOREM StandsStill == Spec => []StopsInTime
<1>1. Init => StopInv
  <2> SUFFICES ASSUME Init PROVE StopInv
    OBVIOUS
  <2>1. StartsAreFresh
    BY EmptySeq DEF Init, PageInit, StartsAreFresh
  <2>2. ArmedInTime
    BY DEF Init, ArmedInTime
  <2>3. TurningIsCovered
    BY DEF Init, TurningIsCovered, Motors
  <2> QED
    BY <2>1, <2>2, <2>3 DEF StopInv
<1>2. TypeOK /\ StopInv => StopsInTime
  <2> SUFFICES ASSUME TypeOK, StopInv, ~muddled, idle > Grace
               PROVE  \A m \in Motors : motors[m] = "stop"
    BY DEF StopsInTime
  <2>1. ~armed /\ ~stopping
    BY TelebraAssumption DEF TypeOK, StopInv, ArmedInTime, Grace
  <2> QED
    BY <2>1 DEF StopInv, TurningIsCovered, Motors
<1> QED
  BY <1>1, <1>2, InitInv, StepInv, InitType, StepType, StepStop, PTL DEF Spec
================================================================================

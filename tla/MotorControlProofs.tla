--------------------------- MODULE MotorControlProofs --------------------------
(***************************************************************************)
(* Theorems about MotorControl.tla, for any number of requests at a time,  *)
(* whatever their bodies.                                                  *)
(***************************************************************************)
EXTENDS MotorControl, TLAPS

\* What the two calls of QueueQikCommand() are made with is a drive command, for
\* its motor, that turns it after a START and does not after a STOP.
LEMMA CommandsObey ==
  ASSUME NEW d, NEW verb
  PROVE  /\ M0Command(d, SpeedFor(verb)) \in MotorCommands
         /\ M0Command(d, SpeedFor(verb)).motor = 0
         /\ Turns(M0Command(d, SpeedFor(verb))) <=> verb = "START"
         /\ M1Command(d, SpeedFor(verb)) \in MotorCommands
         /\ M1Command(d, SpeedFor(verb)).motor = 1
         /\ Turns(M1Command(d, SpeedFor(verb))) <=> verb = "START"
<1>1. ASSUME NEW motor \in Motors, NEW speed \in {0, 255}
      PROVE  /\ SetForward(motor, speed) \in MotorCommands
             /\ SetForward(motor, speed).motor = motor
             /\ Turns(SetForward(motor, speed)) <=> speed = 255
             /\ SetReverse(motor, speed) \in MotorCommands
             /\ SetReverse(motor, speed).motor = motor
             /\ Turns(SetReverse(motor, speed)) <=> speed = 255
  <2>1. SetForward(motor, speed) \in MotorCommands /\ SetReverse(motor, speed) \in MotorCommands
    BY DEF MotorCommands
  <2>2. CASE speed = 0
    BY <2>1, <2>2 DEF SetForward, SetReverse, Drive, Turns, Speed
  <2>3. CASE speed = 255
    BY <2>1, <2>3 DEF SetForward, SetReverse, Drive, Turns, Speed
  <2> QED
    BY <2>2, <2>3
<1>2. SpeedFor(verb) \in {0, 255} /\ (SpeedFor(verb) = 255 <=> verb = "START")
  BY DEF SpeedFor
<1>3. 0 \in Motors /\ 1 \in Motors
  BY DEF Motors
<1> QED
  BY <1>1, <1>2, <1>3 DEF M0Command, M1Command

\* A command that worker w queues is one more of its own and none of others.
LEMMA QueuedGrows ==
  ASSUME TypeOK, NEW w \in Workers, NEW command \in MotorCommands,
         queued' = Append(queued, [by |-> w, command |-> command])
  PROVE  \A u \in Workers :
           QueuedBy(u)' = IF u = w THEN QueuedBy(u) \cup {command} ELSE QueuedBy(u)
<1>1. queued \in Seq([by : Workers, command : MotorCommands])
  BY DEF TypeOK
<1> DEFINE n == Len(queued) + 1
<1>2. /\ Len(queued') = n /\ n \in Nat
      /\ queued'[n] = [by |-> w, command |-> command]
      /\ \A j \in 1 .. Len(queued) : queued'[j] = queued[j]
  BY <1>1
<1>3. 1 .. n = (1 .. Len(queued)) \cup {n}
  BY <1>1
<1> SUFFICES ASSUME NEW u \in Workers
             PROVE  QueuedBy(u)' = IF u = w THEN QueuedBy(u) \cup {command} ELSE QueuedBy(u)
  OBVIOUS
<1>4. {j \in 1 .. n : queued'[j].by = u}
        = {j \in 1 .. Len(queued) : queued[j].by = u} \cup (IF u = w THEN {n} ELSE {})
  BY <1>2, <1>3
<1> HIDE DEF n
<1>5. CASE u = w
  BY <1>2, <1>4, <1>5 DEF QueuedBy
<1>6. CASE u # w
  BY <1>2, <1>4, <1>6 DEF QueuedBy
<1> QED
  BY <1>5, <1>6

\* A place before a verb is in the body of a worker.
PlacesInBodies ==
  /\ place.next = 2 => place.of \in Workers
  /\ \A w \in Workers : found[w].next = 2 => found[w].of \in Workers

\* A worker nobody has cut in on reads its own body ...
OwnPlace(w) ==
  /\ pc[w] = "second" /\ ~crashed => place = Behind(w)
  /\ pc[w] = "token" => found[w] = Behind(w)
  /\ pc[w] \in {"M0", "M1"} => start[w] = body[w][2] /\ body[w] \in Known

\* ... and queues what it says, first for the one motor and then for the other, or
\* nothing.
OwnQueue(w) ==
  LET m0 == M0Command(body[w][1], SpeedFor(body[w][2]))
      m1 == M1Command(body[w][1], SpeedFor(body[w][2]))
  IN  /\ pc[w] = "M1" => QueuedBy(w) = {m0}
      /\ pc[w] = "done" => QueuedBy(w) = IF body[w] \in Known THEN {m0, m1} ELSE {}

\* A null pointer comes from a body without a second token, or to somebody who was
\* cut in on.
CrashInv == crashed => \E w \in Workers : mixed[w] \/ body[w][2] = NoToken

NothingYet(w) == pc[w] \in {"first", "second", "token", "M0"} => QueuedBy(w) = {}

IInv ==
  /\ TypeOK /\ PlacesInBodies /\ CrashInv
  /\ \A w \in Workers : NothingYet(w) /\ (~mixed[w] => OwnPlace(w) /\ OwnQueue(w))

\* Types and places hold in the beginning, and nobody has queued anything.
LEMMA InitInv == Init => IInv
<1> SUFFICES ASSUME Init PROVE IInv
  OBVIOUS
<1>1. TypeOK
  <2>1. NoPlace \in Places
    BY DEF NoPlace, Places
  <2>2. found \in [Workers -> Places] /\ mixed \in [Workers -> BOOLEAN]
    BY <2>1 DEF Init
  <2>3. queued \in Seq([by : Workers, command : MotorCommands])
    BY DEF Init
  <2> QED
    BY <2>1, <2>2, <2>3 DEF Init, TypeOK
<1>2. \A w \in Workers : QueuedBy(w) = {}
  BY DEF Init, QueuedBy
<1>3. PlacesInBodies /\ \A w \in Workers : NothingYet(w) /\ OwnPlace(w) /\ OwnQueue(w)
  BY <1>2 DEF Init, PlacesInBodies, NoPlace, NothingYet, OwnPlace, OwnQueue
<1>4. CrashInv
  BY DEF Init, CrashInv
<1> QED
  BY <1>1, <1>3, <1>4 DEF IInv

\* strtok(): nothing is queued, and whoever moves the place marks those whose
\* place it was.
LEMMA TokenInv ==
  ASSUME IInv, NEW w \in Workers, ~crashed,
         FirstToken(w) \/ SecondToken(w) \/ TakeVerb(w) \/ TakeStale(w) \/ TakeNull(w)
  PROVE  IInv'
<1>1. UNCHANGED <<body, queued>>
  BY DEF FirstToken, SecondToken, TakeVerb, TakeStale, TakeWord, TakeNull
<1>2. \A u \in Workers : QueuedBy(u)' = QueuedBy(u)
  BY <1>1 DEF QueuedBy
<1>3. NothingYet(w) /\ pc[w] \in {"first", "second", "token"} /\ QueuedBy(w) = {}
  BY DEF IInv, NothingYet, FirstToken, SecondToken, TakeVerb, TakeStale, TakeWord, TakeNull
<1>4. CASE FirstToken(w)
  <2>1. TypeOK' /\ PlacesInBodies' /\ CrashInv'
    <3>1. Behind(w) \in Places /\ Behind(w).of = w
      BY DEF Behind, Places
    <3> QED
      BY <1>4, <3>1 DEF IInv, TypeOK, PlacesInBodies, CrashInv, FirstToken, Goto, Disturb
  <2>2. ASSUME NEW u \in Workers, u # w
        PROVE  NothingYet(u)' /\ (~mixed'[u] => OwnPlace(u)' /\ OwnQueue(u)')
    BY <1>1, <1>2, <1>4, <2>2
    DEF IInv, TypeOK, NothingYet, OwnPlace, Behind, OwnQueue, FirstToken, Goto, Disturb
  <2>3. NothingYet(w)' /\ OwnPlace(w)' /\ OwnQueue(w)'
    BY <1>1, <1>2, <1>3, <1>4
    DEF IInv, TypeOK, NothingYet, OwnPlace, Behind, OwnQueue, FirstToken, Goto
  <2> QED
    BY <2>1, <2>2, <2>3 DEF IInv
<1>5. CASE SecondToken(w)
  <2>1. TypeOK' /\ PlacesInBodies' /\ CrashInv'
    BY <1>5 DEF IInv, TypeOK, PlacesInBodies, CrashInv, Places, SecondToken, Goto
  <2>2. ASSUME NEW u \in Workers, u # w
        PROVE  NothingYet(u)' /\ (~mixed'[u] => OwnPlace(u)' /\ OwnQueue(u)')
    BY <1>1, <1>2, <1>5, <2>2
    DEF IInv, TypeOK, NothingYet, OwnPlace, Behind, OwnQueue, SecondToken, Goto
  <2>3. NothingYet(w)' /\ (~mixed'[w] => OwnPlace(w)' /\ OwnQueue(w)')
    BY <1>1, <1>2, <1>3, <1>5
    DEF IInv, TypeOK, NothingYet, OwnPlace, Behind, OwnQueue, SecondToken, Goto
  <2> QED
    BY <2>1, <2>2, <2>3 DEF IInv
<1>6. CASE TakeVerb(w) \/ TakeStale(w)
  <2>1. found[w].of \in Workers /\ found[w] \in Places
    BY <1>6 DEF IInv, TypeOK, PlacesInBodies, TakeVerb, TakeStale, Stale
  <2>2. PICK word \in Words \cup {NoToken} : TakeWord(w, word)
    BY <1>6, <2>1 DEF IInv, TypeOK, Bodies, TakeVerb, TakeStale
  <2>3. place' \in Places /\ place'.next = 3
    BY <2>1, <2>2 DEF TakeWord, PastToken, Places
  <2>4. TypeOK' /\ PlacesInBodies' /\ CrashInv'
    BY <2>2, <2>3 DEF IInv, TypeOK, PlacesInBodies, CrashInv, TakeWord, Goto, Disturb
  <2>5. ASSUME NEW u \in Workers, u # w
        PROVE  NothingYet(u)' /\ (~mixed'[u] => OwnPlace(u)' /\ OwnQueue(u)')
    BY <1>1, <1>2, <2>2, <2>5
    DEF IInv, TypeOK, NothingYet, OwnPlace, Behind, OwnQueue, TakeWord, Goto, Disturb
  <2>6. NothingYet(w)' /\ (~mixed'[w] => OwnPlace(w)' /\ OwnQueue(w)')
    <3>1. NothingYet(w)' /\ mixed'[w] = mixed[w]
      BY <1>2, <1>3, <2>2 DEF IInv, TypeOK, NothingYet, TakeWord, Disturb
    <3>2. ASSUME ~mixed[w] PROVE OwnPlace(w)' /\ OwnQueue(w)'
      <4>1. found[w] = Behind(w) /\ pc[w] = "token"
        <5>1. OwnPlace(w) /\ pc[w] = "token"
          BY <2>2, <3>2 DEF IInv, TakeWord
        <5> QED
          BY <5>1 DEF OwnPlace
      <4>2. TakeVerb(w) /\ found[w].of = w
        BY <1>6, <4>1 DEF TakeStale, Stale, Behind
      <4>3. TakeWord(w, body[w][2])
        BY <4>2 DEF TakeVerb
      <4>4. body[w] = <<body[w][1], body[w][2]>>
        BY DEF IInv, TypeOK, Bodies
      <4>5. CASE body[w] \in Known
        <5>1. pc' = [pc EXCEPT ![w] = "M0"] /\ start' = [start EXCEPT ![w] = body[w][2]]
          BY <4>3, <4>4, <4>5 DEF TakeWord, Goto
        <5> QED
          BY <1>1, <4>5, <5>1 DEF IInv, TypeOK, OwnPlace, OwnQueue
      <4>6. CASE body[w] \notin Known
        <5>1. pc' = [pc EXCEPT ![w] = "done"]
          BY <4>3, <4>4, <4>6 DEF TakeWord, Goto
        <5>2. pc'[w] = "done"
          BY <5>1 DEF IInv, TypeOK
        <5> QED
          BY <1>1, <1>2, <1>3, <4>6, <5>2 DEF OwnPlace, OwnQueue
      <4> QED
        BY <4>5, <4>6
    <3> QED
      BY <3>1, <3>2
  <2> QED
    BY <2>4, <2>5, <2>6 DEF IInv
<1>7. CASE TakeNull(w)
  <2>1. TypeOK' /\ PlacesInBodies'
    <3>1. place' \in Places /\ place'.next = 3
      BY <1>7 DEF IInv, TypeOK, TakeNull, PastToken, Places
    <3> QED
      BY <1>7, <3>1 DEF IInv, TypeOK, PlacesInBodies, TakeNull
  <2>2. ASSUME NEW u \in Workers
        PROVE  NothingYet(u)' /\ (~mixed'[u] => OwnPlace(u)' /\ OwnQueue(u)')
    BY <1>1, <1>2, <1>7 DEF IInv, NothingYet, OwnPlace, Behind, OwnQueue, TakeNull
  <2>3. mixed[w] \/ body[w][2] = NoToken
    <3> SUFFICES ASSUME ~mixed[w] PROVE body[w][2] = NoToken
      OBVIOUS
    <3>1. OwnPlace(w) /\ pc[w] = "token" /\ (found[w].next = 3 \/ Stale(found[w]))
      BY <1>7 DEF IInv, TakeNull
    <3> QED
      BY <3>1 DEF OwnPlace, Behind, Stale
  <2>4. CrashInv'
    BY <1>7, <2>3 DEF CrashInv, TakeNull
  <2> QED
    BY <2>1, <2>2, <2>4 DEF IInv
<1> QED
  BY <1>4, <1>5, <1>6, <1>7

\* The two commands: what a worker queues is its own affair.
LEMMA QueueInv ==
  ASSUME IInv, NEW w \in Workers, QueueM0(w) \/ QueueM1(w)
  PROVE  IInv'
<1> DEFINE m0 == M0Command(body[w][1], SpeedFor(start[w]))
           m1 == M1Command(body[w][1], SpeedFor(start[w]))
<1>1. PICK command \in MotorCommands :
        /\ queued' = Append(queued, [by |-> w, command |-> command])
        /\ \/ pc[w] = "M0" /\ pc' = [pc EXCEPT ![w] = "M1"] /\ command = m0
           \/ pc[w] = "M1" /\ pc' = [pc EXCEPT ![w] = "done"] /\ command = m1
  BY CommandsObey DEF QueueM0, QueueM1, Goto, SpeedOf
<1>2. UNCHANGED <<body, start, place, found, crashed, mixed>>
  BY DEF QueueM0, QueueM1
<1>3. \A u \in Workers :
        QueuedBy(u)' = IF u = w THEN QueuedBy(u) \cup {command} ELSE QueuedBy(u)
  BY <1>1, QueuedGrows DEF IInv
<1>4. TypeOK'
  <2>1. TypeOK
    BY DEF IInv
  <2>2. pc' \in [Workers -> {"first", "second", "token", "M0", "M1", "done"}]
    BY ONLY <1>1, <2>1 DEF TypeOK
  <2>3. queued' \in Seq([by : Workers, command : MotorCommands])
    <3>1. [by |-> w, command |-> command] \in [by : Workers, command : MotorCommands]
      OBVIOUS
    <3>2. queued \in Seq([by : Workers, command : MotorCommands])
      BY <2>1 DEF TypeOK
    <3> QED
      BY ONLY <1>1, <3>1, <3>2
  <2> QED
    BY ONLY <1>2, <2>1, <2>2, <2>3 DEF TypeOK
<1>5. PlacesInBodies' /\ CrashInv'
  BY <1>2 DEF IInv, PlacesInBodies, CrashInv
<1>6. ASSUME NEW u \in Workers, u # w
      PROVE  NothingYet(u)' /\ (~mixed'[u] => OwnPlace(u)' /\ OwnQueue(u)')
  BY <1>1, <1>2, <1>3, <1>6 DEF IInv, TypeOK, NothingYet, OwnPlace, Behind, OwnQueue
<1>7. NothingYet(w)' /\ (~mixed'[w] => OwnPlace(w)' /\ OwnQueue(w)')
  BY <1>1, <1>2, <1>3 DEF IInv, TypeOK, NothingYet, OwnPlace, Behind, OwnQueue
<1> QED
  BY <1>4, <1>5, <1>6, <1>7 DEF IInv

\* Every step keeps the invariant.
LEMMA StepInv == IInv /\ [Next]_vars => IInv'
<1>1. IInv /\ Next => IInv'
  BY TokenInv, QueueInv DEF Next
<1>2. IInv /\ UNCHANGED vars => IInv'
  <2> SUFFICES ASSUME IInv, UNCHANGED vars PROVE IInv'
    OBVIOUS
  <2>1. TypeOK' /\ PlacesInBodies' /\ CrashInv'
    BY DEF vars, IInv, TypeOK, PlacesInBodies, CrashInv
  <2>2. \A w \in Workers : QueuedBy(w)' = QueuedBy(w)
    BY DEF vars, QueuedBy
  <2>3. \A w \in Workers :
          /\ NothingYet(w)' = NothingYet(w)
          /\ OwnPlace(w)' = OwnPlace(w) /\ OwnQueue(w)' = OwnQueue(w)
    BY <2>2 DEF vars, NothingYet, OwnPlace, Behind, OwnQueue
  <2>4. mixed' = mixed
    BY DEF vars
  <2> QED
    BY <2>1, <2>3, <2>4 DEF IInv
<1> QED
  BY <1>1, <1>2

\* What the invariant says of a worker that is done is what its body says.
LEMMA InvObeyed == IInv => UndisturbedObeyed
<1> SUFFICES ASSUME IInv PROVE UndisturbedObeyed
  OBVIOUS
<1>1. ASSUME NEW w \in Workers, pc[w] = "done", ~mixed[w], body[w] \in Known
      PROVE  /\ {c.motor : c \in QueuedBy(w)} = Motors
             /\ \A c \in QueuedBy(w) : Turns(c) <=> body[w][2] = "START"
  <2> DEFINE m0 == M0Command(body[w][1], SpeedFor(body[w][2]))
             m1 == M1Command(body[w][1], SpeedFor(body[w][2]))
  <2>1. QueuedBy(w) = {m0, m1}
    BY <1>1 DEF IInv, OwnQueue
  <2>2. m0.motor = 0 /\ m1.motor = 1
    BY CommandsObey
  <2>3. (Turns(m0) <=> body[w][2] = "START") /\ (Turns(m1) <=> body[w][2] = "START")
    BY CommandsObey
  <2> HIDE DEF m0, m1
  <2> QED
    BY <2>1, <2>2, <2>3 DEF Motors
<1>2. ASSUME NEW w \in Workers, pc[w] = "done", ~mixed[w], body[w] \notin Known
      PROVE  QueuedBy(w) = {}
  BY <1>2 DEF IInv, OwnQueue
<1> QED
  BY <1>1, <1>2 DEF UndisturbedObeyed, IInv, CrashInv

\* The types, for any number of requests and whatever their bodies: whoever moves
\* the place of strtok(), only commands of the setters are queued.
THEOREM TypeCorrect == Spec => []TypeOK
<1>1. IInv => TypeOK
  BY DEF IInv
<1> QED
  BY <1>1, InitInv, StepInv, PTL DEF Spec

\* A request whose calls of strtok() no other cuts in on has its body obeyed by
\* both motors, or by none if it is no command, and does not crash the process
\* unless its second token is missing, for any number of requests and in any order
\* of their steps.
THEOREM UndisturbedIsObeyed == Spec => []UndisturbedObeyed
<1> QED
  BY InitInv, StepInv, InvObeyed, PTL DEF Spec
================================================================================

------------------------------ MODULE MotorControl -----------------------------
(***************************************************************************)
(* processMotorControl() of MotorDriver/Qik2s9v1.c, run by one HTTP thread *)
(* per POST, several at a time: it takes the body apart with strtok(),     *)
(* which keeps its place in one static pointer of the process, and queues  *)
(* a command for either motor.                                             *)
(***************************************************************************)
EXTENDS QikCommands

CONSTANTS Workers,    \* the HTTP threads, one for each POST
          Directions, \* the directions the page posts
          OtherWord,  \* what is none of them, and no verb
          NoToken     \* the NULL of strtok()

\* What strtok() may find behind the first token.
Words == Verbs \cup {OtherWord}

\* postContent: the tokens of "<direction>_<verb>", or of something else; the
\* second may be missing, and with it the first.
Bodies == (Directions \cup {OtherWord}) \X (Words \cup {NoToken})

\* The bodies whose tokens strcmp() knows.
Known == Directions \X Verbs

ASSUME ControlAssumption ==
  /\ Directions \subseteq {"UP", "DOWN", "LEFT", "RIGHT"}
  /\ OtherWord \notin Verbs \cup Directions
  /\ NoToken \notin Words \cup Directions

VARIABLES
  pc,       \* where each worker is
  body,     \* per worker, its postContent
  start,    \* per worker, its second token
  place,    \* the static pointer of strtok(): in whose body, before which token
  crashed,  \* the process has followed a null pointer
  queued,   \* what QueueQikCommand() was called with, and by whom
  found,    \* per worker, the place its second strtok() has read
  mixed     \* history, per worker: another moved the place during its two calls

vars == <<pc, body, start, place, found, crashed, queued, mixed>>

NoPlace == [of |-> NoToken, next |-> 3]

Init ==
  /\ pc = [w \in Workers |-> "first"]
  /\ body \in [Workers -> Bodies]
  /\ start = [w \in Workers |-> NoToken]
  /\ place = NoPlace
  /\ crashed = FALSE
  /\ queued = << >>
  /\ found = [w \in Workers |-> NoPlace]
  /\ mixed = [w \in Workers |-> FALSE]

Goto(w, label) == pc' = [pc EXCEPT ![w] = label]

\* strtok() moves its place under everyone else who is between the two calls.
Disturb(w) ==
  mixed' = [u \in Workers |-> mixed[u] \/ (u # w /\ pc[u] \in {"second", "token"})]

\* In the body of w before its second token, or at its end if it has none.
Behind(w) == [of |-> w, next |-> IF body[w][2] = NoToken THEN 3 ELSE 2]

\* Mutant of FirstToken: the body is not handed to strtok(), which goes on
\* where it was.
FirstTokenFromPlace(w) ==
  /\ pc[w] = "first"
  /\ place' = IF place.next = 3 THEN Behind(w) ELSE place
  /\ Goto(w, "second")
  /\ Disturb(w)
  /\ UNCHANGED <<body, start, found, crashed, queued>>

\* dir = strtok(postContent, "_"): the place is now behind the direction of w.
FirstToken(w) ==
  /\ pc[w] = "first"
  /\ place' = Behind(w)
  /\ Goto(w, "second")
  /\ Disturb(w)
  /\ UNCHANGED <<body, start, found, crashed, queued>>

\* start = strtok(NULL, "_") reads the place first and ...
SecondToken(w) ==
  /\ pc[w] = "second"
  /\ found' = [found EXCEPT ![w] = place]
  /\ Goto(w, "token")
  /\ UNCHANGED <<body, start, place, crashed, queued, mixed>>

\* The place behind the token at a place: the end of the body.
PastToken(at) == [at EXCEPT !.next = 3]

\* ... moves it when it has found a word.  Without a verb and a direction that
\* strcmp() knows processMotorControl() returns.
TakeWord(w, word) ==
  /\ pc[w] = "token"
  /\ start' = [start EXCEPT ![w] = word]
  /\ Goto(w, IF <<body[w][1], word>> \in Known THEN "M0" ELSE "done")
  /\ place' = PastToken(found[w])
  /\ Disturb(w)
  /\ UNCHANGED <<body, found, crashed, queued>>

\* The second token of the one whose body that is.
TakeVerb(w) == found[w].next = 2 /\ TakeWord(w, body[found[w].of][2])

\* That worker has returned, and its stack holds anything.
Stale(at) == at.of \in Workers /\ pc[at.of] = "done"

TakeStale(w) == Stale(found[w]) /\ \E word \in Words : TakeWord(w, word)

\* The body is used up: strtok() returns NULL, and strcmp() follows it.
TakeNull(w) ==
  /\ pc[w] = "token"
  /\ found[w].next = 3 \/ Stale(found[w])
  /\ crashed' = TRUE
  /\ place' = PastToken(found[w])
  /\ UNCHANGED <<pc, body, start, found, queued, mixed>>

SpeedOf(w) == SpeedFor(start[w])

QueueM0(w) ==
  /\ pc[w] = "M0"
  /\ queued' = Append(queued, [by |-> w, command |-> M0Command(body[w][1], SpeedOf(w))])
  /\ Goto(w, "M1")
  /\ UNCHANGED <<body, start, place, found, crashed, mixed>>

QueueM1(w) ==
  /\ pc[w] = "M1"
  /\ queued' = Append(queued, [by |-> w, command |-> M1Command(body[w][1], SpeedOf(w))])
  /\ Goto(w, "done")
  /\ UNCHANGED <<body, start, place, found, crashed, mixed>>

\* Once the process has crashed no thread of it runs.
Next ==
  /\ ~crashed
  /\ \E w \in Workers :
       \/ FirstToken(w) \/ SecondToken(w) \/ TakeVerb(w) \/ TakeStale(w)
       \/ TakeNull(w) \/ QueueM0(w) \/ QueueM1(w)

Spec == Init /\ [][Next]_vars

-----------------------------------------------------------------------------
(***************************************************************************)
(* Properties.                                                             *)
(***************************************************************************)

Places == [of : Workers \cup {NoToken}, next : {2, 3}]

\* The types of the variables.
TypeOK ==
  /\ pc \in [Workers -> {"first", "second", "token", "M0", "M1", "done"}]
  /\ body \in [Workers -> Bodies]
  /\ start \in [Workers -> Words \cup {NoToken}]
  /\ place \in Places /\ found \in [Workers -> Places]
  /\ crashed \in BOOLEAN
  /\ queued \in Seq([by : Workers, command : MotorCommands])
  /\ mixed \in [Workers -> BOOLEAN]

\* What worker w has queued.
QueuedBy(w) == {queued[i].command : i \in {j \in 1 .. Len(queued) : queued[j].by = w}}

\* A request whose two calls of strtok() no other cuts in on does to both
\* motors what its body says: they turn after a START and do not after a STOP,
\* and a body that says something else does nothing to them.  It takes one that
\* was cut in on, or a body without a second token, to crash the process (lines
\* 305-354 and 174-297).
UndisturbedObeyed ==
  /\ \A w \in Workers : pc[w] = "done" /\ ~mixed[w] =>
       IF body[w] \in Known
         THEN /\ {c.motor : c \in QueuedBy(w)} = Motors
              /\ \A c \in QueuedBy(w) : Turns(c) <=> body[w][2] = "START"
         ELSE QueuedBy(w) = {}
  /\ crashed => \E w \in Workers : mixed[w] \/ body[w][2] = NoToken
================================================================================

------------------------------ MODULE HttpdAccept ------------------------------
(***************************************************************************)
(* The connections of the web server of MotorDriver/httpd.c: httpdMain()   *)
(* accepts them and creates a thread for each, to which it passes the      *)
(* address of its own variable client_sock; accept_request() copies that   *)
(* variable, reads a request, answers and closes.  What an answer consists *)
(* of is left out.                                                         *)
(*                                                                         *)
(* The operating system gives out the lowest free descriptor, refuses one  *)
(* when MaxFds are open, and keeps a thread until it is joined, which no   *)
(* thread of this program ever is, so that only so many can be created.    *)
(***************************************************************************)
EXTENDS Integers, Sequences, FiniteSets

CONSTANTS
  Clients,     \* the clients, each of which connects once
  Free,        \* stands for no client
  Methods,     \* the methods of their requests
  Settings,    \* the settings a behaviour may take place in
  MaxFds,      \* the descriptors left for connections
  MaxThreads   \* the most threads the process can create in any setting

ASSUME AcceptAssumption ==
  /\ Free \notin Clients /\ IsFiniteSet(Clients)
  /\ Methods \subseteq {"GET", "POST", "other"}
  /\ Settings \subseteq [patient : BOOLEAN, atOnce : Nat, threads : 0 .. MaxThreads]
  /\ MaxFds \in Nat /\ MaxThreads \in Nat

Fds == 1 .. MaxFds
Threads == 1 .. MaxThreads

VARIABLES
  setting,     \* does not change: whether clients wait for their answers, how
               \* many are connected at a time, how many threads can be created
  state,       \* per client: away, waiting to be accepted, open, answered, gone
  method,      \* per client, the method of its request
  unread,      \* the clients whose request nobody has read
  backlog,     \* the connections the system holds for accept()
  fds,         \* per descriptor, the client at its other end
  mainPc,      \* where httpdMain() is
  client_sock, \* its variable
  created,     \* how many threads it has created
  pc,          \* per thread, where accept_request() is
  client,      \* per thread, its copy of client_sock
  got          \* per thread, the client whose request it has read

clientVars == <<setting, state, method, unread>>
acceptVars == <<backlog, client_sock, created>>
mainVars == <<acceptVars, mainPc>>
threadVars == <<pc, client, got>>
vars == <<clientVars, mainVars, fds, threadVars>>

Init ==
  /\ setting \in Settings
  /\ state = [c \in Clients |-> "away"]
  /\ method \in [Clients -> Methods]
  /\ unread = Clients
  /\ backlog = << >>
  /\ fds = [f \in Fds |-> Free]
  /\ mainPc = "accept" /\ client_sock = -1 /\ created = 0
  /\ pc = [t \in Threads |-> "none"]
  /\ client = [t \in Threads |-> -1]
  /\ got = [t \in Threads |-> Free]

Goto(t, label) == pc' = [pc EXCEPT ![t] = label]

-----------------------------------------------------------------------------
(***************************************************************************)
(* httpdMain()                                                             *)
(***************************************************************************)

FreeFds == {f \in Fds : fds[f] = Free}

AcceptConnection ==
  /\ mainPc = "accept" /\ backlog # << >>
  /\ \E f \in FreeFds :
       /\ \A g \in FreeFds : f <= g
       /\ client_sock' = f
       /\ fds' = [fds EXCEPT ![f] = Head(backlog)]
  /\ state' = [c \in Clients |->
                 IF c = Head(backlog) /\ state[c] = "waiting" THEN "open" ELSE state[c]]
  /\ backlog' = Tail(backlog)
  /\ mainPc' = "create"
  /\ UNCHANGED <<setting, method, unread, created, threadVars>>

\* accept() returns -1: error_die() ends the process.
AcceptFails ==
  /\ mainPc = "accept" /\ FreeFds = {}
  /\ mainPc' = "dead"
  /\ UNCHANGED <<clientVars, backlog, client_sock, created, fds, threadVars>>

\* Mutant of CreateThread: pthread_create() is taken to succeed.
CreateUnchecked ==
  /\ mainPc = "create"
  /\ created' = created + 1
  /\ Goto(created', "start")
  /\ mainPc' = "accept"
  /\ UNCHANGED <<clientVars, backlog, client_sock, fds, client, got>>

CreateThread ==
  /\ mainPc = "create" /\ created < setting.threads
  /\ created' = created + 1
  /\ Goto(created', "start")
  /\ mainPc' = "accept"
  /\ UNCHANGED <<clientVars, backlog, client_sock, fds, client, got>>

\* perror(), and on to the next connection.
CreateFails ==
  /\ mainPc = "create" /\ created = setting.threads
  /\ mainPc' = "accept"
  /\ UNCHANGED <<clientVars, backlog, client_sock, created, fds, threadVars>>

-----------------------------------------------------------------------------
(***************************************************************************)
(* accept_request(), with what it calls                                    *)
(***************************************************************************)

\* client = *((int32_t*) clientPtr)
CopySocket(t) ==
  /\ pc[t] = "start"
  /\ client' = [client EXCEPT ![t] = client_sock]
  /\ Goto(t, "read")
  /\ UNCHANGED <<clientVars, mainVars, fds, got>>

\* The whole request is read by this thread.
ReadRequest(t) ==
  /\ pc[t] = "read"
  /\ LET c == fds[client[t]]
     IN  /\ c \in unread
         /\ unread' = unread \ {c}
         /\ got' = [got EXCEPT ![t] = c]
  /\ Goto(t, "answer")
  /\ UNCHANGED <<setting, state, method, mainVars, fds, client>>

\* Two threads read from the same socket and each gets some of the bytes: the
\* method of neither is one the server knows.
ReadPart(t, u) ==
  /\ pc[t] = "read" /\ pc[u] = "read"
  /\ t # u /\ client[t] = client[u]
  /\ fds[client[t]] \in unread
  /\ unread' = unread \ {fds[client[t]]}
  /\ pc' = [pc EXCEPT ![t] = "unimplemented", ![u] = "unimplemented"]
  /\ UNCHANGED <<setting, state, method, mainVars, fds, client, got>>

\* recv() has nothing to return: it waits on the connection it was called for.
ReadNothing(t) ==
  /\ pc[t] = "read"
  /\ fds[client[t]] \notin unread \cup {Free}
  /\ got' = [got EXCEPT ![t] = fds[client[t]]]
  /\ Goto(t, "wait")
  /\ UNCHANGED <<clientVars, mainVars, fds, client>>

\* The client has gone, or the descriptor was closed before recv().
ReadEnd(t) ==
  /\ \/ pc[t] = "wait" /\ state[got[t]] = "gone"
     \/ pc[t] = "read" /\ fds[client[t]] = Free
  /\ Goto(t, "unimplemented")
  /\ UNCHANGED <<clientVars, mainVars, fds, client, got>>

\* Whoever is at the other end of descriptor f receives an answer.  If it has
\* gone, SIGPIPE may end the process, which does not handle it.
Send(f) ==
  /\ state' = [c \in Clients |->
                 IF c = fds[f] /\ state[c] = "open" THEN "answered" ELSE state[c]]
  /\ \/ UNCHANGED mainPc
     \/ fds[f] # Free /\ state[fds[f]] = "gone" /\ mainPc' = "dead"

Known(t) == method[got[t]] \in {"GET", "POST"}

\* Mutant of Unimplemented: the descriptor is closed here too, whoever has it.
UnimplementedAndClose(t) ==
  /\ pc[t] = "unimplemented" \/ (pc[t] = "answer" /\ ~Known(t))
  /\ Send(client[t])
  /\ Goto(t, "close")
  /\ UNCHANGED <<setting, method, unread, acceptVars, fds, client, got>>

\* A method the server does not know: the thread answers and returns without
\* a close().  Nothing or garbage read counts as such a method.
Unimplemented(t) ==
  /\ pc[t] = "unimplemented" \/ (pc[t] = "answer" /\ ~Known(t))
  /\ Send(client[t])
  /\ Goto(t, "done")
  /\ UNCHANGED <<setting, method, unread, acceptVars, fds, client, got>>

\* Mutant of Answer: an early return without an answer.
AnswerNothing(t) ==
  /\ pc[t] = "answer" /\ Known(t)
  /\ Goto(t, "close")
  /\ UNCHANGED <<clientVars, mainVars, fds, client, got>>

Answer(t) ==
  /\ pc[t] = "answer" /\ Known(t)
  /\ Send(client[t])
  /\ Goto(t, "close")
  /\ UNCHANGED <<setting, method, unread, acceptVars, fds, client, got>>

\* Mutant of Close: the descriptor stays open.
ReturnWithoutClose(t) ==
  /\ pc[t] = "close"
  /\ Goto(t, "done")
  /\ UNCHANGED <<clientVars, mainVars, fds, client, got>>

Close(t) ==
  /\ pc[t] = "close"
  /\ fds' = [fds EXCEPT ![client[t]] = Free]
  /\ Goto(t, "done")
  /\ UNCHANGED <<clientVars, mainVars, client, got>>

Thread(t) ==
  \/ CopySocket(t)
  \/ ReadRequest(t)
  \/ \E u \in Threads : ReadPart(t, u)
  \/ ReadNothing(t)
  \/ ReadEnd(t)
  \/ Unimplemented(t)
  \/ Answer(t)
  \/ Close(t)

-----------------------------------------------------------------------------
(***************************************************************************)
(* The clients: each sends its request at once and goes when it has its    *)
(* answer.                                                                 *)
(***************************************************************************)

Connected == {c \in Clients : state[c] \notin {"away", "gone"}}

Connect(c) ==
  /\ state[c] = "away" /\ Cardinality(Connected) < setting.atOnce
  /\ state' = [state EXCEPT ![c] = "waiting"]
  /\ backlog' = Append(backlog, c)
  /\ UNCHANGED <<setting, method, unread, mainPc, client_sock, created, fds, threadVars>>

\* A client goes once it has its answer, an impatient one whenever it likes.
Leave(c) ==
  /\ state[c] = "answered" \/ (~setting.patient /\ state[c] \in {"waiting", "open"})
  /\ state' = [state EXCEPT ![c] = "gone"]
  /\ UNCHANGED <<setting, method, unread, mainVars, fds, threadVars>>

HttpdMain == AcceptConnection \/ AcceptFails \/ CreateThread \/ CreateFails

\* Nothing of the process runs once it has ended.
Next ==
  \/ mainPc # "dead" /\ (HttpdMain \/ \E t \in Threads : Thread(t))
  \/ \E c \in Clients : Connect(c) \/ Leave(c)

\* The scheduler runs every thread that can run; a client that has its answer
\* goes.  No client need connect.
Fairness ==
  /\ WF_vars(mainPc # "dead" /\ HttpdMain)
  /\ \A t \in Threads : WF_vars(mainPc # "dead" /\ Thread(t))
  /\ \A c \in Clients : WF_vars(Leave(c))

Spec == Init /\ [][Next]_vars /\ Fairness

-----------------------------------------------------------------------------
(***************************************************************************)
(* Properties.                                                             *)
(***************************************************************************)

\* The types of the variables.
TypeOK ==
  /\ setting \in Settings
  /\ state \in [Clients -> {"away", "waiting", "open", "answered", "gone"}]
  /\ method \in [Clients -> Methods]
  /\ unread \subseteq Clients
  /\ backlog \in Seq(Clients)
  /\ fds \in [Fds -> Clients \cup {Free}]
  /\ mainPc \in {"accept", "create", "dead"}
  /\ client_sock \in Fds \cup {-1}
  /\ created \in 0 .. setting.threads
  /\ pc \in [Threads -> {"none", "start", "read", "wait", "unimplemented", "answer",
                         "close", "done"}]
  /\ client \in [Threads -> Fds \cup {-1}]
  /\ got \in [Threads -> Clients \cup {Free}]

\* A thread that has read a request answers and closes the connection it came
\* on, although several threads may hold the same descriptor and descriptors
\* are given out again (lines 146-271).
AnswersWhoAsked ==
  \A t \in Threads : pc[t] = "close" \/ (pc[t] = "answer" /\ Known(t)) =>
    fds[client[t]] = got[t]

\* The clients come one at a time and wait for their answers, and each can be
\* given a thread.
Orderly ==
  setting.atOnce = 1 /\ setting.patient /\ setting.threads >= Cardinality(Clients)

\* When orderly clients have come and no thread has work to do, all descriptors
\* are free again but those of the clients whose method the server does not
\* know (lines 176-180, 269).
DescriptorsReturned ==
  Orderly /\ mainPc = "accept" /\ backlog = << >>
      /\ (\A t \in Threads : pc[t] \in {"none", "done"}) =>
    \A f \in Fds : fds[f] # Free => method[fds[f]] = "other"

\* Orderly clients are all answered, unless earlier ones with methods the server
\* does not know have used up the descriptors (lines 54-79, 146-271).
OrderlyAnswered ==
  \A c \in Clients :
    state[c] = "waiting" /\ Orderly ~> state[c] \in {"answered", "gone"} \/ mainPc = "dead"

\* What the comment of httpdMain() says, "If there is a connection, create a
\* thread to handle it, and keep listening for connections" (lines 35-38):
\* every client that connects is answered.
EveryClientAnswered ==
  \A c \in Clients : state[c] = "waiting" ~> state[c] \in {"answered", "gone"}
================================================================================

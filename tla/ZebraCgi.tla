-------------------------------- MODULE ZebraCgi -------------------------------
(***************************************************************************)
(* ZebraHttpd/httpd.c: a thread per request, which serves a file or forks  *)
(* a child that runs C code or becomes a script, with one pipe for its     *)
(* input and one for its output.                                           *)
(*                                                                         *)
(* What matters is who holds which end.  fork() copies every descriptor    *)
(* the server has open, those of other requests included; a reader sees    *)
(* the end when nobody holds the writing end, a writer is killed by        *)
(* SIGPIPE when nobody holds the reading end, and a client sees the end of *)
(* its page when nobody holds its socket.                                  *)
(*                                                                         *)
(* The loop of main() passes the address of client_sock, like the one of   *)
(* HttpdAccept.tla; here a thread has copied it by the next connection.    *)
(***************************************************************************)
EXTENDS Integers, Sequences, FiniteSets

CONSTANTS
  Requests,  \* the requests; the child forked for one has its name
  Server,    \* the process with the threads
  Kinds,     \* what may be requested, and how the script behind it behaves
  Limits,    \* how many descriptors and children the server can have, and whether
             \* clients wait for their answers
  Situations, \* a kind for each request together with limits
  PipeSize   \* the bytes a pipe holds

\* "C": a path that ends in .c.  The scripts: "counts" reads what was announced
\* and writes, "reads_on" reads to the end and writes, "ignores" its input and
\* writes, "echoes" byte by byte.  "none" cannot be executed.
Programs == {"C", "counts", "reads_on", "ignores", "echoes", "none"}

ASSUME CgiAssumption ==
  /\ Server \notin Requests /\ IsFiniteSet(Requests)
  /\ Kinds \subseteq [page : {"unknown", "missing", "file", "cgi"}, method : {"GET", "POST"},
                      announced : Nat \cup {-1}, body : Nat,
                      program : Programs, output : Nat]
  /\ \A k \in Kinds : k.method = "GET" => k.announced = -1
  /\ Limits \subseteq [fds : Nat, children : Nat, patient : BOOLEAN]
  /\ Situations \subseteq [kind : [Requests -> Kinds], limit : Limits]
  /\ PipeSize \in Nat \ {0}

Processes == Requests \cup {Server}
Ends == Requests \X {"client", "outR", "outW", "inR", "inW"}

VARIABLES
  kind, limit,
  gone,      \* the clients that have hung up
  server,    \* how the server is
  held,      \* per process, the ends it holds
  input,     \* per request, the bytes in the pipe cgi_input
  output,    \* per request, how many are in the pipe cgi_output
  pc,        \* per request, where execute_cgi() is
  i, c,      \* its locals: the bytes of the body it has read, and the last one
  received,  \* the bytes of output its client has been sent
  outcome,   \* what kept it from running its child
  childPc,   \* per request, where its child is
  taken,     \* the bytes the child has read
  put,       \* and written
  called     \* what its processMotorControl() was called with

clientVars == <<kind, limit, gone>>
pipeVars == <<held, input, output>>
localVars == <<i, c, received, outcome>>
childVars == <<childPc, taken, put, called>>
vars == <<clientVars, server, pipeVars, pc, localVars, childVars>>

NotCalled == << -1 >>
Garbage == 0

Init ==
  /\ \E s \in Situations : kind = s.kind /\ limit = s.limit
  /\ gone = {}
  /\ server = "runs"
  /\ held = [p \in Processes |-> {}]
  /\ input = [r \in Requests |-> << >>] /\ output = [r \in Requests |-> 0]
  /\ pc = [r \in Requests |-> "none"]
  /\ i = [r \in Requests |-> 0] /\ c = [r \in Requests |-> Garbage]
  /\ received = [r \in Requests |-> 0] /\ outcome = [r \in Requests |-> "fine"]
  /\ childPc = [r \in Requests |-> "none"]
  /\ taken = [r \in Requests |-> 0] /\ put = [r \in Requests |-> 0]
  /\ called = [r \in Requests |-> NotCalled]

Goto(r, label) == pc' = [pc EXCEPT ![r] = label]
ChildGoto(r, label) == childPc' = [childPc EXCEPT ![r] = label]

Nobody(r, end) == \A p \in Processes : <<r, end>> \notin held[p]

Opened(p, ends) == held' = [held EXCEPT ![p] = @ \cup ends]
Closed(p, ends) == held' = [held EXCEPT ![p] = @ \ ends]

FdsLeft == limit.fds - Cardinality(held[Server])

\* The server ends, with all of its threads.  Its children go on.
Die(how) == server' = how /\ held' = [held EXCEPT ![Server] = {}]

\* Several send() calls; to a client that has gone they may raise SIGPIPE,
\* which nobody handles.
Send(r) ==
  \/ UNCHANGED <<server, held>>
  \/ r \in gone /\ Die("killed")

-----------------------------------------------------------------------------
(***************************************************************************)
(* main(), accept_request() and serve_file()                               *)
(***************************************************************************)

Accept(r) ==
  /\ pc[r] = "none" /\ FdsLeft > 0
  /\ Opened(Server, {<<r, "client">>})
  /\ Goto(r, "request")
  /\ UNCHANGED <<clientVars, server, input, output, localVars, childVars>>

\* error_die("accept")
AcceptFails ==
  /\ FdsLeft = 0
  /\ Die("exited")
  /\ UNCHANGED <<clientVars, input, output, pc, localVars, childVars>>

IsPost(r) == kind[r].method = "POST"

\* An error page, and on to the close(), which an unknown method does without.
ErrorPage(r) ==
  /\ pc[r] = "request"
  /\ \/ kind[r].page \in {"unknown", "missing"}
     \/ kind[r].page = "cgi" /\ IsPost(r) /\ kind[r].announced = -1
  /\ Send(r)
  /\ Goto(r, IF kind[r].page = "unknown" THEN "done" ELSE "close")
  /\ UNCHANGED <<clientVars, input, output, localVars, childVars>>

\* When no descriptor is left fopen() fails, not_found() answers, and fclose()
\* is passed a null pointer.
\* The descriptor of the file is not counted while it is
\* served: it is there within this step alone.
ServeFile(r) ==
  /\ pc[r] = "request" /\ kind[r].page = "file"
  /\ Send(r)
  /\ Goto(r, IF FdsLeft > 0 THEN "close" ELSE "fclose")
  /\ UNCHANGED <<clientVars, input, output, localVars, childVars>>

CloseNull(r) ==
  /\ pc[r] = "fclose"
  /\ Die("crashed")
  /\ UNCHANGED <<clientVars, input, output, pc, localVars, childVars>>

Close(r) ==
  /\ pc[r] = "close"
  /\ Closed(Server, {<<r, "client">>})
  /\ Goto(r, "done")
  /\ UNCHANGED <<clientVars, server, input, output, localVars, childVars>>

-----------------------------------------------------------------------------
(***************************************************************************)
(* execute_cgi()                                                           *)
(***************************************************************************)

SendOk(r) ==
  /\ pc[r] = "request" /\ kind[r].page = "cgi" /\ ~(IsPost(r) /\ kind[r].announced = -1)
  /\ Send(r)
  /\ Goto(r, "cgi_output")
  /\ UNCHANGED <<clientVars, input, output, localVars, childVars>>

\* Mutant of Pipe: its result is not looked at.
PipeUnchecked(r, label, ends, next) ==
  /\ pc[r] = label
  /\ Opened(Server, {<<r, e>> : e \in ends})
  /\ Goto(r, next)
  /\ UNCHANGED <<clientVars, server, input, output, localVars, childVars>>

\* pipe(cgi_output), pipe(cgi_input)
Pipe(r, label, ends, next) ==
  /\ pc[r] = label
  /\ IF FdsLeft >= 2
       THEN Opened(Server, {<<r, e>> : e \in ends}) /\ Goto(r, next) /\ UNCHANGED outcome
       ELSE /\ Goto(r, "cannot_execute") /\ outcome' = [outcome EXCEPT ![r] = label]
            /\ UNCHANGED held
  /\ UNCHANGED <<clientVars, server, input, output, i, c, received, childVars>>

PipeOutput(r) == Pipe(r, "cgi_output", {"outR", "outW"}, "cgi_input")
PipeInput(r)  == Pipe(r, "cgi_input", {"inR", "inW"}, "fork")

Children == {r \in Requests : childPc[r] \notin {"none", "reaped"}}

\* The child has whatever the server has open.
Fork(r) ==
  /\ pc[r] = "fork"
  /\ IF Cardinality(Children) < limit.children
       THEN /\ Opened(r, held[Server])
            /\ ChildGoto(r, IF kind[r].program = "C" THEN "C" ELSE "dup2")
            /\ Goto(r, "close_outW") /\ UNCHANGED outcome
       ELSE /\ Goto(r, "cannot_execute") /\ outcome' = [outcome EXCEPT ![r] = "fork"]
            /\ UNCHANGED <<held, childPc>>
  /\ UNCHANGED <<clientVars, server, input, output, i, c, received, taken, put, called>>

\* A second status line, behind the one of SendOk; what is open stays open.
CannotExecute(r) ==
  /\ pc[r] = "cannot_execute"
  /\ Send(r)
  /\ Goto(r, "close")
  /\ UNCHANGED <<clientVars, input, output, localVars, childVars>>

CloseEnd(r, label, end, next) ==
  /\ pc[r] = label
  /\ Closed(Server, {<<r, end>>})
  /\ Goto(r, next)
  /\ UNCHANGED <<clientVars, server, input, output, localVars, childVars>>

\* Mutant of Recv: it does not wait for a byte.
RecvWithoutWaiting(r) ==
  /\ pc[r] = "recv" /\ i[r] < kind[r].announced
  /\ i' = [i EXCEPT ![r] = @ + 1]
  /\ c' = IF i[r] < kind[r].body THEN [c EXCEPT ![r] = i'[r]] ELSE c
  /\ Goto(r, "write")
  /\ UNCHANGED <<clientVars, server, pipeVars, received, outcome, childVars>>

\* A byte of the body.  The result of recv() is not looked at: once the client
\* has gone c is what it was.
Recv(r) ==
  /\ pc[r] = "recv" /\ i[r] < kind[r].announced
  /\ i[r] < kind[r].body \/ r \in gone
  /\ i' = [i EXCEPT ![r] = @ + 1]
  /\ c' = IF i[r] < kind[r].body THEN [c EXCEPT ![r] = i'[r]] ELSE c
  /\ Goto(r, "write")
  /\ UNCHANGED <<clientVars, server, pipeVars, received, outcome, childVars>>

BodyDone(r) ==
  /\ pc[r] = "recv" /\ i[r] >= kind[r].announced
  /\ Goto(r, "read")
  /\ UNCHANGED <<clientVars, server, pipeVars, localVars, childVars>>

\* write() of a byte waits for room, and for nobody it is fatal.
Write(r) ==
  /\ pc[r] = "write"
  /\ IF Nobody(r, "inR")
       THEN Die("killed") /\ UNCHANGED <<input, pc>>
       ELSE /\ Len(input[r]) < PipeSize
            /\ input' = [input EXCEPT ![r] = Append(@, c[r])]
            /\ Goto(r, "recv")
            /\ UNCHANGED <<server, held>>
  /\ UNCHANGED <<clientVars, output, localVars, childVars>>

\* read() of a byte of output, and send() of it.
Read(r) ==
  /\ pc[r] = "read" /\ output[r] > 0
  /\ output' = [output EXCEPT ![r] = @ - 1]
  /\ received' = [received EXCEPT ![r] = @ + 1]
  /\ Send(r)
  /\ UNCHANGED <<clientVars, input, pc, i, c, outcome, childVars>>

\* Mutant of ReadEnd: an empty pipe passes for the end.
ReadEmpty(r) ==
  /\ pc[r] = "read" /\ output[r] = 0
  /\ Goto(r, "close_outR")
  /\ UNCHANGED <<clientVars, server, pipeVars, localVars, childVars>>

ReadEnd(r) ==
  /\ pc[r] = "read" /\ output[r] = 0 /\ Nobody(r, "outW")
  /\ Goto(r, "close_outR")
  /\ UNCHANGED <<clientVars, server, pipeVars, localVars, childVars>>

Waitpid(r) ==
  /\ pc[r] = "waitpid" /\ childPc[r] = "ended"
  /\ ChildGoto(r, "reaped")
  /\ Goto(r, "close")
  /\ UNCHANGED <<clientVars, server, pipeVars, localVars, taken, put, called>>

\* Mutant of CloseEnds: the end the server writes to is not closed.
CloseAllButOne(r) ==
  \/ CloseEnd(r, "close_outW", "outW", "close_inR")
  \/ CloseEnd(r, "close_inR", "inR", "recv")
  \/ CloseEnd(r, "close_outR", "outR", "waitpid")

\* Mutant of CloseEnds: the server keeps the ends of its child.
CloseOwnOnly(r) ==
  \/ pc[r] = "close_outW" /\ Goto(r, "recv")
     /\ UNCHANGED <<clientVars, server, pipeVars, localVars, childVars>>
  \/ CloseEnd(r, "close_outR", "outR", "close_inW")
  \/ CloseEnd(r, "close_inW", "inW", "waitpid")

\* The server closes the child's ends behind fork(), its own in the end.
CloseEnds(r) ==
  \/ CloseEnd(r, "close_outW", "outW", "close_inR")
  \/ CloseEnd(r, "close_inR", "inR", "recv")
  \/ CloseEnd(r, "close_outR", "outR", "close_inW")
  \/ CloseEnd(r, "close_inW", "inW", "waitpid")

Thread(r) ==
  \/ Accept(r) \/ ErrorPage(r) \/ ServeFile(r) \/ CloseNull(r) \/ Close(r)
  \/ SendOk(r) \/ PipeOutput(r) \/ PipeInput(r) \/ Fork(r) \/ CannotExecute(r)
  \/ CloseEnds(r) \/ Recv(r) \/ BodyDone(r) \/ Write(r) \/ Read(r) \/ ReadEnd(r)
  \/ Waitpid(r)

-----------------------------------------------------------------------------
(***************************************************************************)
(* The child.  The one that runs C code keeps every end it was forked with *)
(* until its thread, the only one it has, is through and the process ends. *)
(***************************************************************************)

\* What read() of the announced length yields: the bytes that are there.
Announced(r) == SubSeq(input[r], 1, IF Len(input[r]) < kind[r].announced
                                      THEN Len(input[r]) ELSE kind[r].announced)

\* One read(), which waits for a byte; the end never comes, as the child itself
\* holds the end that is written to.
ReadContent(r) ==
  /\ childPc[r] = "C" /\ IsPost(r)
  /\ input[r] # << >> \/ kind[r].announced = 0
  /\ called' = [called EXCEPT ![r] = Announced(r)]
  /\ input' = [input EXCEPT ![r] = SubSeq(@, Len(Announced(r)) + 1, Len(@))]
  /\ ChildGoto(r, "exit")
  /\ UNCHANGED <<clientVars, server, held, output, pc, localVars, taken, put>>

\* For a GET nothing is read, and the buffer is not filled.
NoContent(r) ==
  /\ childPc[r] = "C" /\ ~IsPost(r)
  /\ called' = [called EXCEPT ![r] = <<Garbage>>]
  /\ ChildGoto(r, "exit")
  /\ UNCHANGED <<clientVars, server, pipeVars, pc, localVars, taken, put>>

\* Mutant of Execl: the end to read from is closed before it is duplicated.
ExeclClosingFirst(r) ==
  /\ childPc[r] = "dup2"
  /\ Closed(r, {<<r, "outR">>, <<r, "inW">>, <<r, "inR">>})
  /\ ChildGoto(r, IF kind[r].program = "none" THEN "exit" ELSE "runs")
  /\ UNCHANGED <<clientVars, server, input, output, pc, localVars, taken, put, called>>

\* dup2(), close() of the server's ends, execl(), and exit() if that fails.
Execl(r) ==
  /\ childPc[r] = "dup2"
  /\ Closed(r, {<<r, "outR">>, <<r, "inW">>})
  /\ ChildGoto(r, IF kind[r].program = "none" THEN "exit" ELSE "runs")
  /\ UNCHANGED <<clientVars, server, input, output, pc, localVars, taken, put, called>>

\* The script would read another byte.
Reads(r) ==
  CASE kind[r].program = "reads_on" -> TRUE
    [] kind[r].program = "counts"   -> taken[r] < kind[r].announced
    [] kind[r].program = "echoes"   -> taken[r] < kind[r].announced /\ taken[r] = put[r]
    [] kind[r].program = "ignores"  -> FALSE

\* What it writes altogether.
Output(r) ==
  CASE kind[r].program = "echoes" -> taken[r]
    [] kind[r].program \in {"counts", "reads_on", "ignores"} -> kind[r].output
    [] OTHER -> 0

Take(r) ==
  /\ childPc[r] = "runs" /\ Reads(r) /\ input[r] # << >>
  /\ input' = [input EXCEPT ![r] = Tail(@)]
  /\ taken' = [taken EXCEPT ![r] = @ + 1]
  /\ UNCHANGED <<clientVars, server, held, output, pc, localVars, childPc, put, called>>

\* The script sees the end of its input.
TakeEnd(r) ==
  /\ childPc[r] = "runs" /\ Reads(r) /\ input[r] = << >> /\ Nobody(r, "inW")
  /\ ChildGoto(r, "writes")
  /\ UNCHANGED <<clientVars, server, pipeVars, pc, localVars, taken, put, called>>

Writes(r) == childPc[r] = "writes" \/ (childPc[r] = "runs" /\ ~Reads(r))

Put(r) ==
  /\ Writes(r) /\ put[r] < Output(r)
  /\ IF Nobody(r, "outR")
       THEN ChildGoto(r, "exit") /\ UNCHANGED <<output, put>>
       ELSE /\ output[r] < PipeSize
            /\ output' = [output EXCEPT ![r] = @ + 1]
            /\ put' = [put EXCEPT ![r] = @ + 1]
            /\ UNCHANGED childPc
  /\ UNCHANGED <<clientVars, server, held, input, pc, localVars, taken, called>>

\* The end of a process gives back all it holds.
Exit(r) ==
  /\ \/ childPc[r] = "exit"
     \/ Writes(r) /\ put[r] = Output(r)
  /\ Closed(r, Ends)
  /\ ChildGoto(r, "ended")
  /\ UNCHANGED <<clientVars, server, input, output, pc, localVars, taken, put, called>>

Child(r) ==
  \/ ReadContent(r) \/ NoContent(r)
  \/ Execl(r) \/ Take(r) \/ TakeEnd(r) \/ Put(r) \/ Exit(r)

HangUp(r) ==
  /\ ~limit.patient /\ pc[r] # "none" /\ r \notin gone
  /\ gone' = gone \cup {r}
  /\ UNCHANGED <<kind, limit, server, pipeVars, pc, localVars, childVars>>

Next ==
  \/ server = "runs" /\ (AcceptFails \/ \E r \in Requests : Thread(r))
  \/ \E r \in Requests : Child(r) \/ HangUp(r)

\* Every thread and every process that can run does, and no client need hang up
\* or connect.
Fairness ==
  \A r \in Requests :
    /\ WF_vars(server = "runs" /\ pc[r] # "none" /\ Thread(r))
    /\ WF_vars(Child(r))

Spec == Init /\ [][Next]_vars /\ Fairness

-----------------------------------------------------------------------------
(***************************************************************************)
(* Properties.                                                             *)
(***************************************************************************)

\* The types of the variables; no pipe holds more than it can.
TypeOK ==
  /\ kind \in [Requests -> Kinds] /\ limit \in Limits /\ gone \subseteq Requests
  /\ server \in {"runs", "exited", "killed", "crashed"}
  /\ held \in [Processes -> SUBSET Ends] /\ FdsLeft >= 0
  /\ \A r \in Requests : Len(input[r]) <= PipeSize
  /\ output \in [Requests -> 0 .. PipeSize]
  /\ pc \in [Requests -> {"none", "request", "fclose", "cgi_output", "cgi_input", "fork",
                          "cannot_execute", "close_outW", "close_inR", "recv", "write",
                          "read", "close_outR", "close_inW", "waitpid", "close", "done"}]
  /\ i \in [Requests -> Nat] /\ c \in [Requests -> Nat] /\ received \in [Requests -> Nat]
  /\ outcome \in [Requests -> {"fine", "cgi_output", "cgi_input", "fork"}]
  /\ childPc \in [Requests -> {"none", "C", "dup2", "runs", "writes", "exit", "ended",
                               "reaped"}]
  /\ taken \in [Requests -> Nat] /\ put \in [Requests -> Nat]
  /\ \A r \in Requests : called[r] \in Seq(Nat \cup {-1})

Forked(r) == childPc[r] # "none"

\* When a thread has read all of its child's output the child has not been cut
\* short, and the client has been sent all of it, whatever the children of
\* other requests hold (lines 326-383).
PageWhole ==
  \A r \in Requests :
    server = "runs" /\ Forked(r) /\ pc[r] \in {"waitpid", "close", "done"} =>
      received[r] = put[r] /\ put[r] = Output(r)

\* The C code is called with a beginning of the body its own client sent, of at
\* least a byte, whoever else holds its pipe; when the client has gone early the
\* bytes it did not send are repeats of its last (lines 311-334, 360-367).
ContentIsOwn ==
  \A r \in Requests : IsPost(r) /\ called[r] # NotCalled =>
    /\ Len(called[r]) \in (IF kind[r].announced = 0 THEN {0} ELSE 1 .. kind[r].announced)
    /\ \A n \in 1 .. Len(called[r]) :
         called[r][n] = IF n <= kind[r].body THEN n ELSE kind[r].body
    /\ Len(called[r]) > kind[r].body => r \in gone

\* When all threads are through, the server holds the sockets of methods it
\* does not know, and the pipes of requests whose next pipe or child could not
\* be had; nothing else (lines 70, 152-161, 280-299, 357-381).
Leaked(r) ==
  CASE kind[r].page = "unknown" -> {<<r, "client">>}
    [] outcome[r] = "cgi_input" -> {<<r, "outR">>, <<r, "outW">>}
    [] outcome[r] = "fork" -> {<<r, e>> : e \in {"outR", "outW", "inR", "inW"}}
    [] OTHER -> {}

DescriptorsReturned ==
  server = "runs" /\ (\A r \in Requests : pc[r] \in {"none", "done"}) =>
    held[Server] = UNION {Leaked(r) : r \in {q \in Requests : pc[q] = "done"}}

\* A request that leaves none of its input unread, whose client sends what it
\* announces, and that cannot fill both pipes: no script that reads to the end,
\* which is only there once its output has ended, and no C code for more than
\* one byte, which may read fewer than will be written.
Gentle(k) ==
  \/ k.page # "cgi"
  \/ k.program = "C" /\ k.announced <= 0
  \/ k.program = "counts" /\ k.announced <= k.body
  \/ k.program = "C" /\ k.announced = 1 /\ k.body >= 1
  \/ k.program = "echoes" /\ k.announced <= k.body /\ k.announced <= 2 * PipeSize + 1

AllGentle == \A r \in Requests : Gentle(kind[r])

Enough == limit.fds > 5 * Cardinality(Requests)

\* Gentle requests of clients that stay do not end the server, whatever the
\* order in which threads and children run (lines 357-383).
GentleKeepsServer == AllGentle /\ Enough /\ gone = {} => server = "runs"

\* Gentle requests are served, and their clients see the end of the page,
\* although the children of other requests hold copies of their sockets and
\* pipes (lines 292-381).
GentleServed ==
  \A r \in Requests :
    pc[r] # "none" /\ AllGentle /\ Enough ~>
      gone # {} \/ (pc[r] = "done" /\ (Nobody(r, "client") \/ kind[r].page = "unknown"))
================================================================================

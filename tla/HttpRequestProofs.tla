--------------------------- MODULE HttpRequestProofs ---------------------------
(***************************************************************************)
(* Theorems about HttpRequest.tla, for whatever clients send, in lines of  *)
(* any length, and whenever they hang up.                                  *)
(***************************************************************************)
EXTENDS HttpRequest, SequenceTheorems, TLAPS

\* Where the thread has not answered yet, and where it has.
Silent == {"recv", "peek", "line", "unimplemented", "notFound", "file", "cgi", "ok"}
Answered == {"fclose", "execl", "body", "call", "close", "closed", "returned"}

Goals == {"request", "notFound", "file", "cgi"}

\* The one status line is sent between the two.
AnsweredOnce ==
  /\ goal \in Goals /\ replies \in Seq(Nat)
  /\ \/ pc \in Silent /\ Len(replies) = 0
     \/ pc \in Answered /\ Len(replies) = 1

\* Where what was decided is done.
DoneAsDecided ==
  /\ pc \in {"file", "fclose"} => goal = "file"
  /\ pc \in {"cgi", "ok", "execl", "body", "call"} => goal = "cgi"
  /\ pc = "fclose" => path # "file"
  /\ pc = "execl" => path # "motor_control.c"

\* What is decided about the requests of the page.
DecidedForPage ==
  goal \in {"file", "cgi"} =>
    /\ method = request.method
    /\ request.method = "GET" /\ request.target = "file" /\ ~request.query =>
         goal = "file" /\ path = "file"
    /\ request.method = "POST" /\ request.target = "motor_control.c" =>
         goal = "cgi" /\ path \in {"motor_control.c", "inside"}

\* How a process ends tells where the thread stopped.
EndedWhere ==
  /\ process \in {"runs", "killed", "crashed", "ended", "undefined"}
  /\ process = "killed" => hungUp
  /\ process = "crashed" => pc = "fclose" \/ (pc = "close" /\ goal = "cgi")
  /\ process = "ended" => pc = "execl"
  /\ process = "undefined" => pc = "body"

IInv == AnsweredOnce /\ DoneAsDecided /\ DecidedForPage /\ EndedWhere

\* The thread starts with nothing decided.
LEMMA InitInv == Init => IInv
<1> SUFFICES ASSUME Init PROVE IInv
  OBVIOUS
<1>1. replies = << >> /\ pc = "recv" /\ goal = "request" /\ process = "runs"
  BY DEF Init
<1>2. replies \in Seq(Nat) /\ Len(replies) = 0
  BY <1>1
<1> QED
  BY <1>1, <1>2
  DEF IInv, AnsweredOnce, Silent, Goals, DoneAsDecided, DecidedForPage, EndedWhere

\* get_line() moves between its own labels.
LEMMA GetLineInv == IInv /\ process = "runs" /\ GetLine => IInv'
<1> SUFFICES ASSUME IInv, process = "runs", GetLine PROVE IInv'
  OBVIOUS
<1>1. /\ pc \in {"recv", "peek"} /\ pc' \in {"recv", "peek", "line"}
      /\ UNCHANGED <<request, hungUp, goal, method, path, replies, process>>
  BY DEF GetLine, RecvByte, RecvNothing, Peek, Store, clientVars, parsedVars, effectVars,
         lineVars
<1> QED
  BY <1>1 DEF IInv, AnsweredOnce, Silent, Answered, DoneAsDecided, DecidedForPage, EndedWhere

\* The mode of a file is read, and is not that of a directory or a script; the
\* method of a POST makes it C code whatever the mode.
LEMMA AcceptInv == IInv /\ process = "runs" /\ AcceptRequest => IInv'
<1> SUFFICES ASSUME IInv, process = "runs", AcceptRequest PROVE IInv'
  OBVIOUS
<1>1. pc = "line" /\ goal = "request" /\ UNCHANGED <<request, hungUp, replies, process>>
      /\ method' \in {request.method, "other"}
  BY DEF AcceptRequest, clientVars, effectVars
<1>2. CASE method' = "other"
  <2>1. pc' = "unimplemented" /\ UNCHANGED <<goal, path>>
    BY <1>2 DEF AcceptRequest
  <2> QED
    BY <1>1, <2>1
    DEF IInv, AnsweredOnce, Silent, Answered, DoneAsDecided, DecidedForPage, EndedWhere
<1>3. CASE method' # "other" /\ request.target = "missing"
  <2>1. pc' = "recv" /\ goal' = "notFound"
    BY <1>3 DEF AcceptRequest, NextLine
  <2> QED
    BY <1>1, <2>1
    DEF IInv, AnsweredOnce, Silent, Answered, Goals, DoneAsDecided, DecidedForPage, EndedWhere
<1>4. CASE method' # "other" /\ request.target # "missing"
  <2>1. PICK mode \in Modes(request.target) : Decide(mode)
    BY <1>4 DEF AcceptRequest
  <2>2. pc' = "recv" /\ goal' \in {"file", "cgi"}
    BY <1>4, <2>1 DEF AcceptRequest, NextLine, Decide
  <2>3. method' = request.method
    BY <1>1, <1>4
  <2>4. ASSUME request.method = "GET", request.target = "file", ~request.query
        PROVE  goal' = "file" /\ path' = "file"
    <3>1. mode = {}
      BY <2>1, <2>4 DEF Modes
    <3> QED
      BY <2>1, <2>3, <2>4, <3>1 DEF Decide, IsCgi
  <2>5. ASSUME request.method = "POST", request.target = "motor_control.c"
        PROVE  goal' = "cgi" /\ path' \in {"motor_control.c", "inside"}
    BY <2>1, <2>3, <2>5 DEF Decide, IsCgi
  <2>6. DecidedForPage'
    BY <1>1, <2>3, <2>4, <2>5 DEF DecidedForPage
  <2>7. (AnsweredOnce /\ DoneAsDecided /\ EndedWhere)'
    BY <1>1, <2>2
    DEF IInv, AnsweredOnce, Silent, Answered, Goals, DoneAsDecided, EndedWhere
  <2> QED
    BY <2>6, <2>7 DEF IInv
<1> QED
  BY <1>2, <1>3, <1>4

\* The thread goes from the headers to what was decided.
LEMMA HeaderInv == IInv /\ process = "runs" /\ ReadHeader => IInv'
<1> SUFFICES ASSUME IInv, process = "runs", ReadHeader PROVE IInv'
  OBVIOUS
<1>1. /\ pc = "line" /\ goal # "request" /\ pc' \in {"recv", goal}
      /\ UNCHANGED <<request, hungUp, goal, method, path, replies, process>>
  BY DEF ReadHeader, NextLine, clientVars, effectVars
<1>2. AnsweredOnce'
  BY <1>1 DEF IInv, AnsweredOnce, Silent, Answered, Goals
<1>3. DoneAsDecided'
  BY <1>1 DEF IInv, AnsweredOnce, Goals, DoneAsDecided
<1>4. DecidedForPage'
  BY <1>1 DEF IInv, DecidedForPage
<1>5. EndedWhere'
  BY <1>1 DEF IInv, EndedWhere
<1> QED
  BY <1>2, <1>3, <1>4, <1>5 DEF IInv

\* Of two answers one would have to be sent where the thread has answered.
LEMMA ReplyInv ==
  IInv /\ process = "runs" /\ (Unimplemented \/ NotFound \/ ServeFile \/ BadRequest \/ SendOk)
    => IInv'
<1> SUFFICES ASSUME IInv, process = "runs",
                    Unimplemented \/ NotFound \/ ServeFile \/ BadRequest \/ SendOk
             PROVE  IInv'
  OBVIOUS
<1> DEFINE Step(status) ==
             /\ replies' = Append(replies, status)
             /\ process' = "runs" \/ (hungUp /\ process' = "killed")
             /\ UNCHANGED <<request, hungUp, goal, method, path>>
             /\ \/ pc \in {"unimplemented", "notFound", "cgi"} /\ pc' \in {"close", "returned"}
                \/ pc = "file" /\ pc' = "close"
                \/ pc = "file" /\ pc' = "fclose" /\ path # "file"
                \/ pc = "ok" /\ pc' = "execl" /\ path # "motor_control.c"
                \/ pc = "ok" /\ pc' \in {"body", "call"}
<1>1. PICK status \in Nat : Step(status)
  <2>1. CASE Unimplemented
    <3>1. Step(501)
      BY <2>1 DEF Unimplemented, Reply, clientVars, parsedVars
    <3> QED
      BY <3>1
  <2>2. CASE NotFound
    <3>1. Step(404)
      BY <2>2 DEF NotFound, Reply, clientVars, parsedVars
    <3> QED
      BY <3>1
  <2>3. CASE ServeFile
    <3>1. Step(200) \/ Step(404)
      BY <2>3 DEF ServeFile, Reply, clientVars, parsedVars
    <3> QED
      BY <3>1
  <2>4. CASE BadRequest
    <3>1. Step(400)
      BY <2>4 DEF BadRequest, Reply, clientVars, parsedVars
    <3> QED
      BY <3>1
  <2>5. CASE SendOk
    <3>1. Step(200)
      BY <2>5 DEF SendOk, Reply, clientVars, parsedVars
    <3> QED
      BY <3>1
  <2> QED
    BY <2>1, <2>2, <2>3, <2>4, <2>5
<1>2. AnsweredOnce'
  <2>1. replies \in Seq(Nat) /\ Len(replies) = 0
    BY <1>1 DEF IInv, AnsweredOnce, Silent, Answered
  <2>2. replies' \in Seq(Nat) /\ Len(replies') = 1
    BY <1>1, <2>1
  <2>3. pc' \in Answered
    BY <1>1 DEF Answered
  <2>4. goal' \in Goals
    BY <1>1 DEF IInv, AnsweredOnce
  <2> QED
    BY <2>2, <2>3, <2>4 DEF AnsweredOnce
<1>3. DoneAsDecided'
  BY <1>1 DEF IInv, AnsweredOnce, Goals, DoneAsDecided
<1>4. DecidedForPage'
  BY <1>1 DEF IInv, DecidedForPage
<1>5. EndedWhere'
  BY <1>1 DEF IInv, EndedWhere
<1> QED
  BY <1>2, <1>3, <1>4, <1>5 DEF IInv

\* What the thread does without an answer.
LEMMA QuietInv ==
  /\ IInv /\ process = "runs"
  /\ CloseNull \/ GoOn \/ Execl \/ RecvBody \/ OverflowPostContent \/ BodyRead
       \/ ProcessMotorControl \/ Close
  => IInv'
<1> SUFFICES ASSUME IInv, process = "runs",
                    CloseNull \/ GoOn \/ Execl \/ RecvBody \/ OverflowPostContent \/ BodyRead
                      \/ ProcessMotorControl \/ Close
             PROVE  IInv'
  OBVIOUS
<1>1. /\ UNCHANGED <<request, hungUp, goal, method, path, replies>>
      /\ \/ pc = "fclose" /\ pc' = pc /\ process' = "crashed"
         \/ pc = "execl" /\ pc' = pc /\ process' = "ended"
         \/ pc = "body" /\ pc' = pc /\ process' = "undefined"
         \/ pc = "call" /\ pc' = "close" /\ process' = "crashed"
         \/ process' = process /\ pc = "cgi" /\ pc' = "ok"
         \/ process' = process /\ pc = "body" /\ pc' \in {"body", "call"}
         \/ process' = process /\ pc = "call" /\ pc' = "close"
         \/ process' = process /\ pc = "close" /\ pc' = "closed"
  BY DEF CloseNull, GoOn, Execl, RecvBody, OverflowPostContent, BodyRead, ProcessMotorControl,
         Filled, Close,
         clientVars, parsedVars, effectVars
<1>2. AnsweredOnce'
  BY <1>1 DEF IInv, AnsweredOnce, Silent, Answered, Goals
<1>3. DoneAsDecided'
  BY <1>1 DEF IInv, AnsweredOnce, Goals, DoneAsDecided
<1>4. DecidedForPage'
  BY <1>1 DEF IInv, DecidedForPage
<1>5. EndedWhere'
  BY <1>1 DEF IInv, DoneAsDecided, EndedWhere
<1> QED
  BY <1>2, <1>3, <1>4, <1>5 DEF IInv

\* Every step keeps the invariant.
LEMMA StepInv == IInv /\ [Next]_vars => IInv'
<1>1. IInv /\ Thread => IInv'
  BY GetLineInv, AcceptInv, HeaderInv, ReplyInv, QuietInv DEF Thread
<1>2. IInv /\ (Arrive \/ HangUp \/ UNCHANGED vars) => IInv'
  <2> SUFFICES ASSUME IInv, Arrive \/ HangUp \/ UNCHANGED vars PROVE IInv'
    OBVIOUS
  <2>1. UNCHANGED <<request, pc, goal, method, path, replies, process>> /\ (hungUp => hungUp')
    BY DEF Arrive, HangUp, vars, clientVars, lineVars, parsedVars, effectVars
  <2>2. (AnsweredOnce /\ DoneAsDecided /\ DecidedForPage)'
    BY <2>1 DEF IInv, AnsweredOnce, DoneAsDecided, DecidedForPage
  <2>3. EndedWhere'
    BY <2>1 DEF IInv, EndedWhere
  <2> QED
    BY <2>2, <2>3 DEF IInv
<1> QED
  BY <1>1, <1>2 DEF Next

\* One answer and no second, whatever is asked and wherever in it the client
\* hangs up.
THEOREM AnswersOnce == Spec => []OneAnswer
<1>1. IInv => OneAnswer
  <2> SUFFICES ASSUME AnsweredOnce PROVE OneAnswer
    BY DEF IInv
  <2>1. CASE pc \in Silent /\ Len(replies) = 0
    BY <2>1 DEF Silent, OneAnswer
  <2>2. CASE pc \in Answered /\ Len(replies) = 1
    BY <2>2 DEF OneAnswer
  <2> QED
    BY <2>1, <2>2 DEF AnsweredOnce
<1> QED
  BY <1>1, InitInv, StepInv, PTL DEF Spec

-----------------------------------------------------------------------------
(***************************************************************************)
(* The types of the variables, with the bounds of the buffer of get_line() *)
(* and of what is stored of the body.                                      *)
(***************************************************************************)

\* What recv() may yield, and what is stored besides.
Bytes == {stream[n] : n \in Nat} \cup {LF, Nul}

Pcs == {"recv", "peek", "line", "unimplemented", "notFound", "file", "fclose", "cgi",
        "ok", "execl", "body", "call", "close", "closed", "returned"}

\* How far the thread is in the stream, which is not ahead of the client.
StreamInv ==
  /\ request \in Requests
  /\ arrived \in 0 .. Len(stream) /\ at \in 0 .. arrived /\ hungUp \in BOOLEAN

\* What is decided and announced comes from the request.
ParsedInv ==
  /\ pc \in Pcs /\ goal \in Goals
  /\ method \in {"GET", "POST", "other"} /\ path \in Targets \cup {"inside"}
  /\ content_length \in {-1, request.announced}
  /\ process \in {"runs", "ended", "crashed", "killed", "undefined"}

\* get_line() goes on only while there is room for a byte and the null, and no
\* more of the body is read than was announced, or than postContent holds.
BufferInv ==
  /\ buf \in Seq(Bytes) /\ Len(buf) < LineSize
  /\ pc \in {"recv", "peek"} => Len(buf) < LineSize - 1
  /\ postContent \in Seq(Bytes) /\ Len(postContent) <= request.announced
  /\ Len(postContent) <= PostSize

TInv == StreamInv /\ ParsedInv /\ BufferInv

\* The request does not change.
LEMMA RequestStays == ASSUME [Next]_vars PROVE request' = request /\ Bytes' = Bytes
<1>1. request' = request
  BY DEF Next, Thread, GetLine, RecvByte, RecvNothing, Peek, AcceptRequest, ReadHeader,
         Unimplemented, NotFound, ServeFile, CloseNull, BadRequest, GoOn, SendOk, Execl,
         RecvBody, OverflowPostContent, BodyRead, ProcessMotorControl, Close, Arrive, HangUp,
         vars, clientVars
<1> QED
  BY <1>1 DEF Bytes, stream

\* What the assumptions say of the request that is served.
LEMMA RequestShape ==
  ASSUME request \in Requests
  PROVE  /\ request.announced \in Nat /\ request.method \in {"GET", "POST", "other"}
         /\ request.target \in Targets /\ Len(stream) \in Nat /\ LineSize \in Nat \ {0, 1}
<1>1. /\ request.lines \in Seq(Seq(STRING)) /\ request.lineAt \in Seq(Nat)
      /\ Len(request.lineAt) = Len(request.lines) + 1 /\ request.body \in Seq(STRING)
      /\ Len(stream) = BodyAt(request) + Len(request.body)
  BY RequestAssumption DEF LaidOut, stream
<1>2. Len(request.lines) + 1 \in 1 .. Len(request.lineAt)
  BY <1>1
<1>3. BodyAt(request) \in Nat
  BY <1>1, <1>2, ElementOfSeq DEF BodyAt
<1>4. Len(stream) \in Nat
  BY <1>1, <1>3
<1> QED
  BY <1>4, RequestAssumption

\* A byte that is stored leaves room for the null.
LEMMA StoreBounds ==
  ASSUME BufferInv, pc \in {"recv", "peek"}, NEW byte \in Bytes, Store(byte)
  PROVE  /\ buf' \in Seq(Bytes) /\ Len(buf') < LineSize
         /\ pc' \in {"recv", "line"} /\ (pc' = "recv" => Len(buf') < LineSize - 1)
<1>1. buf \in Seq(Bytes) /\ Len(buf) < LineSize - 1 /\ buf' = Append(buf, byte)
  BY DEF BufferInv, Store
<1>2. buf' \in Seq(Bytes) /\ Len(buf') = Len(buf) + 1 /\ Len(buf) \in Nat
  BY <1>1, AppendProperties, LenProperties
<1>3. LineSize \in Nat
  BY RequestAssumption
<1>4. pc' = IF byte = LF \/ Len(buf') = LineSize - 1 THEN "line" ELSE "recv"
  BY DEF Store
<1>5. Len(buf') < LineSize /\ (Len(buf') # LineSize - 1 => Len(buf') < LineSize - 1)
  BY <1>1, <1>2, <1>3
<1> QED
  BY <1>2, <1>4, <1>5

\* The thread reads what has arrived, and no more.
LEMMA StreamStep == ASSUME TInv, [Next]_vars PROVE StreamInv'
<1>1. request' = request /\ Len(stream) \in Nat /\ stream' = stream
  BY RequestStays, RequestShape DEF TInv, StreamInv, stream
<1>2. arrived \in 0 .. Len(stream) /\ at \in 0 .. arrived /\ hungUp \in BOOLEAN
  BY DEF TInv, StreamInv
<1>3. CASE Arrive
  <2>1. arrived < Len(stream) /\ arrived' = arrived + 1 /\ at' = at /\ hungUp' = hungUp
    BY <1>3 DEF Arrive, lineVars
  <2>2. arrived' \in 0 .. Len(stream) /\ at' \in 0 .. arrived'
    BY <1>1, <1>2, <2>1
  <2> QED
    BY <1>1, <1>2, <2>1, <2>2 DEF TInv, StreamInv
<1>4. CASE HangUp
  BY <1>1, <1>2, <1>4 DEF HangUp, lineVars, TInv, StreamInv
<1>5. CASE Thread
  <2>1. arrived' = arrived /\ hungUp' = hungUp
    BY <1>5
    DEF Thread, GetLine, RecvByte, RecvNothing, Peek, AcceptRequest, ReadHeader,
        Unimplemented, NotFound, ServeFile, CloseNull, BadRequest, GoOn, SendOk, Execl,
        RecvBody, OverflowPostContent, BodyRead, ProcessMotorControl, Close, clientVars
  <2>2. at' = at \/ (at' = at + 1 /\ at < arrived)
    BY <1>5
    DEF Thread, GetLine, RecvByte, RecvNothing, Peek, AcceptRequest, ReadHeader,
        Unimplemented, NotFound, ServeFile, CloseNull, BadRequest, GoOn, SendOk, Execl,
        RecvBody, OverflowPostContent, BodyRead, ProcessMotorControl, Close, ByteThere, lineVars
  <2>3. at' \in 0 .. arrived
    BY <1>1, <1>2, <2>2
  <2> QED
    BY <1>1, <1>2, <2>1, <2>3 DEF TInv, StreamInv
<1>6. CASE UNCHANGED vars
  BY <1>1, <1>2, <1>6 DEF vars, clientVars, lineVars, TInv, StreamInv
<1> QED
  BY <1>3, <1>4, <1>5, <1>6 DEF Next

\* What is decided is among what can be.
LEMMA ParsedStep == ASSUME TInv, [Next]_vars PROVE ParsedInv'
<1>1. /\ request' = request /\ request \in Requests /\ request.target \in Targets
      /\ request.method \in {"GET", "POST", "other"}
  BY RequestStays, RequestShape DEF TInv, StreamInv
<1>2. CASE GetLine
  <2>1. pc' \in {"recv", "peek", "line"}
    BY <1>2 DEF GetLine, RecvByte, RecvNothing, Peek, Store
  <2>2. UNCHANGED <<goal, method, path, content_length, process>>
    BY <1>2 DEF GetLine, RecvByte, RecvNothing, Peek, parsedVars, effectVars
  <2> QED
    BY <1>1, <2>1, <2>2 DEF TInv, ParsedInv, Pcs
<1>3. CASE AcceptRequest
  <2>1. UNCHANGED <<content_length, process>> /\ pc' \in {"unimplemented", "recv"}
    BY <1>3 DEF AcceptRequest, NextLine, effectVars
  <2>2. method' \in {"GET", "POST", "other"}
    BY <1>1, <1>3 DEF AcceptRequest
  <2>3. goal' \in Goals /\ path' \in Targets \cup {"inside"}
    <3>1. CASE method' = "other"
      BY <1>3, <3>1 DEF AcceptRequest, TInv, ParsedInv
    <3>2. CASE method' # "other" /\ request.target = "missing"
      BY <1>3, <3>2 DEF AcceptRequest, Goals, Targets
    <3>3. CASE method' # "other" /\ request.target # "missing"
      <4>1. PICK mode \in Modes(request.target) : Decide(mode)
        BY <1>3, <3>3 DEF AcceptRequest
      <4> QED
        BY <1>1, <4>1 DEF Decide, Goals
    <3> QED
      BY <3>1, <3>2, <3>3
  <2> QED
    BY <1>1, <2>1, <2>2, <2>3 DEF TInv, ParsedInv, Pcs
<1>4. CASE ReadHeader
  <2>1. /\ pc' \in {"recv", goal} /\ goal # "request"
        /\ content_length' \in {content_length, request.announced}
        /\ UNCHANGED <<goal, method, path, process>>
    BY <1>4 DEF ReadHeader, NextLine, effectVars
  <2> QED
    BY <1>1, <2>1 DEF TInv, ParsedInv, Pcs, Goals
<1>5. CASE Unimplemented \/ NotFound \/ ServeFile \/ BadRequest \/ SendOk
  <2>1. UNCHANGED <<goal, method, path, content_length>> /\ process' \in {"runs", "killed"}
    BY <1>5 DEF Unimplemented, NotFound, ServeFile, BadRequest, SendOk, Reply, parsedVars
  <2>2. pc' \in {"returned", "close", "fclose", "execl", "body", "call"}
    BY <1>5 DEF Unimplemented, NotFound, ServeFile, BadRequest, SendOk
  <2> QED
    BY <1>1, <2>1, <2>2 DEF TInv, ParsedInv, Pcs
<1>6. CASE CloseNull \/ GoOn \/ Execl \/ RecvBody \/ OverflowPostContent \/ BodyRead
           \/ ProcessMotorControl \/ Close
  <2>1. UNCHANGED <<goal, method, path, content_length>>
    BY <1>6
    DEF CloseNull, GoOn, Execl, RecvBody, OverflowPostContent, BodyRead, ProcessMotorControl,
        Close, parsedVars
  <2>2. pc' \in {pc, "ok", "call", "close", "closed"}
    BY <1>6
    DEF CloseNull, GoOn, Execl, RecvBody, OverflowPostContent, BodyRead, ProcessMotorControl,
        Close
  <2>3. process' \in {process, "crashed", "ended", "undefined"}
    BY <1>6
    DEF CloseNull, GoOn, Execl, RecvBody, OverflowPostContent, BodyRead, ProcessMotorControl,
        Close, effectVars
  <2> QED
    BY <1>1, <2>1, <2>2, <2>3 DEF TInv, ParsedInv, Pcs
<1>7. CASE Arrive \/ HangUp \/ UNCHANGED vars
  BY <1>1, <1>7
  DEF Arrive, HangUp, vars, parsedVars, effectVars, TInv, ParsedInv
<1> QED
  BY <1>2, <1>3, <1>4, <1>5, <1>6, <1>7 DEF Next, Thread

\* Neither buffer overflows.
LEMMA BufferStep == ASSUME TInv, [Next]_vars PROVE BufferInv'
<1>1. /\ request' = request /\ Bytes' = Bytes /\ request.announced \in Nat
      /\ LineSize \in Nat \ {0, 1} /\ BufferInv /\ PostSize \in Nat
  BY RequestAssumption, RequestStays, RequestShape DEF TInv, StreamInv
<1>2. \A n \in Nat : stream[n] \in Bytes
  BY DEF Bytes
<1>3. LF \in Bytes /\ Nul \in Bytes
  BY DEF Bytes
<1>4. at + 1 \in Nat
  BY RequestShape DEF TInv, StreamInv
<1>5. CASE RecvByte
  <2>1. postContent' = postContent /\ pc = "recv"
    BY <1>5 DEF RecvByte, parsedVars
  <2>2. CASE stream[at'] = CR
    <3>1. buf' = buf /\ pc' = "peek"
      BY <1>5, <2>2 DEF RecvByte
    <3> QED
      BY <1>1, <2>1, <3>1 DEF BufferInv
  <2>3. CASE stream[at'] # CR
    <3>1. Store(stream[at']) /\ stream[at'] \in Bytes
      BY <1>2, <1>4, <1>5, <2>3 DEF RecvByte
    <3>2. /\ buf' \in Seq(Bytes) /\ Len(buf') < LineSize
          /\ pc' \in {"recv", "line"} /\ (pc' = "recv" => Len(buf') < LineSize - 1)
      BY <1>1, <2>1, <3>1, StoreBounds
    <3> QED
      BY <1>1, <2>1, <3>2 DEF BufferInv
  <2> QED
    BY <2>2, <2>3
<1>6. CASE Peek
  <2>1. postContent' = postContent /\ pc = "peek" /\ Store(LF)
    BY <1>6 DEF Peek, parsedVars
  <2>2. /\ buf' \in Seq(Bytes) /\ Len(buf') < LineSize
        /\ pc' \in {"recv", "line"} /\ (pc' = "recv" => Len(buf') < LineSize - 1)
    BY <1>1, <1>3, <2>1, StoreBounds
  <2> QED
    BY <1>1, <2>1, <2>2 DEF BufferInv
<1>7. CASE AcceptRequest \/ ReadHeader
  <2>1. postContent' = postContent /\ ((buf' = buf /\ pc' \notin {"recv", "peek"}) \/ NextLine)
    BY <1>7 DEF AcceptRequest, ReadHeader, TInv, ParsedInv, Goals
  <2>2. CASE buf' = buf /\ pc' \notin {"recv", "peek"}
    BY <1>1, <2>1, <2>2 DEF BufferInv
  <2>3. CASE NextLine
    <3>1. buf' \in Seq(Bytes) /\ Len(buf') = 0
      BY <2>3, EmptySeq DEF NextLine
    <3> QED
      BY <1>1, <2>1, <3>1 DEF BufferInv
  <2> QED
    BY <2>1, <2>2, <2>3
<1>8. CASE RecvBody
  <2>1. /\ pc' = pc /\ buf' = buf /\ Len(postContent) < content_length
        /\ Len(postContent) < PostSize
        /\ \E byte \in Bytes : postContent' = Append(postContent, byte)
    BY <1>2, <1>3, <1>4, <1>8 DEF RecvBody
  <2>2. postContent' \in Seq(Bytes) /\ Len(postContent') = Len(postContent) + 1
        /\ Len(postContent) \in Nat
    BY <1>1, <2>1, AppendProperties, LenProperties DEF BufferInv
  <2>3. Len(postContent') <= request.announced /\ Len(postContent') <= PostSize
    BY <1>1, <2>1, <2>2 DEF TInv, ParsedInv
  <2> QED
    BY <1>1, <2>1, <2>2, <2>3 DEF BufferInv
<1>9. CASE RecvNothing \/ Unimplemented \/ NotFound \/ ServeFile \/ CloseNull \/ BadRequest
           \/ GoOn \/ SendOk \/ Execl \/ OverflowPostContent \/ BodyRead
           \/ ProcessMotorControl \/ Close
  <2>1. UNCHANGED <<buf, postContent>> /\ pc' \notin {"recv", "peek"}
    BY <1>9
    DEF RecvNothing, Unimplemented, NotFound, ServeFile, CloseNull, BadRequest, GoOn, SendOk,
        Execl, OverflowPostContent, BodyRead, ProcessMotorControl, Close, lineVars, parsedVars
  <2> QED
    BY <1>1, <2>1 DEF BufferInv
<1>10. CASE Arrive \/ HangUp \/ UNCHANGED vars
  <2>1. UNCHANGED <<pc, buf, postContent>>
    BY <1>10 DEF Arrive, HangUp, vars, lineVars, parsedVars
  <2> QED
    BY <1>1, <2>1 DEF BufferInv
<1> QED
  BY <1>5, <1>6, <1>7, <1>8, <1>9, <1>10 DEF Next, Thread, GetLine

\* The thread starts with nothing read.
LEMMA TypesInit == Init => TInv
<1> SUFFICES ASSUME Init PROVE TInv
  OBVIOUS
<1>1. request \in Requests
  BY DEF Init
<1>2. StreamInv
  <2>1. Len(stream) \in Nat
    BY <1>1, RequestShape
  <2>2. arrived \in 0 .. Len(stream) /\ at \in 0 .. arrived
    BY <2>1 DEF Init
  <2>3. hungUp \in BOOLEAN
    BY DEF Init
  <2> QED
    BY <1>1, <2>2, <2>3 DEF StreamInv
<1>3. ParsedInv
  BY DEF Init, ParsedInv, Pcs, Goals, Targets
<1>4. buf \in Seq(Bytes) /\ Len(buf) = 0 /\ postContent \in Seq(Bytes) /\ Len(postContent) = 0
  BY EmptySeq DEF Init
<1>5. BufferInv
  BY <1>1, <1>4, RequestAssumption, RequestShape DEF BufferInv
<1> QED
  BY <1>2, <1>3, <1>5 DEF TInv

\* Every step keeps the types.
LEMMA TypesStep == TInv /\ [Next]_vars => TInv'
BY StreamStep, ParsedStep, BufferStep DEF TInv

\* No line overflows the buffer get_line() is passed, however long the lines are
\* that a client sends; of postContent nothing is claimed: a body that is longer
\* leaves the process "undefined".
THEOREM TypeCorrect == Spec => []TypeOK
<1>1. TInv => TypeOK
  <2> SUFFICES ASSUME TInv PROVE TypeOK
    OBVIOUS
  <2>1. request.announced \in Nat
    BY RequestShape DEF TInv, StreamInv
  <2> QED
    BY <2>1 DEF TInv, StreamInv, ParsedInv, BufferInv, TypeOK, Pcs, Goals
<1> QED
  BY <1>1, TypesInit, TypesStep, PTL DEF Spec

-----------------------------------------------------------------------------
(***************************************************************************)
(* What the C code is handed: the thread goes through the stream line by   *)
(* line, in pieces that fit the buffer, and from the empty line into the   *)
(* body.                                                                   *)
(***************************************************************************)

\* Requests whose lines get_line() can tell apart.
Plain == ~TakesFirstByte /\ \A k \in 1 .. Len(request.lines) : ~FillsBuffer(request.lines[k])

Text(k) == request.lines[k]

\* How far into the k-th line the thread is.
Into(k) == at - request.lineAt[k]

\* Nothing more will come, and the body has not been reached.
Cut == NoMoreBytes /\ at <= BodyAt(request)

\* What is stored of a line cannot be taken for an empty one, unless it is.
Begun(k) == IF Text(k) = << >> THEN buf = << >> ELSE buf # << >> /\ buf[1] # LF

\* Within the text, behind pieces that filled the buffer.
InText(k) ==
  /\ pc \in {"recv", "line"} /\ Into(k) \in 0 .. Len(Text(k))
  /\ \E times \in Nat : Into(k) = times * (LineSize - 1) + Len(buf)
  /\ buf # << >> => buf[1] # LF
  /\ pc = "line" => Len(buf) = LineSize - 1

\* Behind the carriage return.
AtReturn(k) ==
  /\ pc = "peek" /\ Into(k) = Len(Text(k)) + 1
  /\ request.eol \in {<<CR>>, <<CR, LF>>} /\ Begun(k)

\* Behind the line.
AtEnd(k) ==
  /\ pc = "line" /\ Into(k) = Len(Text(k)) + Len(request.eol)
  /\ IF Text(k) = << >> THEN buf = <<LF>> ELSE buf # << >> /\ buf[1] # LF

LinesInv ==
  pc \in {"recv", "peek", "line"} =>
    Cut \/ \E k \in 1 .. Len(request.lines) : InText(k) \/ AtReturn(k) \/ AtEnd(k)

\* What has been read of the body is its beginning, and nulls behind it only
\* once nothing more will come.
BodyInv ==
  LET taken == at - BodyAt(request) IN
  /\ taken < Len(postContent) => NoMoreBytes
  /\ taken <= Len(postContent)
  /\ \A n \in 1 .. Len(postContent) :
       postContent[n] = IF n <= taken THEN request.body[n] ELSE Nul

\* Before the body nothing of it has been read, and it is handed over once.
CallInv ==
  /\ pc \notin {"body", "call", "close", "closed"} => postContent = << >>
  /\ pc \notin {"close", "closed"} => called = NotCalled
  /\ pc \in {"ok", "body"} /\ method = "POST" => content_length # -1
  /\ pc = "call" /\ method = "POST" => Len(postContent) = request.announced
  /\ called # NotCalled /\ method = "POST" =>
       called = postContent /\ Len(called) = request.announced

\* Where the headers are over.
Behind == {"notFound", "file", "fclose", "cgi", "ok", "execl", "body", "call", "close", "closed"}

HandInv == CallInv /\ (Plain => LinesInv /\ (pc \in Behind => BodyInv))

\* What the assumptions say of the lines of the request.
LEMMA LinesShape ==
  ASSUME request \in Requests
  PROVE  /\ Len(request.lines) \in Nat /\ Len(request.lines) > 1
         /\ BodyAt(request) \in Nat /\ LineSize - 1 \in Nat /\ LineSize - 1 > 0
         /\ request.eol \in {<<CR>>, <<LF>>, <<CR, LF>>}
         /\ \A k \in 1 .. Len(request.lines) :
              /\ Text(k) \in Seq(STRING) /\ Len(Text(k)) \in Nat
              /\ (Text(k) = << >> <=> k = Len(request.lines))
              /\ (Text(k) = << >> <=> Len(Text(k)) = 0)
              /\ request.lineAt[k] \in Nat /\ request.lineAt[k + 1] \in Nat
<1> DEFINE n == Len(request.lines)
<1>1. /\ request.lines \in Seq(Seq(STRING)) /\ request.lineAt \in Seq(Nat)
      /\ Len(request.lineAt) = n + 1 /\ n > 1
      /\ request.eol \in {<<CR>>, <<LF>>, <<CR, LF>>}
      /\ LineSize \in Nat \ {0, 1}
      /\ \A k \in 1 .. n : Text(k) = << >> <=> k = n
  BY RequestAssumption DEF Text
<1>2. n \in Nat
  BY <1>1
<1>3. LineSize - 1 \in Nat /\ LineSize - 1 > 0
  BY <1>1
<1>4. ASSUME NEW k \in 1 .. n
      PROVE  Text(k) \in Seq(STRING) /\ Len(Text(k)) \in Nat /\ (Text(k) = << >> <=> Len(Text(k)) = 0)
  <2>1. Text(k) \in Seq(STRING)
    BY <1>1, ElementOfSeq DEF Text
  <2> QED
    BY <2>1, EmptySeq
<1>5. ASSUME NEW k \in 1 .. n + 1
      PROVE  request.lineAt[k] \in Nat
  BY <1>1, ElementOfSeq
<1>6. \A k \in 1 .. n : k \in 1 .. n + 1 /\ k + 1 \in 1 .. n + 1
  BY <1>2
<1>7. n + 1 \in 1 .. n + 1
  BY <1>2
<1>8. BodyAt(request) \in Nat
  BY <1>5, <1>7 DEF BodyAt
<1> QED
  BY <1>1, <1>2, <1>3, <1>4, <1>5, <1>6, <1>8

\* Where in the stream the bytes of a line are.
LEMMA LineBytes ==
  ASSUME request \in Requests, NEW k \in 1 .. Len(request.lines)
  PROVE  /\ request.lineAt[k + 1] = request.lineAt[k] + Len(Text(k)) + Len(request.eol)
         /\ request.lineAt[k + 1] <= BodyAt(request)
         /\ \A n \in 1 .. Len(Text(k)) : stream[request.lineAt[k] + n] \notin {CR, LF}
         /\ \A n \in 1 .. Len(request.eol) :
              stream[request.lineAt[k] + Len(Text(k)) + n] = request.eol[n]
         /\ k = Len(request.lines) => request.lineAt[k + 1] = BodyAt(request)
<1>1. LaidOut(request) /\ \A n \in 1 .. Len(Text(k)) : Text(k)[n] \notin {CR, LF}
  BY RequestAssumption DEF Text
<1>2. \A n \in 1 .. Len(Text(k)) : stream[request.lineAt[k] + n] = Text(k)[n]
  BY <1>1 DEF LaidOut, Text, stream
<1> QED
  BY <1>1, <1>2 DEF LaidOut, Text, stream, BodyAt

\* And those of the body.
LEMMA BodyBytes ==
  ASSUME request \in Requests
  PROVE  /\ Len(request.body) \in Nat
         /\ \A n \in 1 .. Len(request.body) : stream[BodyAt(request) + n] = request.body[n]
         /\ Len(stream) = BodyAt(request) + Len(request.body)
         /\ request.body # << >> <=> Len(request.body) > 0
<1>1. LaidOut(request) /\ request.body \in Seq(STRING)
  BY RequestAssumption
<1>2. Len(request.body) \in Nat /\ (request.body # << >> <=> Len(request.body) > 0)
  BY <1>1, EmptySeq
<1> QED
  BY <1>1, <1>2 DEF LaidOut, stream

\* Multiples of a positive number.
LEMMA Multiples ==
  ASSUME NEW c \in Nat, c > 0, NEW q \in Nat
  PROVE  q * c \in Nat /\ (q + 1) * c = q * c + c /\ q <= q * c
OBVIOUS

\* The line ends are three sequences of one or two bytes.
LEMMA Eols ==
  /\ Len(<<CR>>) = 1 /\ <<CR>>[1] = CR
  /\ Len(<<LF>>) = 1 /\ <<LF>>[1] = LF
  /\ Len(<<CR, LF>>) = 2 /\ <<CR, LF>>[1] = CR /\ <<CR, LF>>[2] = LF
  /\ CR # LF /\ RequestLine # LF /\ RequestLine # CR
BY DEF CR, LF, RequestLine

\* Whichever it is, it is there.
LEMMA EolLength ==
  ASSUME NEW eol \in {<<CR>>, <<LF>>, <<CR, LF>>}
  PROVE  Len(eol) \in Nat /\ Len(eol) >= 1 /\ 1 \in 1 .. Len(eol)
<1>1. CASE eol = <<CR>>
  BY <1>1
<1>2. CASE eol = <<LF>>
  BY <1>2
<1>3. CASE eol = <<CR, LF>>
  BY <1>3
<1> QED
  BY <1>1, <1>2, <1>3

\* A byte stored comes behind the others.
LEMMA Stored ==
  ASSUME BufferInv, NEW byte \in Bytes, Store(byte)
  PROVE  /\ Len(buf) \in Nat /\ Len(buf') = Len(buf) + 1 /\ buf' # << >>
         /\ buf = << >> => buf' = <<byte>> /\ buf'[1] = byte
         /\ buf # << >> => buf'[1] = buf[1]
         /\ pc' = IF byte = LF \/ Len(buf') = LineSize - 1 THEN "line" ELSE "recv"
<1>1. buf \in Seq(Bytes) /\ buf' = Append(buf, byte)
  BY DEF BufferInv, Store
<1>2. /\ Len(buf) \in Nat /\ Len(buf') = Len(buf) + 1 /\ buf' \in Seq(Bytes)
      /\ buf'[Len(buf) + 1] = byte /\ \A n \in 1 .. Len(buf) : buf'[n] = buf[n]
  BY <1>1, AppendProperties, LenProperties
<1>3. buf' # << >>
  BY <1>2, EmptySeq
<1>4. ASSUME buf = << >>
      PROVE  buf' = <<byte>> /\ buf'[1] = byte
  BY <1>1, <1>4
<1>5. ASSUME buf # << >>
      PROVE  buf'[1] = buf[1]
  <2>1. Len(buf) # 0
    BY <1>1, <1>5, EmptySeq
  <2>2. 1 \in 1 .. Len(buf)
    BY <1>2, <2>1
  <2> QED
    BY <1>2, <2>2
<1>6. pc' = IF byte = LF \/ Len(buf') = LineSize - 1 THEN "line" ELSE "recv"
  BY DEF Store
<1> QED
  BY <1>2, <1>3, <1>4, <1>5, <1>6

\* At the end of a text that does not fill the buffer something of it is stored.
LEMMA Chunk ==
  ASSUME TInv, NEW k \in 1 .. Len(request.lines), ~FillsBuffer(Text(k)),
         InText(k), Into(k) = Len(Text(k))
  PROVE  Begun(k) /\ pc = "recv"
<1>1. /\ request \in Requests /\ buf \in Seq(Bytes) /\ Len(buf) \in Nat
  BY LenProperties DEF TInv, StreamInv, BufferInv
<1> DEFINE c == LineSize - 1
           l == Len(Text(k))
<1>2. l \in Nat /\ c \in Nat /\ c > 0 /\ (Text(k) = << >> <=> l = 0)
  BY <1>1, LinesShape
<1>3. PICK q \in Nat : l = q * c + Len(buf)
  BY DEF InText
<1>4. ~ \E times \in 1 .. l : l = times * c
  BY DEF FillsBuffer
<1>5. pc \in {"recv", "line"} /\ (buf # << >> => buf[1] # LF) /\ (pc = "line" => Len(buf) = c)
  BY DEF InText
<1> HIDE DEF c, l
<1>6. q * c \in Nat /\ (q + 1) * c = q * c + c /\ q <= q * c /\ q + 1 <= (q + 1) * c
  BY <1>2, Multiples
<1>7. pc # "line"
  <2> SUFFICES ASSUME pc = "line" PROVE FALSE
    OBVIOUS
  <2>1. l = (q + 1) * c
    BY <1>3, <1>5, <1>6
  <2>2. q + 1 \in 1 .. l
    BY <1>2, <1>6, <2>1
  <2> QED
    BY <1>4, <2>1, <2>2
<1>8. CASE l = 0
  <2>1. Len(buf) = 0
    BY <1>1, <1>3, <1>6, <1>8
  <2>2. buf = << >>
    BY <1>1, <2>1, EmptySeq
  <2> QED
    BY <1>2, <1>5, <1>7, <1>8, <2>2 DEF Begun
<1>9. CASE l # 0
  <2>1. Len(buf) # 0
    <3> SUFFICES ASSUME Len(buf) = 0 PROVE FALSE
      OBVIOUS
    <3>1. l = q * c
      BY <1>3, <1>6
    <3>2. q # 0
      BY <1>2, <1>9, <3>1
    <3>3. q \in 1 .. l
      BY <1>2, <1>6, <3>1, <3>2
    <3> QED
      BY <1>4, <3>1, <3>3
  <2>2. buf # << >>
    BY <1>1, <2>1, EmptySeq
  <2> QED
    BY <1>2, <1>5, <1>7, <1>9, <2>2 DEF Begun
<1> QED
  BY <1>8, <1>9

\* What is behind a line cannot pass for a part of its end.
LEMMA NextIsNoFeed ==
  ASSUME request \in Requests, ~TakesFirstByte, request.eol = <<CR>>,
         NEW k \in 1 .. Len(request.lines), request.lineAt[k + 1] < Len(stream)
  PROVE  stream[request.lineAt[k + 1] + 1] # LF
<1>1. /\ Len(request.lines) \in Nat /\ BodyAt(request) \in Nat
      /\ request.lineAt[k + 1] \in Nat
  BY LinesShape
<1>2. CASE k = Len(request.lines)
  <2>1. request.lineAt[k + 1] = BodyAt(request)
    BY <1>2, LineBytes
  <2>2. Len(request.body) \in Nat /\ Len(request.body) > 0
    BY <1>1, <2>1, BodyBytes
  <2>3. stream[BodyAt(request) + 1] = request.body[1]
    <3>1. 1 \in 1 .. Len(request.body)
      BY <2>2
    <3> QED
      BY <3>1, BodyBytes
  <2>4. request.body # << >>
    BY <2>2, BodyBytes
  <2> QED
    BY <2>1, <2>3, <2>4 DEF TakesFirstByte
<1>3. CASE k # Len(request.lines)
  <2>1. k + 1 \in 1 .. Len(request.lines)
    BY <1>1, <1>3
  <2> DEFINE m == k + 1
  <2>2. Len(Text(m)) \in Nat /\ request.lineAt[m] \in Nat
    BY <2>1, LinesShape
  <2>3. CASE Len(Text(m)) = 0
    <3>1. 1 \in 1 .. Len(request.eol) /\ request.eol[1] = CR
      BY Eols
    <3>2. stream[request.lineAt[m] + Len(Text(m)) + 1] = CR
      BY <2>1, <3>1, LineBytes
    <3>3. request.lineAt[m] + Len(Text(m)) + 1 = request.lineAt[m] + 1
      BY <2>2, <2>3
    <3> QED
      BY <3>2, <3>3, Eols
  <2>4. CASE Len(Text(m)) # 0
    <3>1. 1 \in 1 .. Len(Text(m))
      BY <2>2, <2>4
    <3> QED
      BY <2>1, <3>1, LineBytes
  <2> QED
    BY <2>3, <2>4
<1> QED
  BY <1>2, <1>3

\* A byte of the text.
LEMMA ReadText ==
  ASSUME TInv, NEW k \in 1 .. Len(request.lines), InText(k), pc = "recv",
         Into(k) # Len(Text(k)), RecvByte, request' = request
  PROVE  InText(k)'
<1>1. request \in Requests /\ at \in Nat /\ BufferInv
  BY RequestShape DEF TInv, StreamInv
<1>2. /\ Len(Text(k)) \in Nat /\ request.lineAt[k] \in Nat
      /\ LineSize - 1 \in Nat /\ LineSize - 1 > 0
  BY <1>1, LinesShape
<1>3. at' = at + 1
  BY DEF RecvByte
<1>4. Into(k) \in 0 .. Len(Text(k)) /\ Into(k) = at - request.lineAt[k]
  BY DEF InText, Into
<1>5. Into(k) + 1 \in 1 .. Len(Text(k)) /\ at' = request.lineAt[k] + (Into(k) + 1)
  <2>1. Into(k) # Len(Text(k)) /\ at \in Nat
    BY <1>1
  <2>2. Into(k) + 1 \in 1 .. Len(Text(k))
    BY ONLY <1>2, <1>4, <2>1
  <2>3. at' = request.lineAt[k] + (Into(k) + 1)
    BY ONLY <1>2, <1>3, <1>4, <2>1
  <2> QED
    BY <2>2, <2>3
<1>6. stream[at'] \notin {CR, LF}
  BY <1>1, <1>5, LineBytes
<1>7. Store(stream[at']) /\ stream[at'] \in Bytes
  <2>1. Store(stream[at'])
    BY <1>6 DEF RecvByte
  <2>2. at' \in Nat
    BY <1>1, <1>3
  <2> QED
    BY <2>1, <2>2 DEF Bytes
<1>8. /\ Len(buf) \in Nat /\ Len(buf') = Len(buf) + 1
      /\ buf = << >> => buf'[1] = stream[at']
      /\ buf # << >> => buf'[1] = buf[1]
      /\ pc' = IF Len(buf') = LineSize - 1 THEN "line" ELSE "recv"
  BY <1>1, <1>6, <1>7, Stored
<1>9. Text(k)' = Text(k) /\ Into(k)' = Into(k) + 1
  <2>1. Into(k)' = at' - request.lineAt[k]
    BY DEF Into
  <2>2. at \in Nat /\ request.lineAt[k] \in Nat
    BY <1>1, <1>2
  <2>3. at' - request.lineAt[k] = (at - request.lineAt[k]) + 1
    <3> DEFINE from == request.lineAt[k]
    <3> HIDE DEF from
    <3>1. (at + 1) - from = (at - from) + 1
      BY ONLY <2>2 DEF from
    <3> QED
      BY <1>3, <3>1 DEF from
  <2>4. Into(k)' = Into(k) + 1
    BY ONLY <1>4, <2>1, <2>3
  <2> QED
    BY <2>4 DEF Text
<1>10. buf'[1] # LF
  BY <1>6, <1>8 DEF InText
<1>11. PICK q \in Nat : Into(k) = q * (LineSize - 1) + Len(buf)
  BY DEF InText
<1>12. Into(k) + 1 = q * (LineSize - 1) + Len(buf')
  <2>1. q * (LineSize - 1) \in Nat
    BY <1>2, Multiples
  <2> DEFINE m == q * (LineSize - 1)
  <2> HIDE DEF m
  <2>2. Into(k) = m + Len(buf) /\ m \in Nat
    BY <1>11, <2>1 DEF m
  <2>3. Into(k) + 1 = m + Len(buf')
    BY <1>8, <2>2
  <2> QED
    BY <2>3 DEF m
<1>13. Into(k)' \in 0 .. Len(Text(k))
  BY <1>2, <1>5, <1>9
<1>14. pc' \in {"recv", "line"} /\ (pc' = "line" => Len(buf') = LineSize - 1)
  BY <1>8
<1> QED
  BY <1>9, <1>10, <1>11, <1>12, <1>13, <1>14 DEF InText

\* The first byte behind the text.
LEMMA ReadEol ==
  ASSUME TInv, NEW k \in 1 .. Len(request.lines), ~FillsBuffer(Text(k)), InText(k),
         Into(k) = Len(Text(k)), RecvByte, request' = request
  PROVE  AtReturn(k)' \/ AtEnd(k)'
<1>1. request \in Requests /\ at \in Nat /\ BufferInv
  BY RequestShape DEF TInv, StreamInv
<1>2. /\ Len(Text(k)) \in Nat /\ request.lineAt[k] \in Nat
      /\ request.eol \in {<<CR>>, <<LF>>, <<CR, LF>>}
  BY <1>1, LinesShape
<1>3. Begun(k) /\ at' = at + 1
  BY Chunk DEF RecvByte
<1>4. Into(k) = at - request.lineAt[k]
  BY DEF Into
<1>5. at' = request.lineAt[k] + Len(Text(k)) + 1
  BY <1>1, <1>2, <1>3, <1>4
<1>6. stream[at'] = request.eol[1]
  <2>1. 1 \in 1 .. Len(request.eol)
    BY <1>2, EolLength
  <2> QED
    BY <1>1, <1>5, <2>1, LineBytes
<1>7. Text(k)' = Text(k) /\ Into(k)' = Len(Text(k)) + 1
  <2>1. Into(k)' = at' - request.lineAt[k]
    BY DEF Into
  <2> QED
    BY <1>2, <1>5, <2>1 DEF Text
<1>8. CASE request.eol = <<LF>>
  <2>1. stream[at'] = LF /\ LF # CR /\ Len(request.eol) = 1
    BY <1>6, <1>8, Eols
  <2>2. Store(LF) /\ LF \in Bytes
    BY <2>1 DEF RecvByte, Bytes
  <2>3. /\ pc' = "line" /\ buf' # << >>
        /\ buf = << >> => buf' = <<LF>>
        /\ buf # << >> => buf'[1] = buf[1]
    BY <1>1, <2>2, Stored
  <2>4. AtEnd(k)'
    BY <1>3, <1>7, <2>1, <2>3 DEF AtEnd, Begun
  <2> QED
    BY <2>4
<1>9. CASE request.eol # <<LF>>
  <2>1. stream[at'] = CR /\ request.eol \in {<<CR>>, <<CR, LF>>}
    BY <1>2, <1>6, <1>9, Eols
  <2>2. pc' = "peek" /\ buf' = buf
    BY <2>1 DEF RecvByte
  <2>3. AtReturn(k)'
    BY <1>3, <1>7, <2>1, <2>2 DEF AtReturn, Begun
  <2> QED
    BY <2>3
<1> QED
  BY <1>8, <1>9

\* A line feed behind the carriage return is taken along when it belongs to it.
LEMMA PeekBehind ==
  ASSUME TInv, NEW k \in 1 .. Len(request.lines), ~TakesFirstByte, AtReturn(k), Peek,
         ByteThere, request' = request
  PROVE  AtEnd(k)'
<1>1. request \in Requests /\ at \in Nat /\ BufferInv /\ at < arrived
      /\ arrived \in Nat /\ arrived <= Len(stream) /\ Len(stream) \in Nat
  BY RequestShape DEF TInv, StreamInv, ByteThere
<1>2. /\ Len(Text(k)) \in Nat /\ request.lineAt[k] \in Nat
      /\ request.lineAt[k + 1] = request.lineAt[k] + Len(Text(k)) + Len(request.eol)
  BY <1>1, LinesShape, LineBytes
<1>3. Begun(k) /\ request.eol \in {<<CR>>, <<CR, LF>>} /\ at = request.lineAt[k] + Len(Text(k)) + 1
  <2>1. at - request.lineAt[k] = Len(Text(k)) + 1
    BY DEF AtReturn, Into
  <2>2. at \in Nat /\ request.lineAt[k] \in Nat /\ Len(Text(k)) \in Nat
    BY <1>1, <1>2
  <2>3. at = request.lineAt[k] + Len(Text(k)) + 1
    BY ONLY <2>1, <2>2
  <2> QED
    BY <2>3 DEF AtReturn
<1>4. /\ pc' = "line" /\ buf' # << >>
      /\ buf = << >> => buf' = <<LF>>
      /\ buf # << >> => buf'[1] = buf[1]
  <2>1. Store(LF) /\ LF \in Bytes
    BY DEF Peek, Bytes
  <2> QED
    BY <1>1, <2>1, Stored
<1>5. at' = request.lineAt[k + 1]
  <2>1. CASE request.eol = <<CR>>
    <3>1. at = request.lineAt[k + 1]
      BY <1>2, <1>3, <2>1, Eols
    <3>2. stream[at + 1] # LF
      BY <1>1, <2>1, <3>1, NextIsNoFeed
    <3> QED
      BY <3>1, <3>2 DEF Peek
  <2>2. CASE request.eol = <<CR, LF>>
    <3>1. Len(request.eol) = 2 /\ request.eol[2] = LF
      BY <2>2, Eols
    <3>2. 2 \in 1 .. Len(request.eol)
      BY <3>1
    <3>3. stream[request.lineAt[k] + Len(Text(k)) + 2] = LF
      BY <1>1, <3>1, <3>2, LineBytes
    <3>4. at + 1 = request.lineAt[k] + Len(Text(k)) + 2 /\ at + 1 = request.lineAt[k + 1]
      BY <1>2, <1>3, <3>1
    <3> QED
      BY <3>3, <3>4 DEF Peek
  <2> QED
    BY <1>3, <2>1, <2>2
<1>6. Text(k)' = Text(k) /\ Into(k)' = Len(Text(k)) + Len(request.eol)
  <2>1. Into(k)' = at' - request.lineAt[k]
    BY DEF Into
  <2>2. Len(request.eol) \in Nat
    BY <1>3, Eols
  <2>3. at' = request.lineAt[k] + Len(Text(k)) + Len(request.eol)
        /\ request.lineAt[k] \in Nat /\ Len(Text(k)) \in Nat
    BY <1>2, <1>5
  <2>4. Into(k)' = Len(Text(k)) + Len(request.eol)
    BY ONLY <2>1, <2>2, <2>3
  <2> QED
    BY <2>4 DEF Text
<1> QED
  BY <1>3, <1>4, <1>6 DEF AtEnd, Begun

\* A line that is not empty is followed by what is behind it, or by the rest of
\* it when the buffer is full.
LEMMA GoesOn ==
  ASSUME TInv, NEW k \in 1 .. Len(request.lines), InText(k) \/ AtEnd(k),
         pc = "line", ~EndOfHeaders, NextLine, at' = at, request' = request
  PROVE  \E m \in 1 .. Len(request.lines) : InText(m)'
<1>1. request \in Requests /\ at \in Nat /\ BufferInv
  BY RequestShape DEF TInv, StreamInv
<1>2. /\ Len(request.lines) \in Nat
      /\ Len(Text(k)) \in Nat /\ request.lineAt[k] \in Nat
      /\ LineSize - 1 \in Nat /\ LineSize - 1 > 0
      /\ (Text(k) = << >> <=> k = Len(request.lines))
  BY <1>1, LinesShape
<1>3. pc' = "recv" /\ buf' = << >> /\ Len(buf') = 0
  BY EmptySeq DEF NextLine
<1>4. \A m : Text(m)' = Text(m) /\ Into(m)' = Into(m)
  BY DEF Text, Into
<1>5. CASE InText(k)
  <2>1. Len(buf) = LineSize - 1 /\ Into(k) \in 0 .. Len(Text(k))
    BY <1>5 DEF InText
  <2>2. PICK q \in Nat : Into(k) = q * (LineSize - 1) + Len(buf)
    BY <1>5 DEF InText
  <2>3. q + 1 \in Nat /\ (q + 1) * (LineSize - 1) = q * (LineSize - 1) + (LineSize - 1)
        /\ (q + 1) * (LineSize - 1) \in Nat
    BY <1>2, Multiples
  <2>4. Into(k) = (q + 1) * (LineSize - 1) + 0
    <3> DEFINE x == (q + 1) * (LineSize - 1)
    <3>1. Into(k) = x /\ x \in Nat
      BY <2>1, <2>2, <2>3
    <3> HIDE DEF x
    <3>2. Into(k) = x + 0
      BY <3>1
    <3> QED
      BY <3>2 DEF x
  <2>5. InText(k)'
    BY <1>3, <1>4, <2>1, <2>3, <2>4 DEF InText
  <2> QED
    BY <2>5
<1>6. CASE AtEnd(k)
  <2>1. k # Len(request.lines)
    BY <1>2, <1>6 DEF AtEnd, EndOfHeaders
  <2>2. k + 1 \in 1 .. Len(request.lines)
    BY <1>2, <2>1
  <2>3. Into(k) = at - request.lineAt[k] /\ Into(k) = Len(Text(k)) + Len(request.eol)
    BY <1>6 DEF AtEnd, Into
  <2>4. request.lineAt[k + 1] = request.lineAt[k] + Len(Text(k)) + Len(request.eol)
        /\ Len(request.eol) \in Nat
    BY <1>1, LineBytes, LinesShape, Eols
  <2>5. at = request.lineAt[k + 1]
    <3>1. /\ at \in Nat /\ request.lineAt[k] \in Nat
          /\ Len(Text(k)) \in Nat /\ Len(request.eol) \in Nat
      BY <1>1, <1>2, <2>4
    <3>2. at = request.lineAt[k] + (Len(Text(k)) + Len(request.eol))
      BY ONLY <2>3, <3>1
    <3> QED
      BY ONLY <2>4, <3>1, <3>2
  <2>6. Into(k + 1) = 0 /\ Len(Text(k + 1)) \in Nat
    BY <1>1, <2>2, <2>5, LinesShape DEF Into
  <2>7. 0 * (LineSize - 1) + 0 = 0
    BY <1>2
  <2>8. InText(k + 1)'
    BY <1>3, <1>4, <2>6, <2>7 DEF InText
  <2> QED
    BY <2>2, <2>8
<1> QED
  BY <1>5, <1>6

\* The empty line is the last: the body is next.
LEMMA EndsHeaders ==
  ASSUME TInv, NEW k \in 1 .. Len(request.lines), InText(k) \/ AtEnd(k),
         pc = "line", EndOfHeaders
  PROVE  at = BodyAt(request)
<1>1. request \in Requests /\ at \in Nat /\ BufferInv
  BY RequestShape DEF TInv, StreamInv
<1>2. /\ Len(Text(k)) \in Nat /\ request.lineAt[k] \in Nat
      /\ LineSize - 1 > 0 /\ LineSize - 1 \in Nat
      /\ (Text(k) = << >> <=> k = Len(request.lines))
  BY <1>1, LinesShape
<1>3. buf = << >> \/ (buf # << >> /\ buf[1] = LF)
  <2>1. <<LF>>[1] = LF /\ <<LF>> # << >>
    OBVIOUS
  <2> QED
    BY <2>1 DEF EndOfHeaders
<1>4. ~InText(k)
  <2> SUFFICES ASSUME InText(k) PROVE FALSE
    OBVIOUS
  <2>1. buf = << >> /\ Len(buf) = LineSize - 1
    BY <1>3 DEF InText
  <2>2. Len(buf) = 0
    BY <2>1, EmptySeq
  <2> QED
    BY <1>2, <2>1, <2>2
<1>5. AtEnd(k) /\ k = Len(request.lines)
  BY <1>2, <1>3, <1>4 DEF AtEnd
<1>6. Into(k) = at - request.lineAt[k] /\ Into(k) = Len(Text(k)) + Len(request.eol)
  BY <1>5 DEF AtEnd, Into
<1>7. request.lineAt[k + 1] = request.lineAt[k] + Len(Text(k)) + Len(request.eol)
      /\ request.lineAt[k + 1] = BodyAt(request) /\ Len(request.eol) \in Nat
  BY <1>1, <1>5, LineBytes, LinesShape, Eols
<1>8. /\ at \in Nat /\ request.lineAt[k] \in Nat
      /\ Len(Text(k)) \in Nat /\ Len(request.eol) \in Nat
  BY <1>1, <1>2, <1>7
<1>9. at = request.lineAt[k] + (Len(Text(k)) + Len(request.eol))
  BY ONLY <1>6, <1>8
<1> QED
  BY ONLY <1>7, <1>8, <1>9

\* Lines come before the body.
LEMMA BeforeBody ==
  ASSUME TInv, NEW k \in 1 .. Len(request.lines), InText(k) \/ AtReturn(k)
  PROVE  at <= BodyAt(request)
<1>1. request \in Requests /\ at \in Nat
  BY RequestShape DEF TInv, StreamInv
<1>2. /\ Len(Text(k)) \in Nat /\ request.lineAt[k] \in Nat /\ BodyAt(request) \in Nat
      /\ request.eol \in {<<CR>>, <<LF>>, <<CR, LF>>}
  BY <1>1, LinesShape
<1>3. Len(request.eol) \in Nat /\ Len(request.eol) >= 1
  BY <1>2, EolLength
<1>4. request.lineAt[k] + Len(Text(k)) + Len(request.eol) <= BodyAt(request)
  <2>1. /\ request.lineAt[k + 1] = request.lineAt[k] + Len(Text(k)) + Len(request.eol)
        /\ request.lineAt[k + 1] <= BodyAt(request)
    BY <1>1, LineBytes
  <2> QED
    BY ONLY <2>1
<1>5. at - request.lineAt[k] <= Len(Text(k)) + 1
  <2>1. Into(k) \in 0 .. Len(Text(k)) \/ Into(k) = Len(Text(k)) + 1
    BY DEF InText, AtReturn
  <2>2. Into(k) <= Len(Text(k)) + 1
    BY <1>2, <2>1
  <2> QED
    BY <2>2 DEF Into
<1>6. /\ at \in Nat /\ Len(Text(k)) \in Nat /\ request.lineAt[k] \in Nat
      /\ BodyAt(request) \in Nat
  BY <1>1, <1>2
<1> DEFINE from == request.lineAt[k]
           text == Len(Text(k))
           end == Len(request.eol)
           body == BodyAt(request)
<1>7. /\ at \in Nat /\ text \in Nat /\ from \in Nat /\ body \in Nat /\ end \in Nat
      /\ end >= 1 /\ from + text + end <= body /\ at - from <= text + 1
  BY ONLY <1>3, <1>4, <1>5, <1>6
<1> HIDE DEF from, text, end, body
<1>8. at <= body
  BY ONLY <1>7
<1> QED
  BY ONLY <1>8 DEF body

\* The thread goes through the lines in their order.
LEMMA LinesStep ==
  ASSUME TInv, Plain, LinesInv, [Next]_vars
  PROVE  LinesInv'
<1>1. /\ request' = request /\ request \in Requests /\ at \in Nat /\ arrived \in Nat
      /\ at <= arrived /\ hungUp \in BOOLEAN /\ goal \in Goals
  BY RequestStays, RequestShape DEF TInv, StreamInv, ParsedInv
<1>2. ~TakesFirstByte /\ \A k \in 1 .. Len(request.lines) : ~FillsBuffer(Text(k))
  BY DEF Plain, Text
<1>3. CASE RecvByte
  <2>1. pc = "recv" /\ ~Cut
    BY <1>1, <1>3 DEF RecvByte, ByteThere, Cut, NoMoreBytes
  <2>2. PICK k \in 1 .. Len(request.lines) : InText(k)
    BY <2>1 DEF LinesInv, AtReturn, AtEnd
  <2>3. InText(k)' \/ AtReturn(k)' \/ AtEnd(k)'
    BY <1>1, <1>2, <1>3, <2>1, <2>2, ReadText, ReadEol
  <2> QED
    BY <1>1, <2>3 DEF LinesInv
<1>4. CASE RecvNothing
  <2>1. pc = "recv" /\ NoMoreBytes /\ UNCHANGED <<request, arrived, hungUp, at>>
    BY <1>4 DEF RecvNothing, clientVars, lineVars
  <2>2. at <= BodyAt(request)
    <3>1. CASE Cut
      BY <3>1 DEF Cut
    <3>2. CASE ~Cut
      <4>1. PICK k \in 1 .. Len(request.lines) : InText(k)
        BY <2>1, <3>2 DEF LinesInv, AtReturn, AtEnd
      <4> QED
        BY <4>1, BeforeBody
    <3> QED
      BY <3>1, <3>2
  <2>3. Cut'
    BY <2>1, <2>2 DEF Cut, NoMoreBytes
  <2> QED
    BY <2>3 DEF LinesInv
<1>5. CASE Peek
  <2>1. pc = "peek" /\ UNCHANGED <<request, arrived, hungUp>>
    BY <1>5 DEF Peek, clientVars
  <2>2. CASE Cut
    <3>1. at' = at
      BY <1>1, <1>5, <2>2 DEF Peek, ByteThere, Cut, NoMoreBytes
    <3>2. Cut'
      BY <2>1, <2>2, <3>1 DEF Cut, NoMoreBytes
    <3> QED
      BY <3>2 DEF LinesInv
  <2>3. CASE ~Cut
    <3>1. PICK k \in 1 .. Len(request.lines) : AtReturn(k)
      BY <2>1, <2>3 DEF LinesInv, InText, AtEnd
    <3>2. ByteThere
      BY <1>5, <2>3, <3>1, BeforeBody DEF Peek, Cut
    <3>3. AtEnd(k)'
      BY <1>1, <1>2, <1>5, <3>1, <3>2, PeekBehind
    <3> QED
      BY <1>1, <3>3 DEF LinesInv
  <2> QED
    BY <2>2, <2>3
<1>6. ASSUME pc = "line", ~EndOfHeaders, NextLine, UNCHANGED <<clientVars, at>>
      PROVE  LinesInv'
  <2>1. CASE Cut
    <3>1. Cut'
      BY <1>6, <2>1 DEF Cut, NoMoreBytes, clientVars
    <3> QED
      BY <3>1 DEF LinesInv
  <2>2. CASE ~Cut
    <3>1. PICK k \in 1 .. Len(request.lines) : InText(k) \/ AtEnd(k)
      BY <1>6, <2>2 DEF LinesInv, AtReturn
    <3>2. PICK m \in 1 .. Len(request.lines) : InText(m)'
      BY <1>1, <1>6, <3>1, GoesOn
    <3> QED
      BY <1>1, <3>2 DEF LinesInv
  <2> QED
    BY <2>1, <2>2
<1>7. CASE AcceptRequest
  <2>1. pc = "line" /\ UNCHANGED <<clientVars, at>>
    BY <1>7 DEF AcceptRequest
  <2>2. CASE method' = "other"
    <3>1. pc' = "unimplemented"
      BY <1>7, <2>2 DEF AcceptRequest
    <3> QED
      BY <3>1 DEF LinesInv
  <2>3. CASE method' # "other"
    <3>1. NextLine
      BY <1>7, <2>3 DEF AcceptRequest
    <3>2. buf # << >> /\ buf[1] = RequestLine
      BY <1>7, <2>3 DEF AcceptRequest
    <3>3. ~EndOfHeaders
      <4>1. buf # <<LF>>
        BY <3>2, Eols
      <4> QED
        BY <3>2, <4>1 DEF EndOfHeaders
    <3> QED
      BY <1>6, <2>1, <3>1, <3>3
  <2> QED
    BY <2>2, <2>3
<1>8. CASE ReadHeader
  <2>1. pc = "line" /\ UNCHANGED <<clientVars, at>>
    BY <1>8 DEF ReadHeader
  <2>2. CASE EndOfHeaders
    <3>1. pc' = goal /\ goal \in {"notFound", "file", "cgi"}
      BY <1>1, <1>8, <2>2 DEF ReadHeader, Goals
    <3> QED
      BY <3>1 DEF LinesInv
  <2>3. CASE ~EndOfHeaders
    <3>1. NextLine
      BY <1>8, <2>3 DEF ReadHeader
    <3> QED
      BY <1>6, <2>1, <2>3, <3>1
  <2> QED
    BY <2>2, <2>3
<1>9. CASE Unimplemented \/ NotFound \/ ServeFile \/ CloseNull \/ BadRequest \/ GoOn \/ SendOk
           \/ Execl \/ RecvBody \/ OverflowPostContent \/ BodyRead \/ ProcessMotorControl
           \/ Close
  <2>1. pc' \notin {"recv", "peek", "line"}
    BY <1>9 DEF Unimplemented, NotFound, ServeFile, CloseNull, BadRequest, GoOn, SendOk,
                Execl, RecvBody, OverflowPostContent, BodyRead, ProcessMotorControl, Close
  <2> QED
    BY <2>1 DEF LinesInv
<1>10. CASE Arrive \/ HangUp
  <2>1. UNCHANGED <<at, buf, pc>> /\ ~hungUp
    BY <1>10 DEF Arrive, HangUp, lineVars
  <2> SUFFICES ASSUME pc \in {"recv", "peek", "line"} PROVE LinesInv'
    BY <2>1 DEF LinesInv
  <2>2. PICK k \in 1 .. Len(request.lines) : InText(k) \/ AtReturn(k) \/ AtEnd(k)
    BY <2>1 DEF LinesInv, Cut, NoMoreBytes
  <2>3. InText(k)' \/ AtReturn(k)' \/ AtEnd(k)'
    BY <1>1, <2>1, <2>2 DEF InText, AtReturn, AtEnd, Begun, Text, Into
  <2> QED
    BY <1>1, <2>3 DEF LinesInv
<1>11. CASE UNCHANGED vars
  <2>1. UNCHANGED <<request, arrived, hungUp, at, buf, pc>>
    BY <1>11 DEF vars, clientVars, lineVars
  <2> QED
    BY <2>1 DEF LinesInv, Cut, NoMoreBytes, InText, AtReturn, AtEnd, Begun, Text, Into
<1> QED
  BY <1>3, <1>4, <1>5, <1>7, <1>8, <1>9, <1>10, <1>11 DEF Next, Thread, GetLine

\* The body is read behind the headers, whole, and handed over once.
LEMMA CallStep ==
  ASSUME TInv, CallInv, [Next]_vars
  PROVE  CallInv'
<1>1. /\ request' = request /\ request.announced \in Nat
      /\ content_length \in {-1, request.announced} /\ goal \in Goals
      /\ Len(postContent) \in Nat /\ Len(postContent) <= request.announced
  BY RequestStays, RequestShape, LenProperties DEF TInv, StreamInv, ParsedInv, BufferInv
<1>2. CASE GetLine \/ AcceptRequest \/ ReadHeader
  <2>1. /\ pc \in {"recv", "peek", "line"} /\ UNCHANGED <<postContent, called>>
        /\ pc' \in {"recv", "peek", "line", "unimplemented", "notFound", "file", "cgi"}
    BY <1>1, <1>2
    DEF GetLine, RecvByte, RecvNothing, Peek, Store, AcceptRequest, ReadHeader, NextLine,
        parsedVars, effectVars, Goals
  <2> QED
    BY <2>1 DEF CallInv
<1>3. CASE Unimplemented \/ NotFound \/ ServeFile \/ CloseNull \/ BadRequest \/ GoOn
           \/ SendOk \/ Execl
  <2>1. /\ UNCHANGED <<postContent, called, method, content_length>>
        /\ pc \in {"unimplemented", "notFound", "file", "fclose", "cgi", "ok", "execl"}
        /\ pc' \in {"returned", "close", "fclose", "ok", "execl", "body", "call"}
        /\ pc' = "ok" => ~(method = "POST" /\ content_length = -1)
        /\ pc' = "body" => pc = "ok"
        /\ pc' = "call" => method # "POST"
    BY <1>3
    DEF Unimplemented, NotFound, ServeFile, CloseNull, BadRequest, GoOn, SendOk, Execl, Reply,
        parsedVars, effectVars
  <2>2. /\ postContent = << >> /\ called = NotCalled
        /\ pc = "ok" /\ method = "POST" => content_length # -1
    BY <2>1 DEF CallInv
  <2> QED
    BY <1>1, <2>1, <2>2 DEF CallInv
<1>4. CASE RecvBody \/ OverflowPostContent
  <2>1. pc = "body" /\ pc' = "body" /\ UNCHANGED <<method, content_length, called>>
    BY <1>4 DEF RecvBody, OverflowPostContent, parsedVars, effectVars
  <2> QED
    BY <1>1, <2>1 DEF CallInv
<1>5. CASE BodyRead
  <2>1. /\ pc = "body" /\ pc' = "call" /\ Len(postContent) >= content_length
        /\ UNCHANGED <<method, content_length, postContent, called>>
    BY <1>5 DEF BodyRead, parsedVars, effectVars
  <2>2. method = "POST" => Len(postContent) = request.announced
    <3> SUFFICES ASSUME method = "POST" PROVE Len(postContent) = request.announced
      OBVIOUS
    <3>1. content_length = request.announced
      BY <1>1, <2>1 DEF CallInv
    <3> QED
      BY <1>1, <2>1, <3>1
  <2> QED
    BY <1>1, <2>1, <2>2 DEF CallInv
<1>6. CASE ProcessMotorControl
  <2>1. /\ pc = "call" /\ pc' = "close" /\ UNCHANGED <<method, postContent>>
        /\ method = "POST" => called' = postContent
    BY <1>6 DEF ProcessMotorControl, parsedVars
  <2> QED
    BY <1>1, <2>1 DEF CallInv
<1>7. CASE Close
  <2>1. pc = "close" /\ pc' = "closed" /\ UNCHANGED <<method, postContent, called>>
    BY <1>7 DEF Close, parsedVars, effectVars
  <2> QED
    BY <1>1, <2>1 DEF CallInv
<1>8. CASE Arrive \/ HangUp \/ UNCHANGED vars
  <2>1. UNCHANGED <<pc, method, content_length, postContent, called>>
    BY <1>8 DEF Arrive, HangUp, vars, parsedVars, effectVars
  <2> QED
    BY <1>1, <2>1 DEF CallInv
<1> QED
  BY <1>2, <1>3, <1>4, <1>5, <1>6, <1>7, <1>8 DEF Next, Thread

\* What is read of the body comes from its beginning.
LEMMA BodyStep ==
  ASSUME TInv, CallInv, Plain, LinesInv, pc \in Behind => BodyInv, [Next]_vars, pc' \in Behind
  PROVE  BodyInv'
<1>1. /\ request' = request /\ request \in Requests /\ at \in Nat /\ arrived \in Nat
      /\ at <= arrived /\ arrived <= Len(stream) /\ goal \in Goals
      /\ BodyAt(request) \in Nat /\ BodyAt(request)' = BodyAt(request)
  BY RequestStays, RequestShape, LinesShape DEF TInv, StreamInv, ParsedInv, BodyAt
<1>2. postContent \in Seq(Bytes) /\ Len(postContent) \in Nat
  BY LenProperties DEF TInv, BufferInv
<1>3. CASE GetLine \/ AcceptRequest
  <2>1. pc' \in {"recv", "peek", "line", "unimplemented"}
    BY <1>3 DEF GetLine, RecvByte, RecvNothing, Peek, Store, AcceptRequest, NextLine
  <2> QED
    BY <2>1 DEF Behind
<1>4. CASE ReadHeader
  <2>1. /\ pc = "line" /\ UNCHANGED <<arrived, hungUp, at, postContent>>
    BY <1>4 DEF ReadHeader, clientVars
  <2>2. EndOfHeaders
    BY <1>4 DEF ReadHeader, NextLine, Behind
  <2>3. postContent = << >> /\ Len(postContent) = 0
    BY <2>1, EmptySeq DEF CallInv
  <2>4. at <= BodyAt(request) /\ (at < BodyAt(request) => NoMoreBytes)
    <3>1. CASE Cut
      BY <3>1 DEF Cut
    <3>2. CASE ~Cut
      <4>1. PICK k \in 1 .. Len(request.lines) : InText(k) \/ AtEnd(k)
        BY <2>1, <3>2 DEF LinesInv, AtReturn
      <4>2. at = BodyAt(request)
        BY <2>1, <2>2, <4>1, EndsHeaders
      <4> QED
        BY <1>1, <4>2
    <3> QED
      BY <3>1, <3>2
  <2>5. at - BodyAt(request) <= 0 /\ (at - BodyAt(request) < 0 => NoMoreBytes)
    BY <1>1, <2>4
  <2>6. NoMoreBytes' = NoMoreBytes
    BY <2>1 DEF NoMoreBytes
  <2> QED
    BY <1>1, <2>1, <2>3, <2>5, <2>6 DEF BodyInv
<1>5. CASE Unimplemented
  BY <1>5 DEF Unimplemented, Behind
<1>6. CASE NotFound \/ ServeFile \/ CloseNull \/ BadRequest \/ GoOn \/ SendOk \/ Execl
           \/ OverflowPostContent \/ BodyRead \/ ProcessMotorControl \/ Close
  <2>1. pc \in Behind /\ UNCHANGED <<arrived, hungUp, at, postContent>>
    BY <1>6
    DEF NotFound, ServeFile, CloseNull, BadRequest, GoOn, SendOk, Execl, OverflowPostContent,
        BodyRead, ProcessMotorControl, Close, clientVars, lineVars, parsedVars, Behind
  <2> QED
    BY <1>1, <2>1 DEF BodyInv, NoMoreBytes
<1>7. CASE RecvBody
  <2> DEFINE taken == at - BodyAt(request)
             n == Len(postContent)
  <2>1. /\ pc \in Behind /\ UNCHANGED <<arrived, hungUp>>
        /\ \/ ByteThere /\ at' = at + 1 /\ postContent' = Append(postContent, stream[at'])
           \/ NoMoreBytes /\ at' = at /\ postContent' = Append(postContent, Nul)
    BY <1>7 DEF RecvBody, clientVars, Behind
  <2>2. /\ taken < n => NoMoreBytes
        /\ taken <= n
        /\ \A i \in 1 .. n : postContent[i] = IF i <= taken THEN request.body[i] ELSE Nul
    BY <2>1 DEF BodyInv
  <2>3. taken \in Int
    BY <1>1
  <2>4. CASE NoMoreBytes /\ at' = at /\ postContent' = Append(postContent, Nul)
    <3>1. Nul \in Bytes
      BY DEF Bytes
    <3>2. /\ Len(postContent') = n + 1 /\ postContent'[n + 1] = Nul
          /\ \A i \in 1 .. n : postContent'[i] = postContent[i]
      BY <1>2, <2>4, <3>1, AppendProperties
    <3>3. NoMoreBytes'
      BY <2>1, <2>4 DEF NoMoreBytes
    <3> HIDE DEF taken, n
    <3>4. n \in Nat /\ taken <= n + 1 /\ ~(n + 1 <= taken)
      BY <1>2, <2>2, <2>3 DEF n
    <3>5. ASSUME NEW i \in 1 .. n + 1
          PROVE  postContent'[i] = IF i <= taken THEN request.body[i] ELSE Nul
      <4>1. CASE i = n + 1
        BY <3>2, <3>4, <4>1
      <4>2. CASE i # n + 1
        <5>1. i \in 1 .. n
          BY <3>4, <4>2
        <5> QED
          BY <2>2, <3>2, <5>1
      <4> QED
        BY <4>1, <4>2
    <3>6. at' - BodyAt(request)' = taken
      BY <1>1, <2>4 DEF taken
    <3> QED
      BY <1>1, <3>2, <3>3, <3>4, <3>5, <3>6 DEF BodyInv
  <2>5. CASE ByteThere /\ at' = at + 1 /\ postContent' = Append(postContent, stream[at'])
    <3>1. at < arrived /\ ~NoMoreBytes
      BY <1>1, <2>5 DEF ByteThere, NoMoreBytes
    <3>2. taken = n
      <4>1. ~(taken < n) /\ taken <= n
        BY <2>2, <3>1
      <4> HIDE DEF taken, n
      <4> QED
        BY <1>2, <2>3, <4>1 DEF n
    <3>3. at' = BodyAt(request) + (n + 1)
      <4>1. at - BodyAt(request) = Len(postContent)
        BY <3>2
      <4>2. at + 1 = BodyAt(request) + (Len(postContent) + 1)
        BY ONLY <1>1, <1>2, <4>1
      <4> QED
        BY <2>5, <4>2
    <3>4. n + 1 \in 1 .. Len(request.body)
      <4>1. BodyAt(request) + (n + 1) <= BodyAt(request) + Len(request.body)
        <5>1. at + 1 <= Len(stream)
          BY <1>1, <3>1, RequestShape
        <5> QED
          BY <1>1, <2>5, <3>3, <5>1, BodyBytes
      <4>2. Len(request.body) \in Nat
        BY <1>1, BodyBytes
      <4> QED
        BY ONLY <1>1, <1>2, <4>1, <4>2
    <3>5. stream[at'] = request.body[n + 1]
      BY <1>1, <3>3, <3>4, BodyBytes
    <3>6. stream[at'] \in Bytes
      BY <1>1, <2>5 DEF Bytes
    <3>7. /\ Len(postContent') = n + 1 /\ postContent'[n + 1] = request.body[n + 1]
          /\ \A i \in 1 .. n : postContent'[i] = postContent[i]
      BY <1>2, <2>5, <3>5, <3>6, AppendProperties
    <3>8. at' - BodyAt(request)' = n + 1
      <4>1. at' = BodyAt(request) + (Len(postContent) + 1) /\ BodyAt(request)' = BodyAt(request)
        BY <1>1, <3>3
      <4>2. at' - BodyAt(request)' = Len(postContent) + 1
        BY ONLY <1>1, <1>2, <4>1
      <4> QED
        BY <4>2
    <3> HIDE DEF taken, n
    <3>9. n \in Nat
      BY <1>2 DEF n
    <3>10. ASSUME NEW i \in 1 .. n + 1
           PROVE  postContent'[i] = IF i <= n + 1 THEN request.body[i] ELSE Nul
      <4>1. CASE i = n + 1
        BY <3>7, <3>9, <4>1
      <4>2. CASE i # n + 1
        <5>1. i \in 1 .. n /\ i <= n /\ i <= n + 1
          BY <3>9, <4>2
        <5> QED
          BY <2>2, <3>2, <3>7, <5>1
      <4> QED
        BY <4>1, <4>2
    <3> QED
      BY <1>1, <3>7, <3>8, <3>9, <3>10 DEF BodyInv
  <2> QED
    BY <2>1, <2>4, <2>5
<1>8. CASE Arrive \/ HangUp
  <2>1. pc \in Behind /\ UNCHANGED <<at, postContent>> /\ ~NoMoreBytes
    BY <1>8 DEF Arrive, HangUp, lineVars, parsedVars, NoMoreBytes
  <2> QED
    BY <1>1, <2>1 DEF BodyInv
<1>9. CASE UNCHANGED vars
  <2>1. pc \in Behind /\ UNCHANGED <<at, arrived, hungUp, postContent>>
    BY <1>9 DEF vars, clientVars, lineVars, parsedVars
  <2> QED
    BY <1>1, <2>1 DEF BodyInv, NoMoreBytes
<1> QED
  BY <1>3, <1>4, <1>5, <1>6, <1>7, <1>8, <1>9 DEF Next, Thread

\* Nothing has been read, and the first line begins where the stream does.
LEMMA HandInit == Init => HandInv
<1> SUFFICES ASSUME Init PROVE HandInv
  OBVIOUS
<1>1. /\ request \in Requests /\ at = 0 /\ pc = "recv" /\ buf = << >>
      /\ postContent = << >> /\ called = NotCalled
  BY DEF Init
<1>2. CallInv
  BY <1>1 DEF CallInv
<1>3. 1 \in 1 .. Len(request.lines) /\ Len(Text(1)) \in Nat /\ LineSize - 1 \in Nat
  BY <1>1, LinesShape
<1>4. Into(1) = 0
  BY <1>1, RequestAssumption DEF LaidOut, Into
<1>5. Len(buf) = 0
  BY <1>1
<1>6. \E times \in Nat : Into(1) = times * (LineSize - 1) + Len(buf)
  <2>1. 0 = 0 * (LineSize - 1) + 0
    BY <1>3
  <2>2. Into(1) = 0 * (LineSize - 1) + Len(buf)
    BY <1>4, <1>5, <2>1
  <2> QED
    BY <2>2
<1>7. InText(1)
  <2>1. Into(1) \in 0 .. Len(Text(1))
    BY <1>3, <1>4
  <2> QED
    BY <1>1, <1>6, <2>1 DEF InText
<1>8. LinesInv
  BY <1>3, <1>7 DEF LinesInv
<1> QED
  BY <1>1, <1>2, <1>8 DEF HandInv, Behind

\* Every step keeps what is known of the lines, the body and the call.
LEMMA HandStep == TInv /\ HandInv /\ [Next]_vars => HandInv'
<1> SUFFICES ASSUME TInv, HandInv, [Next]_vars PROVE HandInv'
  OBVIOUS
<1>1. request' = request
  BY RequestStays
<1>2. Plain' => Plain
  BY <1>1 DEF Plain, TakesFirstByte, FillsBuffer
<1>3. CallInv'
  BY CallStep DEF HandInv
<1>4. ASSUME Plain
      PROVE  LinesInv' /\ (pc' \in Behind => BodyInv')
  BY <1>4, LinesStep, BodyStep DEF HandInv
<1>5. (pc \in Behind)' => pc' \in Behind
  BY DEF Behind
<1> QED
  BY <1>2, <1>3, <1>4, <1>5 DEF HandInv

\* Whatever the lines of the request and wherever the buffer cuts them, the C
\* code is handed the body from its first byte on, and nulls only for what the
\* client did not send before it hung up.
THEOREM BodyIsHandedOver == Spec => []BodyHandedOver
<1>1. TInv /\ HandInv => BodyHandedOver
  <2> SUFFICES ASSUME TInv, HandInv, called # NotCalled, method = "POST", Plain
               PROVE  /\ Len(called) = request.announced
                      /\ \A i \in 1 .. Len(called) :
                           IF i <= Len(request.body) - (Len(stream) - arrived)
                             THEN called[i] = request.body[i]
                             ELSE called[i] = Nul /\ hungUp
    BY DEF BodyHandedOver, Plain
  <2>1. /\ called = postContent /\ Len(called) = request.announced
        /\ pc \in {"close", "closed"}
    BY DEF HandInv, CallInv
  <2>2. BodyInv
    BY <2>1 DEF HandInv, Behind
  <2>3. /\ at \in Nat /\ arrived \in Nat /\ at <= arrived /\ request \in Requests
        /\ Len(stream) = BodyAt(request) + Len(request.body)
        /\ Len(request.body) \in Nat /\ BodyAt(request) \in Nat
        /\ Len(postContent) \in Nat
    BY RequestShape, LinesShape, BodyBytes, LenProperties DEF TInv, StreamInv, BufferInv
  <2>4. Len(request.body) - (Len(stream) - arrived) = arrived - BodyAt(request)
    BY ONLY <2>3
  <2> DEFINE taken == at - BodyAt(request)
             came == arrived - BodyAt(request)
             n == Len(postContent)
  <2>5. /\ taken < n => NoMoreBytes
        /\ \A i \in 1 .. n : postContent[i] = IF i <= taken THEN request.body[i] ELSE Nul
    BY <2>2 DEF BodyInv
  <2>6. taken \in Int /\ came \in Int /\ taken <= came /\ n \in Nat
    BY ONLY <2>3
  <2>7. NoMoreBytes => taken = came /\ hungUp
    BY DEF NoMoreBytes
  <2> HIDE DEF taken, came, n
  <2>8. ASSUME NEW i \in 1 .. n
        PROVE  IF i <= came THEN postContent[i] = request.body[i]
                            ELSE postContent[i] = Nul /\ hungUp
    <3>1. CASE taken < n
      BY <2>5, <2>7, <3>1
    <3>2. CASE ~(taken < n)
      <4>1. i <= taken /\ i <= came
        BY <2>6, <3>2
      <4> QED
        BY <2>5, <4>1
    <3> QED
      BY <3>1, <3>2
  <2> QED
    BY <2>1, <2>4, <2>8 DEF came, n
<1> QED
  BY <1>1, TypesInit, TypesStep, HandInit, HandStep, PTL DEF Spec
-----------------------------------------------------------------------------
(***************************************************************************)
(* What the page asks for leaves the process alive: what is handed over is *)
(* its whole body, in which strtok() finds two tokens.                     *)
(***************************************************************************)

\* Where processMotorControl() crashes, and where a body goes beyond its array.
CrashInv ==
  /\ process = "crashed" /\ pc = "close" /\ Filled =>
       Len(postContent) = request.announced /\ ~TwoTokens(postContent)
  /\ process = "undefined" => Len(postContent) = PostSize

\* Only two actions bring the process there.
LEMMA CrashStep == TInv /\ IInv /\ CallInv /\ CrashInv /\ [Next]_vars => CrashInv'
<1> SUFFICES ASSUME TInv, IInv, CallInv, CrashInv, [Next]_vars PROVE CrashInv'
  OBVIOUS
<1>1. request' = request
  BY RequestStays
<1>2. CASE ProcessMotorControl /\ process = "runs"
  <2>1. /\ pc = "call" /\ UNCHANGED <<method, postContent>>
        /\ process' \in {"runs", "crashed"}
        /\ process' = "crashed" => ~(Filled /\ TwoTokens(postContent))
    BY <1>2 DEF ProcessMotorControl, parsedVars
  <2>2. method = "POST" => Len(postContent) = request.announced
    BY <2>1 DEF CallInv
  <2>3. Filled' = Filled /\ TwoTokens(postContent)' = TwoTokens(postContent)
    BY <2>1 DEF Filled, TwoTokens
  <2> QED
    BY <1>1, <2>1, <2>2, <2>3 DEF CrashInv, Filled
<1>3. CASE Thread /\ ~ProcessMotorControl
  <2>1. process = "runs"
    BY <1>3 DEF Thread
  <2>2. process' = "crashed" => pc' = "fclose"
    BY <1>3, <2>1
    DEF Thread, GetLine, RecvByte, RecvNothing, Peek, AcceptRequest, ReadHeader,
        Unimplemented, NotFound, ServeFile, CloseNull, BadRequest, GoOn, SendOk, Reply, Execl,
        RecvBody, OverflowPostContent, BodyRead, Close, effectVars
  <2>3. process' = "undefined" => OverflowPostContent
    BY <1>3, <2>1
    DEF Thread, GetLine, RecvByte, RecvNothing, Peek, AcceptRequest, ReadHeader,
        Unimplemented, NotFound, ServeFile, CloseNull, BadRequest, GoOn, SendOk, Reply, Execl,
        RecvBody, BodyRead, Close, effectVars
  <2>4. OverflowPostContent => Len(postContent) = PostSize /\ UNCHANGED postContent
    BY DEF OverflowPostContent, parsedVars
  <2> QED
    BY <2>2, <2>3, <2>4 DEF CrashInv
<1>4. CASE Arrive \/ HangUp \/ UNCHANGED vars
  <2>1. UNCHANGED <<process, pc, method, postContent>>
    BY <1>4 DEF Arrive, HangUp, vars, parsedVars, effectVars
  <2>2. Filled' = Filled /\ TwoTokens(postContent)' = TwoTokens(postContent)
    BY <2>1 DEF Filled, TwoTokens
  <2> QED
    BY <1>1, <2>1, <2>2 DEF CrashInv
<1> QED
  BY <1>2, <1>3, <1>4 DEF Next, Thread

\* Two sequences that agree have two tokens or have not.
LEMMA SameTokens ==
  ASSUME NEW s, NEW t, Len(s) = Len(t), \A n \in 1 .. Len(t) : s[n] = t[n], TwoTokens(t),
         Len(t) \in Nat
  PROVE  TwoTokens(s)
<1>1. PICK i, j, k \in 1 .. Len(t) :
        /\ i < j /\ j < k
        /\ t[i] # Delim /\ t[j] = Delim /\ t[k] # Delim
        /\ \A n \in 1 .. k : t[n] # Nul
  BY DEF TwoTokens
<1>2. \A n \in 1 .. k : n \in 1 .. Len(t)
  OBVIOUS
<1>3. /\ s[i] # Delim /\ s[j] = Delim /\ s[k] # Delim
      /\ \A n \in 1 .. k : s[n] # Nul
  BY <1>1, <1>2
<1> QED
  BY <1>1, <1>3 DEF TwoTokens

\* The requests of the page itself leave the process alive for a client that
\* stays, however their bytes arrive and whatever their headers, but for one that
\* fills the buffer: the body is handed over whole, so that strtok() finds both
\* its tokens.
THEOREM PageIsHarmless == Spec => []PageKeepsServer
<1>1. TInv /\ IInv /\ HandInv /\ CrashInv => PageKeepsServer
  <2> SUFFICES ASSUME TInv, IInv, HandInv, CrashInv, ~hungUp, path # "inside",
                      \/ /\ request.method = "GET" /\ request.target = "file"
                         /\ ~request.query
                      \/ FromPage,
                      process # "runs"
               PROVE  FALSE
    BY DEF PageKeepsServer
  <2>1. \/ process = "crashed" /\ (pc = "fclose" \/ (pc = "close" /\ goal = "cgi"))
        \/ process = "ended" /\ pc = "execl"
        \/ process = "undefined" /\ pc = "body"
    BY DEF IInv, EndedWhere
  <2>2. CASE request.method = "GET" /\ request.target = "file" /\ ~request.query
    BY <2>1, <2>2 DEF IInv, DoneAsDecided, DecidedForPage
  <2>3. CASE FromPage
    <3>1. /\ goal = "cgi" /\ path = "motor_control.c" /\ method = "POST"
      BY <2>1, <2>3 DEF IInv, DoneAsDecided, DecidedForPage, FromPage
    <3>2. /\ Len(postContent) <= request.announced /\ Len(postContent) \in Nat
          /\ PostSize \in Nat /\ request.announced \in Nat
          /\ request.announced = Len(request.body) /\ request.announced < PostSize
      BY <2>3, RequestAssumption, RequestShape, LenProperties
      DEF TInv, StreamInv, BufferInv, FromPage
    <3>3. Len(postContent) < PostSize
      BY ONLY <3>2
    <3>4. process = "crashed" /\ pc = "close"
      BY <2>1, <3>1, <3>2, <3>3 DEF IInv, DoneAsDecided, CrashInv
    <3>5. Len(postContent) = Len(request.body) /\ ~TwoTokens(postContent)
      BY <3>1, <3>2, <3>3, <3>4 DEF CrashInv, Filled
    <3>6. BodyInv
      BY <2>3, <3>4 DEF HandInv, Plain, FromPage, Behind
    <3>7. /\ ~(at - BodyAt(request) < Len(postContent))
          /\ at - BodyAt(request) <= Len(postContent)
          /\ at - BodyAt(request) \in Int
      BY <3>6, LinesShape DEF BodyInv, NoMoreBytes, TInv, StreamInv
    <3>8. at - BodyAt(request) = Len(postContent)
      BY ONLY <3>2, <3>7
    <3>9. \A n \in 1 .. Len(request.body) : postContent[n] = request.body[n]
      <4>1. \A n \in 1 .. Len(postContent) : n <= Len(postContent)
        BY <3>2
      <4> QED
        BY <3>5, <3>6, <3>8, <4>1 DEF BodyInv
    <3> QED
      BY <2>3, <3>2, <3>5, <3>9, SameTokens DEF FromPage
  <2> QED
    BY <2>2, <2>3
<1>2. Init => CrashInv
  BY DEF Init, CrashInv
<1>3. TInv /\ IInv /\ HandInv /\ CrashInv /\ [Next]_vars => CrashInv'
  BY CrashStep DEF HandInv
<1> QED
  BY <1>1, <1>2, <1>3, InitInv, StepInv, TypesInit, TypesStep, HandInit, HandStep, PTL DEF Spec
================================================================================

------------------------------ MODULE HttpRequest ------------------------------
(***************************************************************************)
(* One request as MotorDriver/httpd.c serves it: get_line() takes lines    *)
(* off a socket whose bytes arrive when they like, accept_request()        *)
(* decides between a file, C code, a script and an error, execute_cgi()    *)
(* and serve_file() do it, and webpages.c says so to the client.           *)
(*                                                                         *)
(* The text of the request line and that of the Content-Length header are  *)
(* one byte each; other headers and the body have bytes of their own.      *)
(* Which connection this is, is the business of HttpdAccept.tla.           *)
(***************************************************************************)
EXTENDS Integers, Sequences

CONSTANTS
  Requests,  \* what clients send
  LineSize,  \* sizeof(buf), which get_line() is passed
  PostSize   \* sizeof(postContent)

CR == "\r"
LF == "\n"
Delim == "_"
RequestLine == "request_line"
ContentLength == "Content-Length"

\* The paths by what is there: the C code that drives the motors, a script or
\* any other file, a directory, a file that cannot be opened, nothing.
Targets == {"motor_control.c", "script", "file", "directory", "unreadable", "missing"}

\* What a client sends: lines, the request line first and an empty one last,
\* each with the same end, and the body.  r.lineAt[k] of the bytes come before
\* the k-th line, and the last of these numbers is where the body begins.
BodyAt(r) == r.lineAt[Len(r.lines) + 1]

LaidOut(r) ==
  /\ r.lineAt[1] = 0
  /\ \A k \in 1 .. Len(r.lines) :
       /\ r.lineAt[k + 1] = r.lineAt[k] + Len(r.lines[k]) + Len(r.eol)
       /\ r.lineAt[k + 1] <= BodyAt(r)
       /\ \A n \in 1 .. Len(r.lines[k]) : r.bytes[r.lineAt[k] + n] = r.lines[k][n]
       /\ \A n \in 1 .. Len(r.eol) :
            r.bytes[r.lineAt[k] + Len(r.lines[k]) + n] = r.eol[n]
  /\ \A n \in 1 .. Len(r.body) : r.bytes[BodyAt(r) + n] = r.body[n]
  /\ Len(r.bytes) = BodyAt(r) + Len(r.body)

ASSUME RequestAssumption ==
  /\ LineSize \in Nat \ {0, 1} /\ PostSize \in Nat \ {0}
  /\ \A r \in Requests :
       /\ r.method \in {"GET", "POST", "other"} /\ r.target \in Targets
       /\ r.query \in BOOLEAN /\ r.announced \in Nat
       /\ r.eol \in {<<CR>>, <<LF>>, <<CR, LF>>}
       /\ r.lines \in Seq(Seq(STRING)) /\ Len(r.lines) > 1 /\ r.body \in Seq(STRING)
       /\ r.lines[1] = <<RequestLine>>
       /\ \A k \in 1 .. Len(r.lines) :
            /\ r.lines[k] = << >> <=> k = Len(r.lines)
            /\ \A n \in 1 .. Len(r.lines[k]) : r.lines[k][n] \notin {CR, LF}
       /\ r.lineAt \in Seq(Nat) /\ Len(r.lineAt) = Len(r.lines) + 1
       /\ LaidOut(r)

VARIABLES
  request,  \* what this client sends
  arrived,  \* how many bytes of it have arrived
  hungUp,   \* the client has closed its end
  at,       \* how many bytes have been read
  pc,       \* where the thread is
  goal,     \* what it reads lines for
  buf,      \* what get_line() has stored
  method,   \* as read
  path,     \* as read, or the index.html inside it
  content_length, \* as read, -1 at first
  postContent,    \* the bytes of the body as read
  replies,  \* the status lines sent
  called,   \* what processMotorControl() was called with
  process   \* how the process is

clientVars == <<request, arrived, hungUp>>
lineVars == <<at, buf>>
parsedVars == <<goal, method, path, content_length, postContent>>
effectVars == <<replies, called, process>>
vars == <<clientVars, lineVars, pc, parsedVars, effectVars>>

NotCalled == <<"not called">>
Uninitialized == <<"uninitialized">>
Nul == "null"

stream == request.bytes

Init ==
  /\ request \in Requests
  /\ arrived = 0 /\ hungUp = FALSE /\ at = 0
  /\ pc = "recv" /\ goal = "request" /\ buf = << >>
  /\ method = "other" /\ path = "missing"
  /\ content_length = -1 /\ postContent = << >>
  /\ replies = << >> /\ called = NotCalled /\ process = "runs"

-----------------------------------------------------------------------------
(***************************************************************************)
(* get_line()                                                              *)
(***************************************************************************)

\* recv() blocks until there is a byte or there will never be one.
ByteThere == at < arrived
NoMoreBytes == at = arrived /\ hungUp

\* Mutant of Store: "i < size" where the code has "i < size - 1".
StoreToTheBrim(c) ==
  /\ buf' = Append(buf, c)
  /\ pc' = IF c = LF \/ Len(buf') = LineSize THEN "line" ELSE "recv"

\* The loop ends with a line feed or when only the final null fits.
Store(c) ==
  /\ buf' = Append(buf, c)
  /\ pc' = IF c = LF \/ Len(buf') = LineSize - 1 THEN "line" ELSE "recv"

RecvByte ==
  /\ pc = "recv" /\ ByteThere
  /\ at' = at + 1
  /\ IF stream[at'] = CR THEN pc' = "peek" /\ UNCHANGED buf ELSE Store(stream[at'])
  /\ UNCHANGED <<clientVars, parsedVars, effectVars>>

\* Mutant of RecvNothing: the result of recv() is not looked at.
RecvAgain ==
  /\ pc = "recv" /\ NoMoreBytes
  /\ UNCHANGED vars

\* The loop ends, and nothing is stored.
RecvNothing ==
  /\ pc = "recv" /\ NoMoreBytes
  /\ pc' = "line"
  /\ UNCHANGED <<clientVars, lineVars, parsedVars, effectVars>>

\* A carriage return counts as a line feed, and takes one behind it along.
Peek ==
  /\ pc = "peek" /\ (ByteThere \/ NoMoreBytes)
  /\ at' = IF ByteThere /\ stream[at + 1] = LF THEN at + 1 ELSE at
  /\ Store(LF)
  /\ UNCHANGED <<clientVars, parsedVars, effectVars>>

GetLine == RecvByte \/ RecvNothing \/ Peek

\* get_line() is called once more.
NextLine == pc' = "recv" /\ buf' = << >>

-----------------------------------------------------------------------------
(***************************************************************************)
(* accept_request(), when it has the first line.                           *)
(***************************************************************************)

\* The mode bits stat() yields.  For a path that ends in .c stat() is not
\* called, and st holds what was on the stack.
Modes(target) ==
  CASE target = "motor_control.c" -> SUBSET {"directory", "executable"}
    [] target = "script" -> {{"executable"}}
    [] target = "directory" -> {{"directory", "executable"}}
    [] target \in {"file", "unreadable"} -> {{}}

IsCgi(mode) == method' = "POST" \/ request.query \/ "executable" \in mode

\* Mutant of Decide: the bits are tested for "not executable".
DecideTheOtherWay(mode) ==
  /\ path' = IF "directory" \in mode THEN "inside" ELSE request.target
  /\ goal' = IF method' = "POST" \/ request.query \/ "executable" \notin mode
               THEN "cgi" ELSE "file"

\* Between serve_file() and execute_cgi().
Decide(mode) ==
  /\ path' = IF "directory" \in mode THEN "inside" ELSE request.target
  /\ goal' = IF IsCgi(mode) THEN "cgi" ELSE "file"

\* An empty line, the end of the stream or an unknown word is no method.
AcceptRequest ==
  /\ pc = "line" /\ goal = "request"
  /\ method' = IF buf # << >> /\ buf[1] = RequestLine THEN request.method ELSE "other"
  /\ IF method' = "other"
       THEN pc' = "unimplemented" /\ UNCHANGED <<goal, buf, path>>
       ELSE /\ NextLine
            /\ IF request.target = "missing"
                 THEN goal' = "notFound" /\ path' = "missing"
                 ELSE \E mode \in Modes(request.target) : Decide(mode)
  /\ UNCHANGED <<clientVars, at, content_length, postContent, effectVars>>

-----------------------------------------------------------------------------
(***************************************************************************)
(* The headers: every caller reads lines until one is empty or there are   *)
(* no more; execute_cgi() looks for the length of a POST.                  *)
(***************************************************************************)

EndOfHeaders == buf = << >> \/ buf = <<LF>>

ReadHeader ==
  /\ pc = "line" /\ goal # "request"
  /\ IF EndOfHeaders THEN pc' = goal /\ UNCHANGED buf ELSE NextLine
  /\ content_length' =
       IF buf # << >> /\ buf[1] = ContentLength /\ goal = "cgi" /\ method = "POST"
         THEN request.announced ELSE content_length
  /\ UNCHANGED <<clientVars, at, goal, method, path, postContent, effectVars>>

-----------------------------------------------------------------------------
(***************************************************************************)
(* What is done with it.                                                   *)
(***************************************************************************)

\* The pages of webpages.c, several send() calls each.  One to a client that
\* has gone may raise SIGPIPE, which nobody handles.
Reply(status) ==
  /\ replies' = Append(replies, status)
  /\ process' \in {"runs"} \cup (IF hungUp THEN {"killed"} ELSE {})

Unimplemented ==
  /\ pc = "unimplemented"
  /\ Reply(501)
  /\ pc' = "returned"
  /\ UNCHANGED <<clientVars, lineVars, parsedVars, called>>

NotFound ==
  /\ pc = "notFound"
  /\ Reply(404)
  /\ pc' = "close"
  /\ UNCHANGED <<clientVars, lineVars, parsedVars, called>>

\* serve_file(): fopen(), then headers() and the file, or not_found() and
\* fclose() of a null pointer.
ServeFile ==
  /\ pc = "file"
  /\ IF path = "file" THEN Reply(200) /\ pc' = "close"
                      ELSE Reply(404) /\ pc' = "fclose"
  /\ UNCHANGED <<clientVars, lineVars, parsedVars, called>>

CloseNull ==
  /\ pc = "fclose"
  /\ process' = "crashed"
  /\ UNCHANGED <<clientVars, lineVars, pc, parsedVars, replies, called>>

\* Mutant of BadRequest: it does not return.
BadRequestAndOn ==
  /\ pc = "cgi" /\ method = "POST" /\ content_length = -1
  /\ Reply(400)
  /\ pc' = "ok"
  /\ UNCHANGED <<clientVars, lineVars, parsedVars, called>>

\* execute_cgi() of a POST without a length.
BadRequest ==
  /\ pc = "cgi" /\ method = "POST" /\ content_length = -1
  /\ Reply(400)
  /\ pc' = "close"
  /\ UNCHANGED <<clientVars, lineVars, parsedVars, called>>

GoOn ==
  /\ pc = "cgi" /\ ~(method = "POST" /\ content_length = -1)
  /\ pc' = "ok"
  /\ UNCHANGED <<clientVars, lineVars, parsedVars, effectVars>>

SendOk ==
  /\ pc = "ok"
  /\ Reply(200)
  /\ pc' = IF path # "motor_control.c" THEN "execl"
           ELSE IF method = "POST" THEN "body" ELSE "call"
  /\ UNCHANGED <<clientVars, lineVars, parsedVars, called>>

\* The script takes the place of the server, or exit() ends it.
Execl ==
  /\ pc = "execl"
  /\ process' = "ended"
  /\ UNCHANGED <<clientVars, lineVars, pc, parsedVars, replies, called>>

\* A byte of the body; the result of recv() is not looked at, and what is not
\* received stays null.
RecvBody ==
  /\ pc = "body" /\ Len(postContent) < content_length /\ Len(postContent) < PostSize
  /\ \/ /\ ByteThere
        /\ at' = at + 1
        /\ postContent' = Append(postContent, stream[at'])
     \/ /\ NoMoreBytes
        /\ postContent' = Append(postContent, Nul)
        /\ UNCHANGED at
  /\ UNCHANGED <<clientVars, buf, pc, goal, method, path, content_length, effectVars>>

\* The length is not compared with the size of postContent: recv() is passed the
\* address behind its last byte, and what becomes of the process then cannot be
\* said.
OverflowPostContent ==
  /\ pc = "body" /\ Len(postContent) < content_length /\ Len(postContent) = PostSize
  /\ ByteThere \/ NoMoreBytes
  /\ process' = "undefined"
  /\ UNCHANGED <<clientVars, lineVars, pc, parsedVars, replies, called>>

\* Mutant of BodyRead: "i < content_length - 1".
BodyReadButOne ==
  /\ pc = "body" /\ Len(postContent) >= content_length - 1
  /\ pc' = "call"
  /\ UNCHANGED <<clientVars, lineVars, parsedVars, effectVars>>

BodyRead ==
  /\ pc = "body" /\ Len(postContent) >= content_length
  /\ pc' = "call"
  /\ UNCHANGED <<clientVars, lineVars, parsedVars, effectVars>>

\* Both calls of strtok() find a token in s, which a null ends.
TwoTokens(s) ==
  \E i, j, k \in 1 .. Len(s) :
    /\ i < j /\ j < k
    /\ s[i] # Delim /\ s[j] = Delim /\ s[k] # Delim
    /\ \A n \in 1 .. k : s[n] # Nul

\* The buffer is only filled for a POST, and its last byte is to stay null.
Filled == method = "POST" /\ Len(postContent) < PostSize

\* processMotorControl() passes what strtok() returns to strcmp(), and be it null;
\* what strtok() makes of a buffer nobody filled or ended is anything.  What other
\* threads do to its place is in MotorControl.tla.
ProcessMotorControl ==
  /\ pc = "call"
  /\ pc' = "close"
  /\ called' = IF method = "POST" THEN postContent ELSE Uninitialized
  /\ \/ (Filled => TwoTokens(postContent)) /\ UNCHANGED process
     \/ ~(Filled /\ TwoTokens(postContent)) /\ process' = "crashed"
  /\ UNCHANGED <<clientVars, lineVars, parsedVars, replies>>

Close ==
  /\ pc = "close"
  /\ pc' = "closed"
  /\ UNCHANGED <<clientVars, lineVars, parsedVars, effectVars>>

Thread ==
  /\ process = "runs"
  /\ \/ GetLine \/ AcceptRequest \/ ReadHeader
     \/ Unimplemented \/ NotFound \/ ServeFile \/ CloseNull
     \/ BadRequest \/ GoOn \/ SendOk \/ Execl
     \/ RecvBody \/ OverflowPostContent \/ BodyRead \/ ProcessMotorControl \/ Close

-----------------------------------------------------------------------------
(***************************************************************************)
(* The client: its bytes arrive one after the other, and it may go at any  *)
(* time.                                                                   *)
(***************************************************************************)

Arrive ==
  /\ ~hungUp /\ arrived < Len(stream)
  /\ arrived' = arrived + 1
  /\ UNCHANGED <<request, hungUp, lineVars, pc, parsedVars, effectVars>>

HangUp ==
  /\ ~hungUp /\ hungUp' = TRUE
  /\ UNCHANGED <<request, arrived, lineVars, pc, parsedVars, effectVars>>

Next == Thread \/ Arrive \/ HangUp

\* The thread runs when it can, and what the client sends arrives unless it
\* hangs up, which it need not.
Fairness == WF_vars(Thread) /\ WF_vars(Arrive)

Spec == Init /\ [][Next]_vars /\ Fairness

-----------------------------------------------------------------------------
(***************************************************************************)
(* Properties.                                                             *)
(***************************************************************************)

Done == pc \in {"closed", "returned"} \/ process # "runs"

\* The types of the variables; what get_line() stores leaves room for the null
\* that ends it (lines 436-470).  Nothing keeps a body within postContent: where
\* one would go beyond it, the process is "undefined" (lines 286, 339-342).
TypeOK ==
  /\ request \in Requests
  /\ arrived \in 0 .. Len(stream) /\ at \in 0 .. arrived /\ hungUp \in BOOLEAN
  /\ pc \in {"recv", "peek", "line", "unimplemented", "notFound", "file", "fclose", "cgi",
             "ok", "execl", "body", "call", "close", "closed", "returned"}
  /\ goal \in {"request", "notFound", "file", "cgi"}
  /\ method \in {"GET", "POST", "other"} /\ path \in Targets \cup {"inside"}
  /\ Len(buf) < LineSize
  /\ content_length \in Nat \cup {-1}
  /\ Len(postContent) <= request.announced /\ Len(postContent) <= PostSize
  /\ process \in {"runs", "ended", "crashed", "killed", "undefined"}

\* A request gets one answer: never two, and one before its thread is through,
\* wherever in the stream the client hangs up (lines 146-425, webpages.c).
OneAnswer ==
  /\ Len(replies) <= 1
  /\ pc \in {"close", "closed", "returned"} => Len(replies) = 1

\* A line that fills the buffer to the last byte: its end is the next line.
FillsBuffer(line) ==
  \E times \in 1 .. Len(line) : Len(line) = times * (LineSize - 1)

\* Behind a carriage return a line feed belongs to the end of the line, and be
\* it the first byte of the body.
TakesFirstByte ==
  request.eol = <<CR>> /\ request.body # << >> /\ request.body[1] = LF

\* The C code is handed the body of the POST, from its first byte on, with
\* nulls only for bytes that never came; unless a line fills the buffer, and
\* the line feed behind it passes for the end of the headers, or the body begins
\* with what passes for the end of the line before it (lines 283-297, 336-348,
\* 434-472).
BodyHandedOver ==
  (called # NotCalled /\ method = "POST" /\ ~TakesFirstByte
     /\ \A k \in 1 .. Len(request.lines) : ~FillsBuffer(request.lines[k])) =>
       /\ Len(called) = request.announced
       /\ \A i \in 1 .. Len(called) :
            IF i <= Len(request.body) - (Len(stream) - arrived)
              THEN called[i] = request.body[i]
              ELSE called[i] = Nul /\ hungUp

\* What the page posts: two tokens, of the length announced, which leaves room
\* for a null in postContent, behind headers that get_line() can tell apart.
FromPage ==
  /\ request.method = "POST" /\ request.target = "motor_control.c"
  /\ TwoTokens(request.body)
  /\ request.announced = Len(request.body) /\ Len(request.body) < PostSize
  /\ ~TakesFirstByte
  /\ \A k \in 1 .. Len(request.lines) : ~FillsBuffer(request.lines[k])

\* What the page itself asks for does not end the process while the client
\* waits: its own file, and POSTs to the C code, as long as the bits of a mode
\* that was never read do not make that a directory.  However the bytes arrive,
\* both tokens of such a POST reach strcmp() (lines 242-269, 326-374; Qik2s9v1.c
\* lines 312-317).
PageKeepsServer ==
  (~hungUp /\ path # "inside"
     /\ \/ request.method = "GET" /\ request.target = "file" /\ ~request.query
        \/ FromPage) =>
    process = "runs"

\* Whoever sends what it announced is answered, and so is whoever hangs up;
\* unless the stream ends in a carriage return alone, behind which get_line()
\* waits for a line feed, or the body begins with one (lines 440-466).
RequestEnds ==
  \/ /\ request.announced <= Len(request.body)
     /\ stream[Len(stream)] # CR /\ ~TakesFirstByte
  \/ hungUp
  ~> Done
================================================================================

# Telebra, specified and checked

Telebra is a remote controlled vehicle: a web page posts key presses to a small
web server on a Raspberry Pi B+ (`src/MotorDriver`), which drives two motors
through a qik 2s9v1 controller on a serial line. `src/ZebraHttpd` is the web
server the driver grew out of. This directory holds TLA+ models of the program,
the TLC configurations that check them on small instances, and TLAPS proofs of
theorems about them for all instances. Line numbers are those of
`src/MotorDriver/Qik2s9v1.c` unless another file is named.

## 1. Inventory

| Component | State | Operations | Interacts with |
|---|---|---|---|
| Command queue (`Qik2s9v1.c` 365-439) | the ring `qikCommandQueue[1024]`, head, tail, `qikMutex` | `QueueQikCommand()`, `DequeueQikCommand()` | called by every thread; drained by the main thread into `sendCommand()` |
| Qik commands (66-297) | none | `getFirmwareVersion()` ... `setM1Reverse()` | each builds one message and queues it |
| Clock (56-64) | none | `getCurrentTime()`, compared with two sums of it | the two time limits of the driver |
| Qik driver (451-577, `SerialPort.c`, `MotorDriver.c`) | `pendingCmd`, `cmdSentTimestamp`, `motorShutoffTime`, the port's descriptor | `processQikState()`, `sendCommand()`, `processResponse()`, `readSerial()`, `errorFunc()`, `main()` | main thread writes to the line, serial thread hears the answers, the GPIO thread reports errors; all through globals |
| Motor control requests (305-354) | the static place of `strtok()` | `processMotorControl()` | HTTP threads to the queue |
| Connections (`httpd.c` 42-79, 146-271) | `client_sock`, the descriptors, one thread per connection | `httpdMain()`, `accept_request()` | passes each thread the address of its own variable |
| Request parsing, CGI (`httpd.c` 146-419) | locals of the thread | `accept_request()`, `execute_cgi()`, `serve_file()` | calls `processMotorControl()`, or replaces or ends the process |
| `get_line()` (`httpd.c` 434-472) | none | reads a line off a socket | |
| Response pages (`webpages.c`) | none | fixed text, a few `send()` each | the client, who may have gone |
| Remote control page (`htdocs/index.html`) | `keyPressed`, `timerHandle[]`, the browser's timeouts | key and button down and up, repeat, POST | the server, by separate connections |
| ZebraHttpd (`ZebraHttpd/httpd.c`) | per request two pipes and a child | `main()`, `accept_request()`, `execute_cgi()` | its children, which inherit the descriptors of all requests |

What is hard here: threads share the queue, `pendingCmd`, `motorShutoffTime`,
`client_sock` and the place of `strtok()`, and only the producers of the queue
take a lock; answers are bytes without an address, matched to the query that
happens to be pending, with a time limit, and the clock goes round; motors are
stopped by a timer that sits behind the same queue as everything else; a client
may go at any byte and its POSTs overtake each other; any thread can end the
process; descriptors, threads, children and pipes are finite. Each of these is listed at its line under
`hazards` in `PROJECT.json`, with the properties that watch over it or a note why none does.

What makes each component correct:

- *queue*: whole commands come out, in the order in which they went in; a ring
  that is full is never taken for an empty one; a caller that is turned away
  leaves the others alone;
- *driver*: every motor that turns, or will, is covered by the automatic
  shutoff; an answer is matched to its own query; no wait is forever; an error
  is read; the shutoff is not early;
- *requests*: each does to both motors what its own body says;
- *clock*: the limits are kept, whatever the clock reads at the start;
- *connections*: who asked is answered; descriptors come back;
- *request*: one answer; the body reaches the C code as sent; what the page asks
  for does not end the process; no client holds a thread for ever by going;
- *page and vehicle*: what is held is repeated and driven, and the vehicle stands
  still soon after it was let go;
- *ZebraHttpd*: a page is the whole output of its own child; descriptors come
  back; nobody waits on anybody for ever.

## 2. Modules

    CommandFifo <= QikQueue     <- MCQikQueue, QikQueueProofs
    QikCommands <- QikDriver    <- MCQikDriver, QikDriverProofs
                <- MotorControl <- MCMotorControl, MotorControlProofs
                <- RemotePage   <- Telebra <- MCTelebra, TelebraProofs
    QikClock    <- QikClockProofs
    HttpdAccept <- MCHttpdAccept, HttpdAcceptProofs
    HttpRequest <- MCHttpRequest, HttpRequestProofs
    ZebraCgi    <- MCZebraCgi, ZebraCgiProofs

(`<-` is EXTENDS, `<=` is implemented by.) The vehicle from hand to motor is
Telebra; what happens on the way is looked at closely by HttpdAccept (which
connection a thread serves), HttpRequest (what it makes of the bytes), MotorControl
(what `strtok()` makes of the body), QikQueue (how two commands get through the
ring), QikDriver (how they get through the line) and QikClock (when).

**CommandFifo** is what callers of the queue rely on: a first-in first-out queue
of whole frames, and nothing about bytes.

**QikQueue** is the ring. A step is one access to memory the threads share: the
lock, the test for room, each store of a byte, each move of `tail`, and on the
side of the consumer the test of the `while` loop, each byte read and each move
of `head`. The Pi B+ has a single core and the makefile compiles without
optimisation, so the accesses happen in program order. A frame is its length,
the expects-response flag and the payload. `Reject` is lines 381-385: the call
is over and the mutex stays taken. `OverflowTmpCmd` is the point from which C
says nothing about the consumer, where the model stops it. `backlog`, `sent` and
`ranAhead` are history: they influence nothing.

**QikCommands** is what the getters and setters put into a message, as a record
of code, motor, argument and flag; a speed of eight bits becomes seven bits and
one of two codes. `Speed`, `Turns` and `Stops` are the qik's reading of it,
taken from how the setters split a speed.

**QikDriver** takes the queue as a bounded sequence of commands (`Capacity`) and
models the rest of the driver command by command. The main thread's label `pc`
walks through `main()` (`CheckErrorPin`, `AskInitialInfo`), `processQikState()`
(`CheckShutoff`, `StopM0`, `StopM1`), `DequeueQikCommand()` (`Dequeue`) and
`sendCommand()` (`MarkSent`, `Write`). The serial thread opens the port or ends
the process, hears a byte and, in a step of its own, clears `pendingCmd`. HTTP
threads (`Request`, `Exit`) and the GPIO thread (`ErrorFunc`) queue at any time.
The qik executes what is on the line in order, answers queries with a byte,
raises its ERR pin and may stop its motors on an error; the line may lose
answers. `Starting` is the time before `main()` has created the other threads, which
do nothing until then. Absolute times are replaced by what is left of them: `cmdLeft` is
`cmdSentTimestamp + CMD_TIMEOUT_USEC - now`, `motorLeft` is `motorShutoffTime -
now`, `armed` is `motorShutoffTime != 0`. A caller that finds the queue full sets
`leaked`, after which nobody queues. `dropped` says that a request for the error byte
was written before the port was open.

**MotorControl** runs `processMotorControl()` in several threads. `strtok()`
keeps the place where it stopped in one static pointer; a worker's second call
reads that place and moves it in two steps. A body is a pair of tokens, either of
which may be a word `strcmp()` does not know, at which the function returns, and the
second may be missing, in which case `strcmp()` follows a null pointer and the process
is over. Taking the token of a worker that has returned reads dead stack, which may
hold anything.

**QikClock** is `getCurrentTime()` at its width. On the target a `long` has 32
bits: `tv_sec * 1000000` goes round in 71 minutes (the model takes the overflow of
this signed product for the wrap the build produces), and its negative half
becomes a huge `uint64_t`. The main thread checks the shutoff, waits and sends;
any amount of time passes between its steps. `age` and `asked` are history, the
time that has really gone by, counted up to half a round.

**HttpdAccept** is the life of a connection: `accept()` takes the lowest free
descriptor, the thread copies `client_sock` through the pointer some time
later, reads, answers and closes, or returns without closing if the method is
unknown. A thread is never joined nor detached, so that only so many can ever be
created. A send to a client that has gone may end the process. `setting`, chosen
at the start, says whether clients wait, how many are connected at a time and how
many threads can be created.

**HttpRequest** is one request. The client's bytes arrive one at a time and it
may hang up behind any of them. `RecvByte`, `RecvNothing` and `Peek` are
`get_line()`; `AcceptRequest` is `accept_request()` up to the choice between file,
CGI and error, where the mode bits of a path that ends in `.c` are any (`Modes`);
`ReadHeader` is the loop each of them reads headers with; the rest are the ends of
`execute_cgi()` and `serve_file()`. `ProcessMotorControl` crashes the process when
`strtok()` finds no second token (`TwoTokens`), and may when the buffer was filled by
nobody (a GET) or to its last byte; the byte behind that is the end of what C says,
where the model stops (`OverflowPostContent`). The text of a line is one byte where only its
kind matters. A request is its bytes together with what the client meant by them: the
lines, where each begins, and the body (`LaidOut`); the server sees the bytes alone.

**RemotePage** is the script of `index.html`: one handler at a time, a timeout for
each direction that `timerHandle` names, and one (`orphan`) whose handle has been
overwritten. A second button of the mouse may go down while one is held, and a mouse
button may come up over another button of the page than it went down on, or over one
without having gone down on any. **Telebra** extends it with the POSTs, which are served in any order,
two commands each, or lost; with the shutoff; and with time. Commands take effect
in the order in which they are queued.

**ZebraCgi** is who holds which end of which pipe: `held` gives each process the
ends it has open, `fork()` copies all of the server's, those of other threads'
requests included. Readers see the end, and writers get SIGPIPE, when nobody holds
the other end. Scripts are external: one reads what was announced, one to the end
of its input, one nothing, one echoes.

## 3. Runs

| Run | Shows | Instance |
|---|---|---|
| `queue` | `TypeOK`; until the consumer has run ahead the ring implements `CommandFifo` and `tail` never laps `head`; it runs ahead only inside a frame being laid down; a leaked mutex stays leaked and freezes the queue | main and two HTTP threads, ring of 7, commands of 1 and 2 bytes |
| `queue_kosher` | violated: bytes no caller queued are sent (line 42 says the mutex prevents that) | main and one HTTP thread, ring of 8 |
| `driver_safety` | `TypeOK`, `Covered`, `AnswersMatch`, `NoEarlyShutoff`, `MotorsStop` | queue of 3, two client commands, one lost answer, exit at any time |
| `driver_live` | `SpinEnds`, `ErrorsRead` | queue of 8, one client command, one error, one lost answer, exit at any time |
| `driver_leak` | violated: motors turn forever once the queue has been full (line 562) | queue of 3, two client commands |
| `clock` | `TypeOK`, `ShutoffInTime`, `WaitInTime` | a clock of 16 readings, limits of 2 and 4 |
| `control` | `TypeOK`, `UndisturbedObeyed` | three requests, two directions and another word, verbs, another word or nothing behind |
| `httpd` | `TypeOK`, `AnswersWhoAsked`, `DescriptorsReturned`, `OrderlyAnswered` | three clients, two descriptors; one at a time with threads for all or for two, or all at once and free to hang up |
| `httpd_race` | violated: two connections in quick succession, one is never answered (`httpd.c` 35-38) | two clients |
| `request` | `TypeOK`, `OneAnswer`, `BodyHandedOver`, `PageKeepsServer`, `RequestEnds` | buffers of 4 bytes, 44 requests, a client that goes at any byte |
| `telebra` | `TypeOK`, `RepeatsWhatIsHeld`, `StopsInTime`, `HeldIsDriven` | two directions, four inputs, two POSTs under way, one lost |
| `zebra` | `TypeOK`, `ContentIsOwn`, `PageWhole`, `DescriptorsReturned`, `GentleKeepsServer`, `GentleServed` | two requests, pipes of 2 bytes, with enough of everything, few descriptors, or one child |

The properties a run expects to be violated are quotations: what a comment of the
source says the program does. `MotorsShutOff` also fails when an HTTP thread may end
the process (`MayExit = TRUE`), and `EveryClientAnswered` when a client has no
thread left (`threads = 2` for three clients).

### What the conditions are for

Several properties hold only under a condition. Each condition is a fact about the
code, found by dropping it and reading TLC's counterexample:

- `Covered`, while the process lives and the mutex is not lost: an exit (`httpd.c` 372)
  leaves the motors as they are, with nobody to stop them, and so does a full queue.
- `MotorsStop` and `ErrorsRead`, unless the process ends or the mutex is lost first;
  `ErrorsRead` also unless the request for this very error was written before the port
  was open: the pin then stays high, so that no edge ever asks again.
- `AnswersMatch`, until an answer has been given up (`timedOut`): the late answer to
  a query that was given up clears the query after it, so that a third is sent
  before the second has been answered.
- `UndisturbedObeyed`, unless another thread called `strtok()` in between (`mixed`):
  one of two requests takes the other's verb, or a null pointer, and does the
  opposite of its body or crashes. A crash takes one that was cut in on or has no
  second token.
- `DescriptorsReturned` and `OrderlyAnswered` of `HttpdAccept`, for clients one at a
  time who wait (`Orderly`), except for unknown methods: those leak a descriptor
  each until `accept()` fails and the process ends; a client that hangs up kills it
  through SIGPIPE; two at a time may be served by threads that read each other's
  socket; and a client that gets no thread is never answered.
- `BodyHandedOver`, unless a line fills the buffer to its last byte, be it in several
  pieces (`FillsBuffer`): `get_line()` then leaves its line feed behind, the next line
  is empty, and the rest of the headers is taken for the body. Nor when the lines end
  in carriage returns alone and the body begins with a line feed (`TakesFirstByte`),
  which `get_line()` takes for the rest of the last line end; no request of the run had
  such a body until the proof of the property asked what comes behind the headers.
- `PageKeepsServer`, for the page's own requests of a client that stays, when the
  mode bits nobody read do not make the C code a directory (`path # "inside"`). A POST
  of the page (`FromPage`) has two tokens, announces their length and fits
  `postContent`; without that it may crash the process, and does when a token is
  missing. So it may when a line fills the buffer or the body begins with what ends a
  line, since something else than the body is then taken apart. A GET of the C code,
  any other POST, a script, a file with a query, and a file that cannot be opened
  each may end the process too. What several threads do to each other's tokens is in
  `UndisturbedObeyed`.
- `RequestEnds`, unless the announced length is more than is sent, or the stream
  ends in a carriage return alone, behind which `get_line()` waits, or the first byte
  of the body has been taken for a line end, so that one is missing at the last.
- `RepeatsWhatIsHeld` and `StopsInTime`, unless a key and a button or two buttons
  were held at the same time, or a release was not seen or seen by another button
  (`muddled`): with a button held,
  the same direction's key pressed and released and another key pressed,
  `startMotor()` overwrites the handle of a timeout that runs on, and a START
  repeats for ever. Any number of keys together is fine.
- `HeldIsDriven`, in behaviours in which no other direction is repeated: the bound on
  lost POSTs is what makes "again and again" possible, and the property does not
  say that the vehicle never stops in between, which a lost START makes it do.
- `GentleKeepsServer` and `GentleServed`, for gentle requests: a script that reads to
  the end of its input waits for an end its parent keeps until the output has
  ended; a body longer than both pipes and an echo fill each other; the C child
  reads once, takes what has been written by then (`ContentIsOwn` says no more than
  "a beginning, of a byte at least"), and its end turns the parent's next write
  into SIGPIPE; a client that goes does the same to the next `send()`.
- `DescriptorsReturned` of `ZebraCgi`, except for `Leaked`: sockets of unknown
  methods, and the pipes that were open when the next pipe or the child could not
  be had.
- `ShutoffInTime` and `WaitInTime`, except for jumps of the reading: the shutoff is
  early when the reading jumps within its time, and missed when nobody looks
  before the reading is back at zero; a query sent just before that whose answer
  is lost makes the next command wait for half a clock round.

### Why the bounds are enough

- A ring of 7 holds two frames but not three, so it is full, wraps within a
  frame at every offset, and has both callers turned away; the two commands
  differ in length and flag, and their bytes are small enough to pass for
  lengths, which is what corruption does. The theorems below hold for any ring.
- `Capacity = 3` makes a full queue reachable by the initial queries and the
  stops alone; `Capacity = 8` keeps it from ever being full, so that
  `driver_live` is about the answers and the errors and not about the mutex. One configuration parameter stands for the four, which
  differ in nothing the properties see. The clients' commands are a start in the
  upper half of the speeds whose argument is 0, a start in the lower half for
  the other motor, and a stop.
- `CmdTimeout = 1` and `MotorTimeout = 2` keep the order of the two limits; an
  answer may come before, at and after its time-out.
- `MaxRequests`, `MaxErrors` and `MaxLost` bound how often what the environment
  does freely happens. `driver_safety` has two requests, for a start that comes
  between the two stops of the shutoff, and no errors; `driver_live` has one request
  and one error, to keep each run within minutes; either loses an answer and may exit.
  `ErrorsRead` was also checked with two errors, without exit and losses. The proofs
  have all of it without bound.
- A clock of 16 readings has both jumps within reach of either limit and room for
  an `age` beyond it; `Wide` is four times `Half`, which is all that 64 and 32 bits
  have to do with each other here. The theorems hold for the real widths.
- Three requests are needed for one to be cut in on by two; requests differ only
  by body, so they are symmetric. The two directions are one that drives the
  motors alike and one that drives them against each other, and the third word is what `strcmp()` does not know.
- With two descriptors and three clients, a descriptor is given out again while
  threads may still hold it, and unknown methods use all of them up.
- A line buffer of four bytes is filled by a header of three, and a `postContent` of
  four holds a command of three and its null; bodies fill it and are longer; there are headers that are
  shorter, that fill it and that are longer, all three line ends, lengths below, at
  and above what is sent, before and after the other header, a body that begins with a line
  feed, and every target.
- Four inputs press and release two keys out of order, or overwrite a handle with a
  button and two keys;
  `RepeatPeriod` is half of `MotorTimeout`, as 1000 ms are of two seconds; a POST may
  be overtaken by its successor within `MaxDelay`. A lost POST and two under way let
  a START arrive behind its STOP. The invariants were also checked with five inputs.
  The theorems about page and vehicle hold for any number.
- Pipes of two bytes are filled by a body of three, and both together with the byte
  in hand by an echo of six but not of five; eleven descriptors are enough for two
  requests, six are not.

Deadlock is not checked because each model really may stop: a caller waits
forever for a leaked mutex, a process ends, a server has no more clients.

### Fairness

It says that the scheduler runs every thread and process that can run (they are
ordinary threads of equal priority, and none is ever disabled by another except
through the mutex or a pipe, which are in the guards), that the qik executes what
it is sent, and that time passes. Nothing is assumed of users, clients, errors,
losses, or of an exit; `WF` of `Serial` covers the open of the port, which may
succeed or end the process. In `HttpRequest` the bytes of a client arrive unless it
hangs up, as TCP sees to. In `Telebra` a POST that is not lost is served and a
timeout that is over is handled; `Tick` waits for both the oldest POST (`MaxDelay`)
and the main thread, which looks at the clock thousands of times a tick.
`QikQueue`, `QikClock` and `MotorControl` have safety only.

`MotorsStop` and `ErrorsRead` say that a good thing happens in behaviours in which
the process lives and the mutex is not lost, since both spoil it and both are
shown separately to happen.

## 4. Proofs

`QikQueueProofs` (for every ring size, set of threads and set of commands):

- `TypeCorrect`: `Spec => []TypeOK`.
- `NeverLaps`: `Spec => TailNeverLaps`. The room is measured once, with a `head`
  the consumer keeps moving, and must last for all the bytes stored afterwards.
  The inductive invariant adds to the types that whoever is between lock and
  unlock owns the mutex, that what is used plus what the owner has left to store
  is less than the ring, and that the consumer, as long as it has not run ahead,
  consumes a byte that is there. `PublishUses` and `ConsumeFrees` are the two
  facts of modular arithmetic it takes.
- `LeakIsForever`: `Spec => LeakFreezesQueue`, from mutual exclusion alone.
- `ImplementsFifo`: `Spec => ImplementsCommandFifo`, and `RunsAheadMidFrame`: `Spec =>
  RunsAheadOnlyMidFrame`, both from `FifoInv`. It says where in the ring each byte of
  each frame is: with `off[k]` the bytes before the k-th frame that was accepted and not
  sent yet, the ring holds all of them but those main has taken and those still to be
  laid down (`Filled`), each where its offset puts it (`Content`); the
  byte at `tail` is the one just stored (`StoredInv`); and what main has taken is the
  beginning of the oldest frame (`FrontInv`). `PublishRing` and `ConsumeRing` move
  `tail` and `head` under the offsets, `StoreRing` writes a slot that holds none
  of their bytes.
  It follows that main finds the length byte first, sends the frame that entered first,
  and finds a slot empty in mid-frame only when its owner has not come to it.

`QikDriverProofs` (for all commands the setters can build, every capacity, every
time limit, any number of requests, errors and lost answers):

- `StartsMotorExact`: the `switch` of `sendCommand()` arms the shutoff for exactly
  the commands that make a motor turn, at every speed from 0 to 255.
- `TypeCorrect`: `Spec => []TypeOK`, one lemma for each part of `TypeOK`.
- `AnswersAreMatched`: `Spec => []AnswersMatch`. A query is first pending, then on
  the wire, then answered, then heard, and at any of these places alone: `OneAsked`
  says so, and each way on is a lemma. `sendCommand()` starts with nothing pending,
  or gives up.
- `ShutoffNotEarly`: `Spec => NoEarlyShutoff`. Within `MotorTimeout` of the last start
  of a client, that start is in the queue or in the hand of the main thread
  (`StartComing`), or the shutoff is set at least `MotorTimeout` behind it (`SetLater`).
- `ShutoffCovers`: `Spec => []Covered`, for a process that lives and a mutex that is
  not lost. `Covered` is not inductive. It takes
  `HandArmed` (the shutoff is armed before the command that starts a motor is
  written: the order of the statements of `sendCommand()`) and `ClosedQuiet` (a
  stop that is dropped because the port is not open leaves nothing turning). A
  step of the qik keeps what the line promises (`ExecuteKeepsPromise`), a write
  either promises nothing new (`WriteOfOther`), ends the promise
  (`WriteOfStop`), or starts a motor with the shutoff armed; the two stops of the
  shutoff are followed through queue (`QueueBringsStop`, `QueueKeepsStop`) and
  hand (`DequeueKeepsStop`).

`QikClockProofs` (for all widths, limits below half a round, and steps of time):
`TypeCorrect`, `ShutoffOnTime` and `WaitOnTime`. The invariant ties the reading to
the history: as long as less than half a round has gone by, the reading is the one
at the start plus the time, with at most one jump (`ReadingTold`), and the stored
times are the sums of what was read then (`StampsTold`); both properties follow by
arithmetic.

`HttpdAcceptProofs` (any clients, settings and descriptors):

- `TypeCorrect`: `Spec => []TypeOK`.
- `AnswersAsker`: `Spec => []AnswersWhoAsked`. No two threads have the request of the
  same client (`ReadOnce`), since a read takes it; and as only threads that have read a
  request ever close, a descriptor is not closed under another that has.
- `OrderlyReturned`: `Spec => []DescriptorsReturned`. For orderly clients at most one
  thread is in service, and its client waits (`OneServed`); there have been as many
  threads as clients were accepted, so that no client goes without (`EachHasThread`);
  and an open descriptor belongs to a thread that will close it or to a client whose
  method is unknown (`HeldForSomeone`).

`MotorControlProofs` (any number of requests): `TypeCorrect` and
`UndisturbedIsObeyed`. The invariant says that a request nobody cut in on has its
own tokens and, at each label, has queued exactly the commands of its body so far;
`CommandsObey` is the arithmetic of the speeds. `CrashInv` says that only one whose
place was moved, or whose second token is missing, finds the null pointer.

`HttpRequestProofs` (any requests and buffer):

- `AnswersOnce`. The labels are divided into those before the answer and those behind
  it.
- `TypeCorrect`: `Spec => []TypeOK`; `get_line()` goes on only while there is room for a
  byte and the null. That no body is longer than `postContent` is not a theorem, since
  it is not so: the model stops there.
- `BodyIsHandedOver`: `Spec => []BodyHandedOver`. While lines are read the thread is
  within the text of some line, behind a number of pieces that each filled the buffer
  (`InText`), behind the carriage return of its end (`AtReturn`) or behind its end
  (`AtEnd`), unless the stream has been cut short (`Cut`). Only the empty line, which is
  the last, looks like the end of the headers, so the body is read from its first byte
  (`BodyInv`); where a line filled the buffer, `ReadEol` would fail, and `PeekBehind`
  where a body begins like a line end.
- `PageIsHarmless`: `Spec => []PageKeepsServer`. What was decided from method, path and
  mode is remembered by `goal` until it is done (`DoneAsDecided`, `DecidedForPage`), and
  the process has ended only at labels the page's requests do not reach (`EndedWhere`).
  At the one they share with others, the call of the C code, it is handed the body of
  the request (`BodyIsHandedOver`), in which `strtok()` finds both tokens (`CrashInv`,
  `SameTokens`).

`TelebraProofs` (any directions, inputs, periods, delays and losses):

- `TypeCorrect`: `Spec => []TypeOK`.
- `PageRepeatsHeld`: `Spec => []RepeatsWhatIsHeld`. The one direction that may be
  repeated is that of the button, when no key is held, or of one of the keys
  (`RepeatsOne`).
- `StandsStill`: `Spec => []StopsInTime`. A START under way is no younger than the last
  moment something was held (`StartsAreFresh`), so what it arms strikes within the
  delay and the limit of that moment (`ArmedInTime`), and a motor turns only while the
  shutoff is armed, or has its second stop to queue (`TurningIsCovered`).

`ZebraCgiProofs` (any requests, pipes, descriptors and children): `TypeCorrect`,
`WholePage` (`PageWhole`), `OwnContent` (`ContentIsOwn`), `ReturnsDescriptors`
(`DescriptorsReturned`) and `GentleKeeps` (`GentleKeepsServer`). The invariant follows
one request and is kept by every step of the others, however many of its ends they hold:
the way its thread has come (`Route`), which ends the server and the child hold
(`ServerEnds`, `ChildEnds`), the bytes of the output and of the body between the two
(`OutputFlow`, `InputFlow`), what the C code was called with (`Content`), and that the
child of a gentle request does not leave before it has what will be written
(`StaysForInput`), so that no write raises SIGPIPE.

The proofs assume the `ASSUME` of each module, which TLC evaluates for the
instances above: that the main thread is one of the threads, that a payload fits
`tmpCmd[]` (the longest the program builds is 7 bytes), that clients queue what the
setters build, that both time limits are less than half a round of the clock (2
seconds against 35 minutes), that a request is laid out in lines of which only the last
is empty and whose texts have none of the bytes of a line end, and that clients and
requests are finitely many.

Every invariant, action property and refinement that a passing run checks is stated by
one of these theorems. Only model-checked is liveness, which is out of the provers' reach:
`SpinEnds`, `MotorsStop`, `ErrorsRead`, `OrderlyAnswered`, `RequestEnds`, `HeldIsDriven`
and `GentleServed`.

## 5. Plan

All modules of the plan exist and the safety properties of all runs are proved. What is
left:

1. What the liveness properties rest on and can be said as safety: that without a full
   queue the mutex is free whenever nobody is between lock and unlock, and that in a
   thread of `HttpRequest` that waits for a byte which will come none is left unread.
2. Lemmas that join the components: that what MotorControl queues for a body is what
   Telebra's `Serve` queues for a POST, and that a command of QikCommands is a frame
   QikQueue accepts.

## 6. Not modelled

The terminal attributes of `SerialPort.c` 84-150 are hardware configuration.
`startup()` of both servers runs once before any connection. What an answer of the
qik says, the wording of pages and output and the characters of a path are left out;
a page of several `send()` calls is one step. Names and queries longer than their
buffers, and the memory that they or a body beyond `postContent` overwrite, are not
modelled. The port is opened without blocking and the result of `write()` ignored
(`SerialPort.c` 68 and 172): a short or failed write is not modelled, and a command is
always written whole. Nor are `pthread_create()` and the set-up of the GPIO library
failing in `main()`, which ends the process before any motor was started. ZebraHttpd's `accept()` loop
and its parsing are those of `HttpdAccept` and `HttpRequest`; in `ZebraCgi` a thread
has copied its socket by the next connection and a request arrives whole up to its
body; the descriptor `fopen()` takes is not counted while a file is served. The functions behind `while (1)` loops (`cleanUpSerialPort()`,
`gpioTerminate()`, `close(server_sock)`) are never reached. In `Telebra` commands
reach the motors in the order in which they are queued and at once: what the queue
and the line do to that is in `QikQueue` and `QikDriver`, and a process that ends or
loses the mutex is not part of it.

---------------------------- MODULE ZebraCgiProofs -----------------------------
(***************************************************************************)
(* Theorems about ZebraCgi.tla, for any requests and any size of a pipe,   *)
(* with any number of descriptors and children: the types, and what one    *)
(* request gets while the children of others hold copies of its ends.      *)
(***************************************************************************)
EXTENDS ZebraCgi, FiniteSetTheorems, SequenceTheorems, TLAPS

-----------------------------------------------------------------------------
(***************************************************************************)
(* The types.                                                              *)
(***************************************************************************)

\* The types, with what TypeOK leaves open: a pipe holds bytes.
Labels == {"none", "request", "fclose", "cgi_output", "cgi_input", "fork",
           "cannot_execute", "close_outW", "close_inR", "recv", "write",
           "read", "close_outR", "close_inW", "waitpid", "close", "done"}
ChildLabels == {"none", "C", "dup2", "runs", "writes", "exit", "ended", "reaped"}

Control ==
  /\ kind \in [Requests -> Kinds] /\ limit \in Limits /\ gone \subseteq Requests
  /\ server \in {"runs", "exited", "killed", "crashed"}
  /\ pc \in [Requests -> Labels] /\ childPc \in [Requests -> ChildLabels]
  /\ outcome \in [Requests -> {"fine", "cgi_output", "cgi_input", "fork"}]

Counted ==
  /\ i \in [Requests -> Nat] /\ c \in [Requests -> Nat] /\ received \in [Requests -> Nat]
  /\ taken \in [Requests -> Nat] /\ put \in [Requests -> Nat]
  /\ output \in [Requests -> 0 .. PipeSize]

Carried ==
  /\ input \in [Requests -> Seq(Nat)] /\ \A r \in Requests : Len(input[r]) <= PipeSize
  /\ called \in [Requests -> Seq(Nat \cup {-1})]

Holding == held \in [Processes -> SUBSET Ends] /\ FdsLeft >= 0

TInv == Control /\ Counted /\ Carried /\ Holding

\* What is known of a request.
LEMMA KindType ==
  ASSUME Control, NEW r \in Requests
  PROVE  /\ kind[r] \in Kinds /\ kind[r].method \in {"GET", "POST"}
         /\ kind[r].page \in {"unknown", "missing", "file", "cgi"}
         /\ kind[r].announced \in Nat \cup {-1} /\ kind[r].body \in Nat
         /\ kind[r].program \in Programs /\ kind[r].output \in Nat
         /\ limit.fds \in Nat /\ limit.children \in Nat
<1>1. kind[r] \in Kinds /\ limit \in Limits
  BY DEF Control
<1>2. kind[r] \in [page : {"unknown", "missing", "file", "cgi"}, method : {"GET", "POST"},
                   announced : Nat \cup {-1}, body : Nat, program : Programs, output : Nat]
  BY <1>1, CgiAssumption
<1>3. limit \in [fds : Nat, children : Nat, patient : BOOLEAN]
  BY <1>1, CgiAssumption
<1> QED
  BY <1>1, <1>2, <1>3

\* The ends are as many as five for each request.
LEMMA EndsFinite ==
  /\ IsFiniteSet(Ends) /\ Cardinality(Ends) = 5 * Cardinality(Requests)
  /\ Cardinality(Requests) \in Nat
<1> DEFINE N == {"client", "outR", "outW", "inR", "inW"}
<1>1. IsFiniteSet({"client"}) /\ Cardinality({"client"}) = 1
  BY FS_Singleton
<1>2. IsFiniteSet({"client", "outR"}) /\ Cardinality({"client", "outR"}) = 2
  <2>1. {"client"} \cup {"outR"} = {"client", "outR"}
    OBVIOUS
  <2>2. "outR" \notin {"client"}
    OBVIOUS
  <2> QED
    BY ONLY <1>1, <2>1, <2>2, FS_AddElement
<1>3. IsFiniteSet({"client", "outR", "outW"}) /\ Cardinality({"client", "outR", "outW"}) = 3
  <2>1. {"client", "outR"} \cup {"outW"} = {"client", "outR", "outW"}
    OBVIOUS
  <2>2. "outW" \notin {"client", "outR"}
    OBVIOUS
  <2> QED
    BY ONLY <1>2, <2>1, <2>2, FS_AddElement
<1>4. IsFiniteSet({"client", "outR", "outW", "inR"})
      /\ Cardinality({"client", "outR", "outW", "inR"}) = 4
  <2>1. {"client", "outR", "outW"} \cup {"inR"} = {"client", "outR", "outW", "inR"}
    OBVIOUS
  <2>2. "inR" \notin {"client", "outR", "outW"}
    OBVIOUS
  <2> QED
    BY ONLY <1>3, <2>1, <2>2, FS_AddElement
<1>5. IsFiniteSet(N) /\ Cardinality(N) = 5
  <2>1. {"client", "outR", "outW", "inR"} \cup {"inW"} = N
    OBVIOUS
  <2>2. "inW" \notin {"client", "outR", "outW", "inR"}
    OBVIOUS
  <2> QED
    BY ONLY <1>4, <2>1, <2>2, FS_AddElement
<1>6. IsFiniteSet(Requests) /\ Cardinality(Requests) \in Nat
  BY CgiAssumption, FS_CardinalityType
<1>7. Ends = Requests \X N
  BY DEF Ends
<1> HIDE DEF N
<1>8. IsFiniteSet(Requests \X N) /\ Cardinality(Requests \X N) = Cardinality(Requests) * 5
  BY <1>5, <1>6, FS_Product
<1> QED
  BY <1>6, <1>7, <1>8

\* A pair of ends takes two descriptors at most.
LEMMA PairSize ==
  ASSUME NEW S \in SUBSET Ends, NEW a \in Ends, NEW b \in Ends
  PROVE  /\ Cardinality(S \cup {a, b}) <= Cardinality(S) + 2 /\ Cardinality(S) \in Nat
         /\ Cardinality(S \cup {a, b}) \in Nat
<1>1. IsFiniteSet(S)
  BY EndsFinite, FS_Subset
<1>2. IsFiniteSet(S \cup {a}) /\ Cardinality(S \cup {a}) <= Cardinality(S) + 1
      /\ Cardinality(S) \in Nat /\ Cardinality(S \cup {a}) \in Nat
  <2>1. Cardinality(S) \in Nat
    BY <1>1, FS_CardinalityType
  <2>2. IsFiniteSet(S \cup {a})
        /\ Cardinality(S \cup {a}) = IF a \in S THEN Cardinality(S) ELSE Cardinality(S) + 1
    BY <1>1, FS_AddElement
  <2> QED
    BY <2>1, <2>2
<1>3. (S \cup {a}) \cup {b} = S \cup {a, b}
  OBVIOUS
<1>4. IsFiniteSet(S \cup {a, b}) /\ Cardinality(S \cup {a, b}) <= Cardinality(S \cup {a}) + 1
  BY <1>2, <1>3, FS_AddElement
<1> QED
  BY <1>2, <1>4, FS_CardinalityType

\* What the server has less of takes no more descriptors.
LEMMA Fewer ==
  ASSUME NEW S \in SUBSET Ends, NEW T \in SUBSET S
  PROVE  Cardinality(T) <= Cardinality(S) /\ Cardinality(S) \in Nat /\ Cardinality(T) \in Nat
<1>1. IsFiniteSet(S)
  BY EndsFinite, FS_Subset
<1>2. IsFiniteSet(T) /\ Cardinality(T) <= Cardinality(S)
  BY <1>1, FS_Subset
<1> QED
  BY <1>1, <1>2, FS_CardinalityType

\* What accepting, pipe() and the closing of ends do to the descriptors.
LEMMA RoomStays ==
  ASSUME TInv, Next
  PROVE  Holding'
<1>1. held' \in [Processes -> SUBSET Ends]
  BY CgiAssumption
  DEF TInv, Holding, Next, Thread, Child, AcceptFails, HangUp, Accept, ErrorPage, ServeFile,
      CloseNull, Close, SendOk, Pipe, PipeOutput, PipeInput, Fork, CannotExecute, CloseEnds,
      CloseEnd, Recv, BodyDone, Write, Read, ReadEnd, Waitpid, ReadContent, NoContent, Execl,
      Take, TakeEnd, Put, Exit, Opened, Closed, Die, Send, pipeVars, Processes, Ends
<1>2. limit' = limit /\ limit.fds \in Nat
  <2>1. limit' = limit
    BY DEF Next, Thread, Child, AcceptFails, HangUp, Accept, ErrorPage, ServeFile,
      CloseNull, Close, SendOk, Pipe, PipeOutput, PipeInput, Fork, CannotExecute, CloseEnds,
      CloseEnd, Recv, BodyDone, Write, Read, ReadEnd, Waitpid, ReadContent, NoContent, Execl,
      Take, TakeEnd, Put, Exit, clientVars
  <2> QED
    BY <2>1, CgiAssumption DEF TInv, Control
<1>3. FdsLeft' = limit.fds - Cardinality(held'[Server])
  BY <1>2 DEF FdsLeft
<1>4. held[Server] \in SUBSET Ends /\ held'[Server] \in SUBSET Ends
  BY <1>1 DEF TInv, Holding, Processes
<1>5. Cardinality(held[Server]) <= limit.fds
  BY <1>2, <1>4, Fewer DEF TInv, Holding, FdsLeft
<1>6. CASE held'[Server] \subseteq held[Server]
  <2>1. /\ Cardinality(held'[Server]) <= Cardinality(held[Server])
        /\ Cardinality(held[Server]) \in Nat /\ Cardinality(held'[Server]) \in Nat
    BY <1>4, <1>6, Fewer
  <2>2. FdsLeft' >= 0
    BY <1>2, <1>3, <1>5, <2>1
  <2> QED
    BY <1>1, <2>2 DEF Holding
<1>7. ASSUME NEW r \in Requests, Accept(r)
      PROVE  Holding'
  <2>1. held'[Server] = held[Server] \cup {<<r, "client">>, <<r, "client">>}
    BY <1>7, CgiAssumption DEF TInv, Holding, Accept, Opened, Processes
  <2>2. FdsLeft > 0
    BY <1>7 DEF Accept
  <2>3. Cardinality(held'[Server]) <= Cardinality(held[Server]) + 1
    <3>1. IsFiniteSet(held[Server])
      BY <1>4, EndsFinite, FS_Subset
    <3>2. held'[Server] = held[Server] \cup {<<r, "client">>}
      BY <2>1
    <3>3. Cardinality(held[Server]) \in Nat
      BY <3>1, FS_CardinalityType
    <3>4. Cardinality(held'[Server]) = IF <<r, "client">> \in held[Server]
                                         THEN Cardinality(held[Server])
                                         ELSE Cardinality(held[Server]) + 1
      BY <3>1, <3>2, FS_AddElement
    <3> QED
      BY <3>3, <3>4
  <2>4. Cardinality(held'[Server]) \in Nat /\ Cardinality(held[Server]) \in Nat
    BY <1>4, Fewer
  <2> QED
    BY <1>1, <1>2, <1>3, <2>2, <2>3, <2>4 DEF Holding, FdsLeft
<1>8. ASSUME NEW r \in Requests, NEW a \in Ends, NEW b \in Ends,
             FdsLeft >= 2, held'[Server] = held[Server] \cup {a, b}
      PROVE  Holding'
  <2>1. Cardinality(held'[Server]) <= Cardinality(held[Server]) + 2
        /\ Cardinality(held[Server]) \in Nat /\ Cardinality(held'[Server]) \in Nat
    BY <1>4, <1>8, PairSize
  <2> QED
    BY <1>1, <1>2, <1>3, <1>8, <2>1 DEF Holding, FdsLeft
<1>9. ASSUME NEW r \in Requests, PipeOutput(r) \/ PipeInput(r)
      PROVE  Holding'
  <2>1. CASE FdsLeft >= 2
    <3>1. CASE PipeOutput(r)
      <4>1. held'[Server] = held[Server] \cup {<<r, e>> : e \in {"outR", "outW"}}
        BY <3>1, <2>1 DEF TInv, Holding, PipeOutput, Pipe, Opened, Processes
      <4>2. {<<r, e>> : e \in {"outR", "outW"}} = {<<r, "outR">>, <<r, "outW">>}
        OBVIOUS
      <4>3. <<r, "outR">> \in Ends /\ <<r, "outW">> \in Ends
        BY DEF Ends
      <4> QED
        BY <2>1, <4>1, <4>2, <4>3, <1>8
    <3>2. CASE PipeInput(r)
      <4>1. held'[Server] = held[Server] \cup {<<r, e>> : e \in {"inR", "inW"}}
        BY <3>2, <2>1 DEF TInv, Holding, PipeInput, Pipe, Opened, Processes
      <4>2. {<<r, e>> : e \in {"inR", "inW"}} = {<<r, "inR">>, <<r, "inW">>}
        OBVIOUS
      <4>3. <<r, "inR">> \in Ends /\ <<r, "inW">> \in Ends
        BY DEF Ends
      <4> QED
        BY <2>1, <4>1, <4>2, <4>3, <1>8
    <3> QED
      BY <1>9, <3>1, <3>2
  <2>2. CASE ~(FdsLeft >= 2)
    <3>1. held' = held
      BY <1>9, <2>2 DEF PipeOutput, PipeInput, Pipe
    <3> QED
      BY <3>1, <1>6
  <2> QED
    BY <2>1, <2>2
<1>10. ASSUME NEW r \in Requests, Thread(r)
       PROVE  Accept(r) \/ PipeOutput(r) \/ PipeInput(r) \/ held'[Server] \subseteq held[Server]
  BY <1>10, CgiAssumption
  DEF TInv, Holding, Thread, ErrorPage, ServeFile, CloseNull, Close, SendOk, Fork,
      CannotExecute, CloseEnds, CloseEnd, Recv, BodyDone, Write, Read, ReadEnd, Waitpid,
      Opened, Closed, Die, Send, pipeVars, Processes
<1>11. ASSUME NEW r \in Requests, Child(r) \/ HangUp(r)
       PROVE  held'[Server] \subseteq held[Server]
  BY <1>11, CgiAssumption
  DEF TInv, Holding, Child, HangUp, ReadContent, NoContent, Execl, Take, TakeEnd, Put, Exit,
      Closed, pipeVars, Processes
<1>12. AcceptFails => held'[Server] \subseteq held[Server]
  BY DEF TInv, Holding, AcceptFails, Die, Processes
<1> QED
  BY <1>6, <1>7, <1>9, <1>10, <1>11, <1>12 DEF Next

\* What a step of a thread may change.
LEMMA ThreadShape ==
  ASSUME NEW r \in Requests, Thread(r)
  PROVE  /\ UNCHANGED <<kind, limit, gone, taken, put, called>>
         /\ pc' = pc \/ \E l \in Labels : pc' = [pc EXCEPT ![r] = l]
         /\ childPc' = childPc \/ \E l \in {"C", "dup2", "reaped"} : childPc' = [childPc EXCEPT ![r] = l]
         /\ outcome' = outcome \/ \E l \in {"cgi_output", "cgi_input", "fork"} :
                                    outcome' = [outcome EXCEPT ![r] = l]
         /\ i' = i \/ i' = [i EXCEPT ![r] = @ + 1]
         /\ c' = c \/ c' = [c EXCEPT ![r] = i'[r]]
         /\ received' = received \/ received' = [received EXCEPT ![r] = @ + 1]
         /\ output' = output \/ (output[r] > 0 /\ output' = [output EXCEPT ![r] = @ - 1])
         /\ input' = input \/ (Len(input[r]) < PipeSize /\ input' = [input EXCEPT ![r] = Append(@, c[r])])
<1> DEFINE Kept == UNCHANGED <<kind, limit, gone, taken, put, called>>
           PcMoves == pc' = pc \/ \E l \in Labels : pc' = [pc EXCEPT ![r] = l]
<1>1. CASE \/ Accept(r) \/ ErrorPage(r) \/ ServeFile(r) \/ CloseNull(r) \/ Close(r)
           \/ SendOk(r) \/ CannotExecute(r) \/ CloseEnds(r) \/ BodyDone(r) \/ ReadEnd(r)
  <2>1. UNCHANGED <<clientVars, input, output, localVars, childVars>>
    BY <1>1 DEF Accept, ErrorPage, ServeFile, CloseNull, Close, SendOk, CannotExecute,
                CloseEnds, CloseEnd, BodyDone, ReadEnd, pipeVars
  <2>2. PcMoves
    BY <1>1 DEF Accept, ErrorPage, ServeFile, CloseNull, Close, SendOk, CannotExecute,
                CloseEnds, CloseEnd, BodyDone, ReadEnd, Goto, Labels
  <2> QED
    BY <2>1, <2>2 DEF clientVars, localVars, childVars
<1>2. CASE PipeOutput(r) \/ PipeInput(r) \/ Fork(r)
  <2>1. UNCHANGED <<clientVars, input, output, i, c, received, taken, put, called>>
    BY <1>2 DEF PipeOutput, PipeInput, Pipe, Fork, childVars
  <2>2. PcMoves
    BY <1>2 DEF PipeOutput, PipeInput, Pipe, Fork, Goto, Labels
  <2>3. childPc' = childPc \/ \E l \in {"C", "dup2", "reaped"} : childPc' = [childPc EXCEPT ![r] = l]
    BY <1>2 DEF PipeOutput, PipeInput, Pipe, Fork, ChildGoto, childVars
  <2>4. outcome' = outcome \/ \E l \in {"cgi_output", "cgi_input", "fork"} :
                                outcome' = [outcome EXCEPT ![r] = l]
    BY <1>2 DEF PipeOutput, PipeInput, Pipe, Fork
  <2> QED
    BY <2>1, <2>2, <2>3, <2>4 DEF clientVars
<1>3. CASE Recv(r)
  BY <1>3 DEF Recv, Goto, Labels, clientVars, pipeVars, childVars
<1>4. CASE Write(r)
  BY <1>4 DEF Write, Goto, Labels, clientVars, localVars, childVars
<1>5. CASE Read(r)
  BY <1>5 DEF Read, clientVars, childVars
<1>6. CASE Waitpid(r)
  BY <1>6 DEF Waitpid, Goto, ChildGoto, Labels, clientVars, pipeVars, localVars
<1> QED
  BY <1>1, <1>2, <1>3, <1>4, <1>5, <1>6 DEF Thread

\* What a step of a child may change.
LEMMA ChildShape ==
  ASSUME NEW r \in Requests, Child(r)
  PROVE  /\ UNCHANGED <<kind, limit, gone, server, pc, i, c, received, outcome>>
         /\ childPc' = childPc \/ \E l \in {"runs", "writes", "exit", "ended"} :
                                    childPc' = [childPc EXCEPT ![r] = l]
         /\ taken' = taken \/ taken' = [taken EXCEPT ![r] = @ + 1]
         /\ put' = put \/ put' = [put EXCEPT ![r] = @ + 1]
         /\ output' = output \/ (output[r] < PipeSize /\ output' = [output EXCEPT ![r] = @ + 1])
         /\ \/ input' = input
            \/ input[r] # << >> /\ input' = [input EXCEPT ![r] = Tail(@)]
            \/ input' = [input EXCEPT ![r] = SubSeq(@, Len(Announced(r)) + 1, Len(@))]
         /\ called' = called \/ called' = [called EXCEPT ![r] = Announced(r)]
                             \/ called' = [called EXCEPT ![r] = <<Garbage>>]
<1>1. CASE ReadContent(r)
  BY <1>1 DEF ReadContent, ChildGoto, clientVars, localVars
<1>2. CASE NoContent(r)
  BY <1>2 DEF NoContent, ChildGoto, clientVars, pipeVars, localVars
<1>3. CASE Execl(r) \/ Exit(r)
  BY <1>3 DEF Execl, Exit, ChildGoto, clientVars, localVars
<1>4. CASE Take(r)
  BY <1>4 DEF Take, clientVars, localVars
<1>5. CASE TakeEnd(r)
  BY <1>5 DEF TakeEnd, ChildGoto, clientVars, pipeVars, localVars
<1>6. CASE Put(r)
  BY <1>6 DEF Put, ChildGoto, clientVars, localVars
<1> QED
  BY <1>1, <1>2, <1>3, <1>4, <1>5, <1>6 DEF Child

\* What the others may change.
LEMMA OtherShape ==
  ASSUME AcceptFails \/ \E r \in Requests : HangUp(r)
  PROVE  /\ UNCHANGED <<kind, limit, input, output, pc, localVars, childVars>>
         /\ gone' = gone \/ \E r \in Requests : gone' = gone \cup {r}
BY DEF AcceptFails, HangUp, clientVars, pipeVars
\* What a read() of the announced length yields is in the pipe, and what it
\* leaves is a rest of it.
LEMMA AnnouncedIsFront ==
  ASSUME Control, Carried, NEW r \in Requests, kind[r].announced >= 0
  PROVE  LET n == Len(Announced(r)) IN
         /\ n \in Nat /\ n <= Len(input[r]) /\ n <= kind[r].announced
         /\ n = Len(input[r]) \/ n = kind[r].announced
         /\ Announced(r) \in Seq(Nat)
         /\ \A m \in 1 .. n : Announced(r)[m] = input[r][m]
         /\ SubSeq(input[r], n + 1, Len(input[r])) \in Seq(Nat)
         /\ Len(SubSeq(input[r], n + 1, Len(input[r]))) = Len(input[r]) - n
<1> DEFINE s == input[r]
           n == IF Len(s) < kind[r].announced THEN Len(s) ELSE kind[r].announced
<1>1. s \in Seq(Nat) /\ Len(s) \in Nat
  BY DEF Carried
<1>2. kind[r].announced \in Nat
  BY KindType
<1>3. n \in Nat /\ n <= Len(s) /\ n <= kind[r].announced
      /\ (n = Len(s) \/ n = kind[r].announced)
  BY <1>1, <1>2
<1>4. Announced(r) = SubSeq(s, 1, n)
  BY DEF Announced
<1> HIDE DEF s, n
<1>5. /\ SubSeq(s, 1, n) \in Seq(Nat) /\ Len(SubSeq(s, 1, n)) = n
      /\ \A m \in 1 .. n : SubSeq(s, 1, n)[m] = s[m]
  <2>1. \A m \in 1 .. n : s[m] \in Nat
    BY <1>1, <1>3, ElementOfSeq
  <2> QED
    BY <1>1, <1>3, <2>1, SubSeqProperties
<1>6. SubSeq(s, n + 1, Len(s)) \in Seq(Nat) /\ Len(SubSeq(s, n + 1, Len(s))) = Len(s) - n
  <2>1. \A m \in n + 1 .. Len(s) : s[m] \in Nat
    BY <1>1, <1>3, ElementOfSeq
  <2> QED
    BY <1>1, <1>3, <2>1, SubSeqProperties
<1> QED
  BY <1>1, <1>3, <1>4, <1>5, <1>6 DEF s

\* Counting keeps a function from requests to numbers one.
LEMMA CountUp ==
  ASSUME NEW f \in [Requests -> Nat], NEW r \in Requests
  PROVE  [f EXCEPT ![r] = @ + 1] \in [Requests -> Nat]
<1>1. f[r] + 1 \in Nat
  OBVIOUS
<1> QED
  BY <1>1

LEMMA PipeCount ==
  ASSUME NEW f \in [Requests -> 0 .. PipeSize], NEW r \in Requests
  PROVE  /\ f[r] > 0 => [f EXCEPT ![r] = @ - 1] \in [Requests -> 0 .. PipeSize]
         /\ f[r] < PipeSize => [f EXCEPT ![r] = @ + 1] \in [Requests -> 0 .. PipeSize]
<1>1. f[r] > 0 => f[r] - 1 \in 0 .. PipeSize
  BY CgiAssumption
<1>2. f[r] < PipeSize => f[r] + 1 \in 0 .. PipeSize
  BY CgiAssumption
<1> QED
  BY <1>1, <1>2

\* A request whose child reads its body announces one.
CgiAnnounced ==
  \A r \in Requests : childPc[r] # "none" => ~(IsPost(r) /\ kind[r].announced = -1)

\* The types are kept.
LEMMA TypeStep ==
  ASSUME TInv, CgiAnnounced, Next
  PROVE  TInv'
<1>1. Holding'
  BY RoomStays
<1>2. CASE AcceptFails \/ \E r \in Requests : HangUp(r)
  <2>1. UNCHANGED <<kind, limit, input, output, pc, localVars, childVars>>
    BY <1>2, OtherShape
  <2>2. gone' \subseteq Requests
    BY <1>2, OtherShape DEF TInv, Control
  <2>3. server' \in {"runs", "exited", "killed", "crashed"}
    BY <1>2 DEF AcceptFails, HangUp, Die, TInv, Control
  <2>4. Control'
    BY <2>1, <2>2, <2>3 DEF TInv, Control, localVars, childVars
  <2>5. Counted'
    BY <2>1 DEF TInv, Counted, localVars, childVars
  <2>6. Carried'
    BY <2>1 DEF TInv, Carried, childVars
  <2> QED
    BY <1>1, <2>4, <2>5, <2>6 DEF TInv
<1>3. ASSUME NEW r \in Requests, Thread(r)
      PROVE  TInv'
  <2>1. UNCHANGED <<kind, limit, gone, taken, put, called>>
    BY <1>3, ThreadShape
  <2>2. server' \in {"runs", "exited", "killed", "crashed"}
    BY <1>3 DEF TInv, Control, Thread, Accept, ErrorPage, ServeFile,
      CloseNull, Close, SendOk, Pipe, PipeOutput, PipeInput, Fork, CannotExecute, CloseEnds,
      CloseEnd, Recv, BodyDone, Write, Read, ReadEnd, Waitpid, Die, Send
  <2>3. pc' \in [Requests -> Labels] /\ childPc' \in [Requests -> ChildLabels]
    BY <1>3, ThreadShape DEF TInv, Control, ChildLabels
  <2>4. outcome' \in [Requests -> {"fine", "cgi_output", "cgi_input", "fork"}]
    BY <1>3, ThreadShape DEF TInv, Control
  <2>5. Control'
    BY <2>1, <2>2, <2>3, <2>4 DEF TInv, Control
  <2>6. i' \in [Requests -> Nat] /\ received' \in [Requests -> Nat]
    <3>1. i \in [Requests -> Nat] /\ received \in [Requests -> Nat]
      BY DEF TInv, Counted
    <3>2. /\ i' = i \/ i' = [i EXCEPT ![r] = @ + 1]
          /\ received' = received \/ received' = [received EXCEPT ![r] = @ + 1]
      BY <1>3, ThreadShape
    <3> QED
      BY <3>1, <3>2, CountUp
  <2>7. c' \in [Requests -> Nat]
    <3>1. c \in [Requests -> Nat] /\ i'[r] \in Nat
      BY <2>6 DEF TInv, Counted
    <3>2. c' = c \/ c' = [c EXCEPT ![r] = i'[r]]
      BY <1>3, ThreadShape
    <3> QED
      BY ONLY <3>1, <3>2
  <2>8. output' \in [Requests -> 0 .. PipeSize]
    <3>1. output \in [Requests -> 0 .. PipeSize]
      BY DEF TInv, Counted
    <3>2. output' = output \/ (output[r] > 0 /\ output' = [output EXCEPT ![r] = @ - 1])
      BY <1>3, ThreadShape
    <3> QED
      BY <3>1, <3>2, PipeCount
  <2>9. Counted'
    BY <2>1, <2>6, <2>7, <2>8 DEF TInv, Counted
  <2>10. Carried'
    <3>1. CASE input' = input
      BY <2>1, <3>1 DEF TInv, Carried
    <3>2. CASE Len(input[r]) < PipeSize /\ input' = [input EXCEPT ![r] = Append(@, c[r])]
      <4>1. input[r] \in Seq(Nat) /\ c[r] \in Nat
        BY DEF TInv, Carried, Counted
      <4>2. Append(input[r], c[r]) \in Seq(Nat) /\ Len(Append(input[r], c[r])) = Len(input[r]) + 1
        BY <4>1
      <4>3. input' \in [Requests -> Seq(Nat)]
        BY <3>2, <4>2 DEF TInv, Carried
      <4>4. Len(input'[r]) <= PipeSize
        BY <3>2, <4>1, <4>2, CgiAssumption DEF TInv, Carried
      <4>5. \A q \in Requests : Len(input'[q]) <= PipeSize
        BY <3>2, <4>4 DEF TInv, Carried
      <4> QED
        BY <2>1, <4>3, <4>5 DEF TInv, Carried
    <3> QED
      BY <1>3, <3>1, <3>2, ThreadShape
  <2> QED
    BY <1>1, <2>5, <2>9, <2>10 DEF TInv
<1>4. ASSUME NEW r \in Requests, Child(r)
      PROVE  TInv'
  <2>1. UNCHANGED <<kind, limit, gone, server, pc, i, c, received, outcome>>
    BY <1>4, ChildShape
  <2>2. childPc' \in [Requests -> ChildLabels]
    BY <1>4, ChildShape DEF TInv, Control, ChildLabels
  <2>3. Control'
    BY <2>1, <2>2 DEF TInv, Control
  <2>4. taken' \in [Requests -> Nat] /\ put' \in [Requests -> Nat]
    <3>1. taken \in [Requests -> Nat] /\ put \in [Requests -> Nat]
      BY DEF TInv, Counted
    <3>2. /\ taken' = taken \/ taken' = [taken EXCEPT ![r] = @ + 1]
          /\ put' = put \/ put' = [put EXCEPT ![r] = @ + 1]
      BY <1>4, ChildShape
    <3> QED
      BY <3>1, <3>2, CountUp
  <2>5. output' \in [Requests -> 0 .. PipeSize]
    <3>1. output \in [Requests -> 0 .. PipeSize]
      BY DEF TInv, Counted
    <3>2. output' = output \/ (output[r] < PipeSize /\ output' = [output EXCEPT ![r] = @ + 1])
      BY <1>4, ChildShape
    <3> QED
      BY <3>1, <3>2, PipeCount
  <2>6. Counted'
    BY <2>1, <2>4, <2>5 DEF TInv, Counted
  <2>7. Carried'
    <3>1. input[r] \in Seq(Nat) /\ Len(input[r]) \in Nat /\ PipeSize \in Nat
          /\ Len(input[r]) <= PipeSize
      BY CgiAssumption DEF TInv, Carried
    <3>2. CASE ReadContent(r)
      <4>1. kind[r].announced >= 0
        BY <3>2, KindType DEF CgiAnnounced, ReadContent, TInv
      <4> DEFINE rest == SubSeq(input[r], Len(Announced(r)) + 1, Len(input[r]))
      <4>2. rest \in Seq(Nat) /\ Len(rest) <= Len(input[r]) /\ Len(rest) \in Nat
            /\ Announced(r) \in Seq(Nat)
        BY <3>1, <4>1, AnnouncedIsFront DEF TInv
      <4>3. input' = [input EXCEPT ![r] = rest] /\ called' = [called EXCEPT ![r] = Announced(r)]
        BY <3>2 DEF ReadContent, TInv, Carried
      <4> HIDE DEF rest
      <4>4. Announced(r) \in Seq(Nat \cup {-1})
        BY <4>2
      <4>5. called' \in [Requests -> Seq(Nat \cup {-1})]
        BY <4>3, <4>4 DEF TInv, Carried
      <4>6. Len(rest) <= PipeSize
        BY <3>1, <4>2
      <4> QED
        BY <4>2, <4>3, <4>5, <4>6 DEF TInv, Carried
    <3>3. CASE NoContent(r)
      <4>1. <<Garbage>> \in Seq(Nat \cup {-1})
        BY DEF Garbage
      <4> QED
        BY <3>3, <4>1 DEF NoContent, pipeVars, TInv, Carried
    <3>4. CASE Take(r)
      <4>1. input[r] # << >> /\ input' = [input EXCEPT ![r] = Tail(@)] /\ called' = called
        BY <3>4 DEF Take
      <4>2. Tail(input[r]) \in Seq(Nat) /\ Len(Tail(input[r])) <= PipeSize
        BY <3>1, <4>1
      <4> QED
        BY <4>1, <4>2 DEF TInv, Carried
    <3>5. CASE Execl(r) \/ TakeEnd(r) \/ Put(r) \/ Exit(r)
      <4>1. UNCHANGED <<input, called>>
        BY <3>5 DEF Execl, TakeEnd, Put, Exit, pipeVars
      <4> QED
        BY <4>1 DEF TInv, Carried
    <3> QED
      BY <1>4, <3>2, <3>3, <3>4, <3>5 DEF Child
  <2> QED
    BY <1>1, <2>3, <2>6, <2>7 DEF TInv
<1> QED
  BY <1>2, <1>3, <1>4 DEF Next
-----------------------------------------------------------------------------
(***************************************************************************)
(* What holds for each request, whatever the others do.                    *)
(***************************************************************************)


\* The server holds an end of the request.
Has(r, end) == <<r, end>> \in held[Server]

\* Where execute_cgi() has made both pipes, and where it has forked a child.
Piped == {"fork", "close_outW", "close_inR", "recv", "write", "read", "close_outR", "close_inW"}
Cgi == Piped \cup {"cgi_output", "cgi_input", "cannot_execute", "waitpid"}
WithChild == Cgi \ {"cgi_output", "cgi_input", "cannot_execute", "fork"}
Over == {"close_outR", "close_inW", "waitpid", "close", "done"}

\* The child is there.
Alive == {"C", "dup2", "runs", "writes", "exit"}

\* How a request gets to where it is.
Route(r) ==
  /\ pc[r] \in Cgi => kind[r].page = "cgi" /\ ~(IsPost(r) /\ kind[r].announced = -1)
  /\ kind[r].page = "unknown" => pc[r] \in {"none", "request", "done"}
  /\ outcome[r] # "fine" => kind[r].page = "cgi" /\ pc[r] \in {"cannot_execute", "close", "done"}
  /\ childPc[r] # "none" =>
       /\ outcome[r] = "fine" /\ pc[r] \in WithChild \cup {"close", "done"}
       /\ kind[r].page = "cgi" /\ ~(IsPost(r) /\ kind[r].announced = -1)
  /\ pc[r] \in WithChild => childPc[r] # "none"

\* Which ends the server holds.
ServerEnds(r) ==
  server = "runs" =>
    /\ Has(r, "client") <=> \/ pc[r] \notin {"none", "done"}
                            \/ pc[r] = "done" /\ kind[r].page = "unknown"
    /\ Has(r, "outR") <=> pc[r] \in (Piped \ {"close_inW"}) \cup {"cgi_input"}
                          \/ outcome[r] \in {"cgi_input", "fork"}
    /\ Has(r, "outW") <=> pc[r] \in {"cgi_input", "fork", "close_outW"}
                          \/ outcome[r] \in {"cgi_input", "fork"}
    /\ Has(r, "inR") <=> pc[r] \in {"fork", "close_outW", "close_inR"} \/ outcome[r] = "fork"
    /\ Has(r, "inW") <=> pc[r] \in Piped \/ outcome[r] = "fork"

\* What the child is, and which ends it holds as long as it lives.
ChildEnds(r) ==
  /\ childPc[r] \in Alive => <<r, "outW">> \in held[r] /\ <<r, "inR">> \in held[r]
  /\ childPc[r] = "C" => kind[r].program = "C"
  /\ childPc[r] = "dup2" => kind[r].program # "C"
  /\ childPc[r] \in {"runs", "writes"} => kind[r].program \notin {"C", "none"}
  /\ childPc[r] \in {"none", "C", "dup2"} => taken[r] = 0 /\ put[r] = 0

\* The output of the child is in the pipe or on its way to the client; a child
\* that is through has written all of it, and the server has read all of it
\* before it goes on.
OutputFlow(r) ==
  /\ put[r] = received[r] + output[r]
  /\ server = "runs" =>
       /\ childPc[r] \in {"exit", "ended", "reaped"} => put[r] = Output(r)
       /\ childPc[r] # "none" /\ pc[r] \in Over =>
            childPc[r] \in {"ended", "reaped"} /\ output[r] = 0

\* The n-th byte that is written to the pipe of the input.
BodyByte(r, n) == IF n <= kind[r].body THEN n ELSE kind[r].body

Written(r) == IF pc[r] = "write" THEN i[r] - 1 ELSE i[r]

\* The bytes of the body that have been read are in the pipe or with the child.
InputFlow(r) ==
  /\ c[r] = BodyByte(r, i[r])
  /\ i[r] > kind[r].body => r \in gone
  /\ i[r] > 0 => i[r] <= kind[r].announced
  /\ pc[r] = "write" => i[r] > 0
  /\ kind[r].program # "C" \/ childPc[r] \in {"none", "C"} => taken[r] + Len(input[r]) = Written(r)
  /\ childPc[r] \in {"none", "C"} =>
       \A n \in 1 .. Len(input[r]) : input[r][n] = BodyByte(r, n)

\* What the C code was called with.
Content(r) ==
  /\ called[r] # NotCalled => childPc[r] \in {"exit", "ended", "reaped"}
  /\ IsPost(r) /\ called[r] # NotCalled =>
       /\ Len(called[r]) \in (IF kind[r].announced = 0 THEN {0} ELSE 1 .. kind[r].announced)
       /\ \A n \in 1 .. Len(called[r]) : called[r][n] = BodyByte(r, n)
       /\ Len(called[r]) > kind[r].body => r \in gone

\* A child that counts, or reads one byte, does not leave before it has what the
\* server writes.
StaysForInput(r) ==
  server = "runs" /\ pc[r] \in {"close_outW", "close_inR", "recv", "write"} =>
    /\ kind[r].program \in {"counts", "echoes"} /\ childPc[r] \notin {"dup2", "runs"} =>
         taken[r] >= kind[r].announced
    /\ kind[r].program = "C" /\ kind[r].announced = 1 /\ childPc[r] # "C" =>
         i[r] = 1 /\ pc[r] # "write"

RequestInv(r) ==
  /\ Route(r) /\ ServerEnds(r) /\ ChildEnds(r) /\ OutputFlow(r) /\ InputFlow(r) /\ Content(r)
  /\ StaysForInput(r)

ReqInv == \A r \in Requests : RequestInv(r)

\* Nothing of the request changes; others may take or give back ends, hang up,
\* or end the server.
Same(q) ==
  /\ kind' = kind /\ gone \subseteq gone'
  /\ held'[q] = held[q] /\ input'[q] = input[q] /\ output'[q] = output[q]
  /\ pc'[q] = pc[q] /\ i'[q] = i[q] /\ c'[q] = c[q] /\ received'[q] = received[q]
  /\ outcome'[q] = outcome[q] /\ childPc'[q] = childPc[q] /\ taken'[q] = taken[q]
  /\ put'[q] = put[q] /\ called'[q] = called[q]
  /\ server' = "runs" =>
       /\ server = "runs"
       /\ \A e \in {"client", "outR", "outW", "inR", "inW"} : Has(q, e)' <=> Has(q, e)

LEMMA Frame ==
  ASSUME NEW q \in Requests, RequestInv(q), Same(q)
  PROVE  RequestInv(q)'
<1>1. Route(q)'
  BY DEF RequestInv, Same, Route, IsPost
<1>2. ServerEnds(q)'
  BY DEF RequestInv, Same, ServerEnds
<1>3. ChildEnds(q)'
  BY DEF RequestInv, Same, ChildEnds
<1>4. OutputFlow(q)'
  BY DEF RequestInv, Same, OutputFlow, Output
<1>5. InputFlow(q)'
  BY DEF RequestInv, Same, InputFlow, BodyByte, Written
<1>6. Content(q)'
  BY DEF RequestInv, Same, Content, BodyByte, IsPost
<1>7. StaysForInput(q)'
  BY DEF RequestInv, Same, StaysForInput
<1> QED
  BY <1>1, <1>2, <1>3, <1>4, <1>5, <1>6, <1>7 DEF RequestInv

\* A thread changes the ends of its own request only.
LEMMA ThreadHolds ==
  ASSUME TInv, NEW r \in Requests, Thread(r), NEW q \in Requests \ {r}
  PROVE  /\ held'[q] = held[q]
         /\ server' = "runs" =>
              /\ server = "runs" \/ server' = server
              /\ \A e \in {"client", "outR", "outW", "inR", "inW"} : Has(q, e)' <=> Has(q, e)
<1> USE CgiAssumption
<1>0. held \in [Processes -> SUBSET Ends] /\ Server \in Processes /\ r \in Processes
      /\ q \in Processes /\ q # Server /\ r # Server
  BY DEF TInv, Holding, Processes
<1>1. CASE Accept(r) \/ Close(r) \/ CloseEnds(r)
  BY <1>0, <1>1 DEF Accept, Close, CloseEnds, CloseEnd, Opened, Closed, Has
<1>2. CASE PipeOutput(r) \/ PipeInput(r)
  BY <1>0, <1>2 DEF PipeOutput, PipeInput, Pipe, Opened, Has
<1>3. CASE Fork(r)
  BY <1>0, <1>3 DEF Fork, Opened, Has
<1>4. CASE ErrorPage(r) \/ ServeFile(r) \/ SendOk(r) \/ CannotExecute(r) \/ Read(r)
  BY <1>0, <1>4 DEF ErrorPage, ServeFile, SendOk, CannotExecute, Read, Send, Die, Has
<1>5. CASE CloseNull(r)
  BY <1>0, <1>5 DEF CloseNull, Die, Has
<1>6. CASE Write(r)
  BY <1>0, <1>6 DEF Write, Die, Has
<1>7. CASE Recv(r) \/ BodyDone(r) \/ ReadEnd(r) \/ Waitpid(r)
  BY <1>0, <1>7 DEF Recv, BodyDone, ReadEnd, Waitpid, pipeVars, Has
<1> QED
  BY <1>1, <1>2, <1>3, <1>4, <1>5, <1>6, <1>7 DEF Thread

\* One thread leaves the requests of the others alone, and so does one child.
LEMMA ThreadFrame ==
  ASSUME TInv, NEW r \in Requests, server = "runs", Thread(r), NEW q \in Requests \ {r}
  PROVE  Same(q)
<1>1. /\ held'[q] = held[q]
      /\ server' = "runs" =>
           \A e \in {"client", "outR", "outW", "inR", "inW"} : Has(q, e)' <=> Has(q, e)
  BY ThreadHolds
<1>2. kind' = kind /\ gone \subseteq gone' /\ taken'[q] = taken[q] /\ put'[q] = put[q]
      /\ called'[q] = called[q]
  BY ThreadShape
<1>3. pc'[q] = pc[q] /\ childPc'[q] = childPc[q] /\ outcome'[q] = outcome[q]
  BY ThreadShape DEF TInv, Control
<1>4. i'[q] = i[q] /\ c'[q] = c[q] /\ received'[q] = received[q] /\ output'[q] = output[q]
  <2>1. i'[q] = i[q]
    BY ThreadShape DEF TInv, Counted
  <2>2. c'[q] = c[q]
    BY ThreadShape DEF TInv, Counted
  <2>3. received'[q] = received[q]
    BY ThreadShape DEF TInv, Counted
  <2>4. output'[q] = output[q]
    BY ThreadShape DEF TInv, Counted
  <2> QED
    BY <2>1, <2>2, <2>3, <2>4
<1>5. input'[q] = input[q]
  BY ThreadShape DEF TInv, Carried
<1> QED
  BY <1>1, <1>2, <1>3, <1>4, <1>5 DEF Same

LEMMA ChildFrame ==
  ASSUME TInv, NEW r \in Requests, Child(r), NEW q \in Requests \ {r}
  PROVE  Same(q)
<1>1. /\ held'[q] = held[q] /\ held'[Server] = held[Server] /\ server' = server
  BY CgiAssumption
  DEF TInv, Holding, Child, ReadContent, NoContent, Execl, Take, TakeEnd, Put, Exit, Closed,
      pipeVars, Processes
<1>2. kind' = kind /\ gone \subseteq gone' /\ pc'[q] = pc[q] /\ i'[q] = i[q] /\ c'[q] = c[q]
      /\ received'[q] = received[q] /\ outcome'[q] = outcome[q]
  BY ChildShape
<1>3. childPc'[q] = childPc[q]
  BY ChildShape DEF TInv, Control
<1>4. taken'[q] = taken[q] /\ put'[q] = put[q]
  BY ChildShape DEF TInv, Counted
<1>5. output'[q] = output[q]
  BY ChildShape DEF TInv, Counted
<1>6. input'[q] = input[q] /\ called'[q] = called[q]
  BY ChildShape DEF TInv, Carried
<1> QED
  BY <1>1, <1>2, <1>3, <1>4, <1>5, <1>6 DEF Same, Has

LEMMA OtherFrame ==
  ASSUME TInv, AcceptFails \/ \E r \in Requests : HangUp(r), NEW q \in Requests
  PROVE  Same(q)
<1>1. UNCHANGED <<kind, limit, input, output, pc, localVars, childVars>>
      /\ gone \subseteq gone'
  BY OtherShape
<1>2. held'[q] = held[q]
      /\ (server' = "runs" => server = "runs" /\ held'[Server] = held[Server])
  BY CgiAssumption DEF TInv, Holding, AcceptFails, HangUp, Die, pipeVars, Processes
<1> QED
  BY <1>1, <1>2 DEF Same, Has, localVars, childVars
-----------------------------------------------------------------------------
(***************************************************************************)
(* Each action keeps what holds for its request.                           *)
(***************************************************************************)

\* Steps that move the thread and open or close ends: the child, its input and
\* its output stay as they are.
Moves(r) ==
  \/ Accept(r) \/ ErrorPage(r) \/ ServeFile(r) \/ CloseNull(r) \/ Close(r) \/ SendOk(r)
  \/ PipeOutput(r) \/ PipeInput(r) \/ CannotExecute(r) \/ CloseEnds(r) \/ BodyDone(r)
  \/ ReadEnd(r)

LEMMA MovesShape ==
  ASSUME TInv, NEW r \in Requests, server = "runs", Moves(r)
  PROVE  /\ UNCHANGED <<kind, gone, input, output, i, c, received, childPc, taken, put, called>>
         /\ held'[r] = held[r] /\ pc[r] # "write" /\ pc'[r] # "write"
<1>1. UNCHANGED <<kind, gone, input, output, i, c, received, childPc, taken, put, called>>
  BY DEF Moves, Accept, ErrorPage, ServeFile, CloseNull, Close, SendOk, PipeOutput, PipeInput,
         Pipe, CannotExecute, CloseEnds, CloseEnd, BodyDone, ReadEnd, clientVars, pipeVars,
         localVars, childVars
<1>2. held'[r] = held[r]
  BY CgiAssumption
  DEF TInv, Holding, Moves, Accept, ErrorPage, ServeFile, CloseNull, Close, SendOk, PipeOutput,
         PipeInput, Pipe, CannotExecute, CloseEnds, CloseEnd, BodyDone, ReadEnd, Opened, Closed,
         Send, Die, pipeVars, Processes
<1>3. pc[r] # "write" /\ pc'[r] # "write"
  BY DEF TInv, Control, Moves, Accept, ErrorPage, ServeFile, CloseNull, Close, SendOk, PipeOutput,
         PipeInput, Pipe, CannotExecute, CloseEnds, CloseEnd, BodyDone, ReadEnd, Goto
<1> QED
  BY <1>1, <1>2, <1>3

LEMMA MovesKeep ==
  ASSUME TInv, NEW r \in Requests, RequestInv(r), server = "runs", Moves(r)
  PROVE  ChildEnds(r)' /\ InputFlow(r)' /\ Content(r)' /\ put'[r] = received'[r] + output'[r]
<1>1. /\ UNCHANGED <<kind, gone, input, output, i, c, received, childPc, taken, put, called>>
      /\ held'[r] = held[r] /\ pc[r] # "write" /\ pc'[r] # "write"
  BY MovesShape
<1>2. ChildEnds(r)'
  BY <1>1 DEF RequestInv, ChildEnds
<1>3. InputFlow(r)'
  BY <1>1 DEF RequestInv, InputFlow, BodyByte, Written
<1>4. Content(r)'
  BY <1>1 DEF RequestInv, Content, BodyByte, IsPost
<1> QED
  BY <1>1, <1>2, <1>3, <1>4 DEF RequestInv, OutputFlow

LEMMA MovesRoute ==
  ASSUME TInv, NEW r \in Requests, RequestInv(r), server = "runs", Moves(r)
  PROVE  Route(r)'
<1>0. UNCHANGED <<kind, childPc>> /\ kind[r].page \in {"unknown", "missing", "file", "cgi"}
      /\ pc \in [Requests -> Labels]
      /\ outcome \in [Requests -> {"fine", "cgi_output", "cgi_input", "fork"}]
  BY MovesShape, KindType DEF TInv, Control
<1>1. CASE Accept(r) \/ Close(r) \/ CloseNull(r)
  BY <1>0, <1>1 DEF RequestInv, Route, Accept, Close, CloseNull, Goto, IsPost, Cgi, Piped,
                    WithChild, localVars
<1>2. CASE ErrorPage(r) \/ ServeFile(r) \/ SendOk(r)
  BY <1>0, <1>2 DEF RequestInv, Route, ErrorPage, ServeFile, SendOk, Goto, IsPost, Cgi, Piped,
                    WithChild, localVars
<1>3. CASE PipeOutput(r) \/ PipeInput(r)
  BY <1>0, <1>3 DEF RequestInv, Route, PipeOutput, PipeInput, Pipe, Goto, IsPost, Cgi, Piped,
                    WithChild
<1>4. CASE CannotExecute(r) \/ BodyDone(r) \/ ReadEnd(r)
  BY <1>0, <1>4 DEF RequestInv, Route, CannotExecute, BodyDone, ReadEnd, Goto, IsPost, Cgi, Piped,
                    WithChild, localVars
<1>5. CASE CloseEnds(r)
  BY <1>0, <1>5 DEF RequestInv, Route, CloseEnds, CloseEnd, Goto, IsPost, Cgi, Piped,
                    WithChild, localVars
<1> QED
  BY <1>1, <1>2, <1>3, <1>4, <1>5 DEF Moves

LEMMA MovesEnds ==
  ASSUME TInv, NEW r \in Requests, RequestInv(r), server = "runs", Moves(r)
  PROVE  ServerEnds(r)'
<1>0. UNCHANGED <<kind>> /\ kind[r].page \in {"unknown", "missing", "file", "cgi"}
      /\ pc \in [Requests -> Labels] /\ held \in [Processes -> SUBSET Ends]
      /\ outcome \in [Requests -> {"fine", "cgi_output", "cgi_input", "fork"}]
      /\ Server \in Processes
  BY MovesShape, KindType DEF TInv, Control, Holding, Processes
<1> USE DEF RequestInv, Route, ServerEnds, Has, Piped, Cgi, WithChild, Goto
<1>1. CASE Accept(r)
  BY <1>0, <1>1 DEF Accept, Opened, localVars
<1>2. CASE Close(r)
  BY <1>0, <1>2 DEF Close, Closed, localVars
<1>3. CASE ErrorPage(r)
  BY <1>0, <1>3 DEF ErrorPage, Send, Die, localVars
<1>4. CASE ServeFile(r)
  BY <1>0, <1>4 DEF ServeFile, Send, Die, localVars
<1>5. CASE SendOk(r) \/ CannotExecute(r)
  BY <1>0, <1>5 DEF SendOk, CannotExecute, Send, Die, localVars
<1>6. CASE CloseNull(r)
  BY <1>0, <1>6 DEF CloseNull, Die
<1>7. CASE PipeOutput(r)
  BY <1>0, <1>7 DEF PipeOutput, Pipe, Opened
<1>8. CASE PipeInput(r)
  BY <1>0, <1>8 DEF PipeInput, Pipe, Opened
<1>9. CASE BodyDone(r) \/ ReadEnd(r)
  BY <1>0, <1>9 DEF BodyDone, ReadEnd, pipeVars, localVars
<1>10. CASE CloseEnd(r, "close_outW", "outW", "close_inR")
  BY <1>0, <1>10 DEF CloseEnd, Closed, localVars
<1>11. CASE CloseEnd(r, "close_inR", "inR", "recv")
  BY <1>0, <1>11 DEF CloseEnd, Closed, localVars
<1>12. CASE CloseEnd(r, "close_outR", "outR", "close_inW")
  BY <1>0, <1>12 DEF CloseEnd, Closed, localVars
<1>13. CASE CloseEnd(r, "close_inW", "inW", "waitpid")
  BY <1>0, <1>13 DEF CloseEnd, Closed, localVars
<1> QED
  BY <1>1, <1>2, <1>3, <1>4, <1>5, <1>6, <1>7, <1>8, <1>9, <1>10, <1>11, <1>12, <1>13
  DEF Moves, CloseEnds
LEMMA MovesFlow ==
  ASSUME TInv, NEW r \in Requests, RequestInv(r), server = "runs", Moves(r)
  PROVE  OutputFlow(r)' /\ StaysForInput(r)'
<1>0. /\ UNCHANGED <<kind, gone, input, output, i, c, received, childPc, taken, put, called>>
      /\ pc \in [Requests -> Labels] /\ childPc[r] \in ChildLabels /\ r \in Processes
      /\ put'[r] = received'[r] + output'[r]
  BY MovesShape, MovesKeep DEF TInv, Control, Processes
<1> USE DEF RequestInv, Route, Cgi, Piped, WithChild, Goto
<1>1. pc'[r] \in Over => pc[r] \in Over \/ childPc[r] = "none"
                        \/ (pc[r] = "read" /\ output[r] = 0 /\ Nobody(r, "outW"))
  <2> USE DEF Over
  <2>1. CASE Accept(r) \/ Close(r) \/ CloseNull(r) \/ ErrorPage(r) \/ ServeFile(r) \/ SendOk(r)
    BY <1>0, <2>1 DEF Accept, Close, CloseNull, ErrorPage, ServeFile, SendOk
  <2>2. CASE PipeOutput(r) \/ PipeInput(r) \/ CannotExecute(r) \/ BodyDone(r) \/ ReadEnd(r)
    BY <1>0, <2>2 DEF PipeOutput, PipeInput, Pipe, CannotExecute, BodyDone, ReadEnd
  <2>3. CASE CloseEnds(r)
    BY <1>0, <2>3 DEF CloseEnds, CloseEnd
  <2> QED
    BY <2>1, <2>2, <2>3 DEF Moves
<1>2. childPc[r] # "none" /\ pc'[r] \in Over => childPc[r] \in {"ended", "reaped"} /\ output[r] = 0
  BY <1>0, <1>1 DEF OutputFlow, ChildEnds, Alive, Nobody, ChildLabels
<1>3. OutputFlow(r)'
  BY <1>0, <1>2 DEF OutputFlow, Output
<1>4. pc'[r] \in {"close_outW", "close_inR", "recv", "write"} =>
        pc[r] \in {"close_outW", "close_inR", "recv", "write"}
  <2>1. CASE Accept(r) \/ Close(r) \/ CloseNull(r) \/ ErrorPage(r) \/ ServeFile(r) \/ SendOk(r)
    BY <1>0, <2>1 DEF Accept, Close, CloseNull, ErrorPage, ServeFile, SendOk
  <2>2. CASE PipeOutput(r) \/ PipeInput(r) \/ CannotExecute(r) \/ BodyDone(r) \/ ReadEnd(r)
    BY <1>0, <2>2 DEF PipeOutput, PipeInput, Pipe, CannotExecute, BodyDone, ReadEnd
  <2>3. CASE CloseEnds(r)
    BY <1>0, <2>3 DEF CloseEnds, CloseEnd
  <2> QED
    BY <2>1, <2>2, <2>3 DEF Moves
<1>5. pc'[r] # "write"
  BY MovesShape
<1>6. StaysForInput(r)'
  BY <1>0, <1>4, <1>5 DEF StaysForInput
<1> QED
  BY <1>3, <1>6

\* fork() passes on what the server holds, both pipes among it.
LEMMA ForkKeeps ==
  ASSUME TInv, NEW r \in Requests, RequestInv(r), server = "runs", Fork(r)
  PROVE  RequestInv(r)'
<1>0. /\ UNCHANGED <<kind, gone, server, input, output, i, c, received, taken, put, called>>
      /\ pc[r] = "fork" /\ pc \in [Requests -> Labels] /\ childPc \in [Requests -> ChildLabels]
      /\ outcome \in [Requests -> {"fine", "cgi_output", "cgi_input", "fork"}]
      /\ held \in [Processes -> SUBSET Ends] /\ r \in Processes /\ Server \in Processes
      /\ r # Server
  BY CgiAssumption DEF Fork, clientVars, TInv, Control, Holding, Processes
<1>1. childPc[r] = "none"
  BY <1>0 DEF RequestInv, Route, WithChild, Cgi, Piped
<1>2. kind[r].page = "cgi" /\ ~(IsPost(r) /\ kind[r].announced = -1) /\ outcome[r] = "fine"
  BY <1>0 DEF RequestInv, Route, Cgi, Piped
<1>3. Has(r, "outR") /\ Has(r, "outW") /\ Has(r, "inR") /\ Has(r, "inW") /\ Has(r, "client")
  BY <1>0 DEF RequestInv, ServerEnds, Piped
<1>4. taken[r] = 0 /\ put[r] = 0 /\ called[r] = NotCalled
  BY <1>1 DEF RequestInv, ChildEnds, Content
<1>5. CASE Cardinality(Children) < limit.children
  <2>1. /\ held' = [held EXCEPT ![r] = @ \cup held[Server]] /\ outcome' = outcome
        /\ childPc' = [childPc EXCEPT ![r] = IF kind[r].program = "C" THEN "C" ELSE "dup2"]
        /\ pc' = [pc EXCEPT ![r] = "close_outW"]
    BY <1>5 DEF Fork, Opened, Goto, ChildGoto
  <2>2. /\ pc'[r] = "close_outW" /\ childPc'[r] \in {"C", "dup2"}
        /\ childPc'[r] = "C" <=> kind[r].program = "C"
        /\ held'[Server] = held[Server] /\ held[Server] \subseteq held'[r]
    BY <1>0, <2>1
  <2>3. Route(r)'
    BY <1>0, <1>2, <2>1, <2>2 DEF Route, IsPost, WithChild, Cgi, Piped
  <2>4. ServerEnds(r)'
    BY <1>0, <1>2, <1>3, <2>1, <2>2 DEF ServerEnds, Has, Piped
  <2>5. ChildEnds(r)'
    BY <1>0, <1>3, <1>4, <2>2 DEF ChildEnds, Has
  <2>6. OutputFlow(r)'
    BY <1>0, <2>2 DEF RequestInv, OutputFlow, Over
  <2>7. InputFlow(r)'
    BY <1>0, <1>1, <2>2 DEF RequestInv, InputFlow, BodyByte, Written
  <2>8. Content(r)'
    BY <1>0, <1>4 DEF Content
  <2>9. StaysForInput(r)'
    BY <1>0, <2>2 DEF StaysForInput
  <2> QED
    BY <2>3, <2>4, <2>5, <2>6, <2>7, <2>8, <2>9 DEF RequestInv
<1>6. CASE ~(Cardinality(Children) < limit.children)
  <2>1. /\ held' = held /\ childPc' = childPc /\ outcome' = [outcome EXCEPT ![r] = "fork"]
        /\ pc' = [pc EXCEPT ![r] = "cannot_execute"]
    BY <1>6 DEF Fork, Goto
  <2>2. pc'[r] = "cannot_execute" /\ outcome'[r] = "fork"
    BY <1>0, <2>1
  <2>3. Route(r)'
    BY <1>0, <1>1, <1>2, <2>1, <2>2 DEF Route, IsPost, WithChild, Cgi, Piped
  <2>4. ServerEnds(r)'
    BY <1>0, <1>2, <1>3, <2>1, <2>2 DEF ServerEnds, Has, Piped
  <2>5. ChildEnds(r)' /\ Content(r)'
    BY <1>0, <1>1, <1>4, <2>1 DEF ChildEnds, Content, Alive
  <2>6. OutputFlow(r)'
    BY <1>0, <1>1, <2>1, <2>2 DEF RequestInv, OutputFlow, Over
  <2>7. InputFlow(r)'
    BY <1>0, <1>1, <2>1, <2>2 DEF RequestInv, InputFlow, BodyByte, Written
  <2>8. StaysForInput(r)'
    BY <1>0, <2>2 DEF StaysForInput
  <2> QED
    BY <2>3, <2>4, <2>5, <2>6, <2>7, <2>8 DEF RequestInv
<1> QED
  BY <1>5, <1>6
\* recv() of a byte: it is the next one, or, once the client has gone, a repeat
\* of the last.
LEMMA RecvKeeps ==
  ASSUME TInv, NEW r \in Requests, RequestInv(r), server = "runs", Recv(r)
  PROVE  RequestInv(r)'
<1>0. /\ UNCHANGED <<kind, gone, server, held, input, output, received, outcome, childPc, taken,
                     put, called>>
      /\ pc' = [pc EXCEPT ![r] = "write"] /\ pc[r] = "recv" /\ pc'[r] = "write"
      /\ i' = [i EXCEPT ![r] = @ + 1]
      /\ c' = IF i[r] < kind[r].body THEN [c EXCEPT ![r] = i'[r]] ELSE c
      /\ i[r] < kind[r].announced /\ (i[r] < kind[r].body \/ r \in gone)
  BY DEF Recv, Goto, clientVars, pipeVars, childVars, TInv, Control
<1>1. /\ i \in [Requests -> Nat] /\ c \in [Requests -> Nat] /\ i[r] \in Nat
      /\ kind[r].body \in Nat /\ kind[r].announced \in Nat \cup {-1} /\ taken[r] \in Nat
      /\ Len(input[r]) \in Nat
  BY KindType DEF TInv, Counted, Carried
<1>2. i'[r] = i[r] + 1 /\ c'[r] = IF i[r] < kind[r].body THEN i[r] + 1 ELSE c[r]
  BY <1>0, <1>1
<1>3. Route(r)'
  BY <1>0 DEF RequestInv, Route, IsPost, WithChild, Cgi, Piped
<1>4. ServerEnds(r)'
  BY <1>0 DEF RequestInv, ServerEnds, Has, Piped
<1>5. ChildEnds(r)' /\ Content(r)'
  BY <1>0 DEF RequestInv, ChildEnds, Content, BodyByte, IsPost
<1>6. OutputFlow(r)'
  BY <1>0 DEF RequestInv, OutputFlow, Over, Output
<1>7. InputFlow(r)'
  <2>1. c[r] = BodyByte(r, i[r]) /\ (i[r] > kind[r].body => r \in gone)
    BY DEF RequestInv, InputFlow
  <2>2. c'[r] = BodyByte(r, i[r] + 1)
    BY <1>1, <1>2, <2>1 DEF BodyByte
  <2>3. i[r] + 1 > kind[r].body => r \in gone
    <3>1. i[r] < kind[r].body => ~(i[r] + 1 > kind[r].body)
      BY <1>1
    <3> QED
      BY <1>0, <3>1
  <2>4. i[r] + 1 <= kind[r].announced /\ i[r] + 1 > 0 /\ (i[r] + 1) - 1 = i[r]
    <3>1. \A x \in Nat, y \in Int : x < y => x + 1 <= y /\ x + 1 > 0 /\ (x + 1) - 1 = x
      OBVIOUS
    <3>2. kind[r].announced \in Int
      BY <1>1
    <3> QED
      BY <1>0, <1>1, <3>1, <3>2
  <2>5. Written(r)' = Written(r)
    BY <1>0, <1>2, <2>4 DEF Written
  <2>6. c'[r] = IF i'[r] <= kind[r].body THEN i'[r] ELSE kind[r].body
    BY <1>2, <2>2 DEF BodyByte
  <2>7. (i'[r] > kind[r].body => r \in gone) /\ i'[r] <= kind[r].announced /\ i'[r] > 0
    BY <1>2, <2>3, <2>4
  <2> QED
    BY <1>0, <2>5, <2>6, <2>7 DEF RequestInv, InputFlow, BodyByte
<1>8. StaysForInput(r)'
  <2>1. kind[r].program = "C" /\ kind[r].announced = 1 => childPc[r] = "C"
    BY <1>0, <1>1 DEF RequestInv, StaysForInput
  <2> QED
    BY <1>0, <2>1 DEF RequestInv, StaysForInput
<1> QED
  BY <1>3, <1>4, <1>5, <1>6, <1>7, <1>8 DEF RequestInv

\* write() of the byte: it is the last one in the pipe.
LEMMA WriteKeeps ==
  ASSUME TInv, NEW r \in Requests, RequestInv(r), server = "runs", Write(r)
  PROVE  RequestInv(r)'
<1>0. /\ UNCHANGED <<kind, gone, output, i, c, received, outcome, childPc, taken, put, called>>
      /\ pc[r] = "write" /\ pc \in [Requests -> Labels]
      /\ held \in [Processes -> SUBSET Ends] /\ r \in Processes /\ r # Server
  BY CgiAssumption DEF Write, clientVars, localVars, childVars, TInv, Control, Holding, Processes
<1>1. CASE Nobody(r, "inR")
  <2>1. server' = "killed" /\ held'[r] = held[r] /\ UNCHANGED <<input, pc>>
    BY <1>0, <1>1 DEF Write, Die
  <2>2. Route(r)' /\ ServerEnds(r)' /\ ChildEnds(r)' /\ StaysForInput(r)'
    BY <1>0, <2>1 DEF RequestInv, Route, IsPost, ServerEnds, ChildEnds, StaysForInput
  <2>3. OutputFlow(r)' /\ InputFlow(r)' /\ Content(r)'
    BY <1>0, <2>1 DEF RequestInv, OutputFlow, InputFlow, BodyByte, Written, Content, IsPost
  <2> QED
    BY <2>2, <2>3 DEF RequestInv
<1>2. CASE ~Nobody(r, "inR")
  <2>1. /\ UNCHANGED <<server, held>> /\ pc' = [pc EXCEPT ![r] = "recv"] /\ pc'[r] = "recv"
        /\ input' = [input EXCEPT ![r] = Append(@, c[r])]
    BY <1>0, <1>2 DEF Write, Goto
  <2>2. Route(r)'
    BY <1>0, <2>1 DEF RequestInv, Route, IsPost, WithChild, Cgi, Piped
  <2>3. ServerEnds(r)'
    BY <1>0, <2>1 DEF RequestInv, ServerEnds, Has, Piped
  <2>4. ChildEnds(r)' /\ Content(r)'
    BY <1>0, <2>1 DEF RequestInv, ChildEnds, Content, BodyByte, IsPost
  <2>5. OutputFlow(r)'
    BY <1>0, <2>1 DEF RequestInv, OutputFlow, Over, Output
  <2>6. StaysForInput(r)'
    BY <1>0, <2>1 DEF RequestInv, StaysForInput
  <2>7. InputFlow(r)'
    <3>1. /\ input[r] \in Seq(Nat) /\ c[r] \in Nat /\ i[r] \in Nat /\ taken[r] \in Nat
          /\ Len(input[r]) \in Nat /\ input \in [Requests -> Seq(Nat)]
      BY DEF TInv, Counted, Carried
    <3>2. input'[r] = Append(input[r], c[r])
      BY <2>1, <3>1
    <3>3. Len(input'[r]) = Len(input[r]) + 1
      BY <3>1, <3>2
    <3>4. \A n \in 1 .. Len(input[r]) : input'[r][n] = input[r][n]
      BY <3>1, <3>2
    <3>5. input'[r][Len(input[r]) + 1] = c[r]
      BY <3>1, <3>2
    <3>6. /\ i[r] > 0 /\ c[r] = BodyByte(r, i[r])
          /\ kind[r].program # "C" \/ childPc[r] \in {"none", "C"} =>
               taken[r] + Len(input[r]) = i[r] - 1
      BY <1>0 DEF RequestInv, InputFlow, Written
    <3>7. kind[r].program # "C" \/ childPc[r] \in {"none", "C"} =>
            taken[r] + Len(input'[r]) = i[r]
      <4>1. \A x, y, z \in Nat : x + y = z - 1 => x + (y + 1) = z
        OBVIOUS
      <4>2. taken[r] + Len(input[r]) = i[r] - 1 => taken[r] + Len(input'[r]) = i[r]
        <5>1. taken[r] \in Nat /\ Len(input[r]) \in Nat /\ i[r] \in Nat
          BY <3>1
        <5>2. taken[r] + Len(input[r]) = i[r] - 1 => taken[r] + (Len(input[r]) + 1) = i[r]
          BY ONLY <5>1, <4>1
        <5> QED
          BY <5>2, <3>3
      <4> QED
        BY <3>6, <4>2
    <3>9. ASSUME childPc[r] \in {"none", "C"}, NEW n \in 1 .. Len(input'[r])
          PROVE  input'[r][n] = BodyByte(r, n)
      <4>1. CASE n \in 1 .. Len(input[r])
        BY <3>4, <3>9, <4>1 DEF RequestInv, InputFlow
      <4>2. CASE n \notin 1 .. Len(input[r])
        <5>1. n = Len(input[r]) + 1
          BY <3>1, <3>3, <3>9, <4>2
        <5>2. taken[r] = 0
          BY <3>9 DEF RequestInv, ChildEnds
        <5>3. taken[r] + Len(input'[r]) = i[r]
          BY <3>7, <3>9
        <5>4. n = i[r]
          BY <3>1, <3>3, <5>1, <5>2, <5>3
        <5> QED
          BY <3>5, <3>6, <5>1, <5>4
      <4> QED
        BY <4>1, <4>2
    <3>10. /\ c'[r] = IF i'[r] <= kind'[r].body THEN i'[r] ELSE kind'[r].body
           /\ (i'[r] > kind'[r].body => r \in gone') /\ (i'[r] > 0 => i'[r] <= kind'[r].announced)
      BY <1>0 DEF RequestInv, InputFlow, BodyByte
    <3>11. Written(r)' = i[r]
      BY <1>0, <2>1 DEF Written
    <3> QED
      BY <1>0, <2>1, <3>7, <3>9, <3>10, <3>11 DEF InputFlow, BodyByte
  <2> QED
    BY <2>2, <2>3, <2>4, <2>5, <2>6, <2>7 DEF RequestInv
<1> QED
  BY <1>1, <1>2

\* read() of a byte of output, which goes to the client.
LEMMA ReadKeeps ==
  ASSUME TInv, NEW r \in Requests, RequestInv(r), server = "runs", Read(r)
  PROVE  RequestInv(r)'
<1>0. /\ UNCHANGED <<kind, gone, input, pc, i, c, outcome, childPc, taken, put, called>>
      /\ pc[r] = "read" /\ output[r] > 0
      /\ output' = [output EXCEPT ![r] = @ - 1] /\ received' = [received EXCEPT ![r] = @ + 1]
      /\ server' = "runs" => held' = held
      /\ held'[r] = held[r]
  BY CgiAssumption DEF Read, Send, Die, clientVars, childVars, TInv, Holding, Processes
<1>1. received'[r] + output'[r] = received[r] + output[r]
  <2>1. /\ output \in [Requests -> 0 .. PipeSize] /\ received \in [Requests -> Nat]
        /\ output[r] \in Nat /\ received[r] \in Nat
    BY CgiAssumption DEF TInv, Counted
  <2>2. output'[r] = output[r] - 1 /\ received'[r] = received[r] + 1
    BY <1>0, <2>1
  <2> QED
    BY <2>1, <2>2
<1>2. Route(r)' /\ ChildEnds(r)' /\ StaysForInput(r)'
  BY <1>0 DEF RequestInv, Route, IsPost, ChildEnds, StaysForInput
<1>3. ServerEnds(r)'
  BY <1>0 DEF RequestInv, ServerEnds, Has
<1>4. OutputFlow(r)'
  BY <1>0, <1>1 DEF RequestInv, OutputFlow, Output, Over
<1>5. InputFlow(r)' /\ Content(r)'
  BY <1>0 DEF RequestInv, InputFlow, BodyByte, Written, Content, IsPost
<1> QED
  BY <1>2, <1>3, <1>4, <1>5 DEF RequestInv

\* waitpid() of the child.
LEMMA WaitKeeps ==
  ASSUME TInv, NEW r \in Requests, RequestInv(r), server = "runs", Waitpid(r)
  PROVE  RequestInv(r)'
<1>0. /\ UNCHANGED <<kind, gone, server, held, input, output, i, c, received, outcome, taken,
                     put, called>>
      /\ pc[r] = "waitpid" /\ childPc[r] = "ended" /\ pc'[r] = "close" /\ childPc'[r] = "reaped"
  BY DEF Waitpid, ChildGoto, Goto, clientVars, pipeVars, localVars, TInv, Control
<1>1. Route(r)' /\ ChildEnds(r)' /\ StaysForInput(r)'
  BY <1>0 DEF RequestInv, Route, IsPost, ChildEnds, StaysForInput, Alive, WithChild, Cgi, Piped
<1>2. ServerEnds(r)'
  BY <1>0 DEF RequestInv, ServerEnds, Has, Piped, Route, Cgi
<1>3. OutputFlow(r)'
  BY <1>0 DEF RequestInv, OutputFlow, Output, Over
<1>4. InputFlow(r)' /\ Content(r)'
  BY <1>0 DEF RequestInv, InputFlow, BodyByte, Written, Content, IsPost
<1> QED
  BY <1>1, <1>2, <1>3, <1>4 DEF RequestInv

\* A thread keeps what holds for its request.
LEMMA ThreadKeeps ==
  ASSUME TInv, NEW r \in Requests, RequestInv(r), server = "runs", Thread(r)
  PROVE  RequestInv(r)'
<1>1. CASE Moves(r)
  BY <1>1, MovesKeep, MovesRoute, MovesEnds, MovesFlow DEF RequestInv
<1> QED
  BY <1>1, ForkKeeps, RecvKeeps, WriteKeeps, ReadKeeps, WaitKeeps DEF Thread, Moves
\* No step of a child changes the thread or what the server holds.
LEMMA ChildCommon ==
  ASSUME TInv, NEW r \in Requests, RequestInv(r), Child(r)
  PROVE  /\ UNCHANGED <<kind, gone, server, pc, i, c, received, outcome>>
         /\ held'[Server] = held[Server]
         /\ childPc[r] \in Alive /\ childPc'[r] \in Alive \cup {"ended"}
         /\ Route(r)' /\ ServerEnds(r)'
<1>1. UNCHANGED <<kind, gone, server, pc, i, c, received, outcome>>
  BY ChildShape
<1>2. held'[Server] = held[Server]
  BY CgiAssumption
  DEF TInv, Holding, Child, ReadContent, NoContent, Execl, Take, TakeEnd, Put, Exit, Closed,
      pipeVars, Processes
<1>3. childPc[r] \in Alive
  BY DEF Child, ReadContent, NoContent, Execl, Take, TakeEnd, Put, Exit, Writes, Alive
<1>4. childPc'[r] \in Alive \cup {"ended"}
  BY <1>3, ChildShape DEF TInv, Control, Alive
<1>5. Route(r)'
  BY <1>1, <1>3, <1>4 DEF RequestInv, Route, IsPost, Alive
<1>6. ServerEnds(r)'
  BY <1>1, <1>2 DEF RequestInv, ServerEnds, Has
<1> QED
  BY <1>1, <1>2, <1>3, <1>4, <1>5, <1>6

\* The child has been forked from a thread that has made both pipes, and while it
\* lives the server holds the end to read its output from, and, as long as it
\* still writes, the end to write to its input.
LEMMA AliveMeans ==
  ASSUME NEW r \in Requests, RequestInv(r), childPc[r] \in Alive, server = "runs"
  PROVE  /\ pc[r] \notin Over /\ ~Nobody(r, "outR")
         /\ pc[r] \in {"close_outW", "close_inR", "recv", "write"} => ~Nobody(r, "inW")
<1>1. pc[r] \in WithChild \cup {"close", "done"} /\ outcome[r] = "fine"
  BY DEF RequestInv, Route, Alive
<1>2. pc[r] \notin Over
  BY DEF RequestInv, OutputFlow, Alive
<1>3. Has(r, "outR") /\ Has(r, "inW")
  BY <1>1, <1>2 DEF RequestInv, ServerEnds, WithChild, Cgi, Piped, Over
<1> QED
  BY <1>2, <1>3 DEF Nobody, Has, Processes

\* The C code is called with a beginning of the body.
LEMMA ReadContentKeeps ==
  ASSUME TInv, NEW r \in Requests, RequestInv(r), ReadContent(r)
  PROVE  RequestInv(r)'
<1>0. /\ UNCHANGED <<kind, gone, server, held, output, pc, i, c, received, outcome, taken, put>>
      /\ childPc[r] = "C" /\ childPc'[r] = "exit" /\ IsPost(r)
      /\ input[r] # << >> \/ kind[r].announced = 0
      /\ called'[r] = Announced(r)
  BY DEF ReadContent, ChildGoto, clientVars, localVars, TInv, Control, Carried
<1>1. Route(r)' /\ ServerEnds(r)'
  BY ChildCommon DEF Child
<1>2. kind[r].program = "C" /\ taken[r] = 0 /\ put[r] = 0
  BY <1>0 DEF RequestInv, ChildEnds
<1>3. ChildEnds(r)'
  BY <1>0 DEF RequestInv, ChildEnds, Alive
<1>4. OutputFlow(r)'
  BY <1>0, <1>2 DEF RequestInv, OutputFlow, Output, Over
<1>5. InputFlow(r)'
  BY <1>0, <1>2 DEF RequestInv, InputFlow, BodyByte, Written
<1>6. /\ kind[r].announced \in Nat /\ i[r] \in Nat /\ Len(input[r]) \in Nat /\ input[r] \in Seq(Nat)
      /\ kind[r].body \in Nat
  <2>1. kind[r].announced # -1
    BY <1>0 DEF RequestInv, Route
  <2> QED
    BY <2>1, KindType DEF TInv, Counted, Carried
<1>7. Len(input[r]) = Written(r) /\ (i[r] > 0 => i[r] <= kind[r].announced)
      /\ (pc[r] = "write" => i[r] > 0)
      /\ (i[r] > kind[r].body => r \in gone)
      /\ \A n \in 1 .. Len(input[r]) : input[r][n] = BodyByte(r, n)
  <2>1. taken[r] + Len(input[r]) = Written(r)
    BY <1>0 DEF RequestInv, InputFlow
  <2>2. Len(input[r]) = Written(r)
    BY <1>2, <1>6, <2>1
  <2> QED
    BY <1>0, <2>2 DEF RequestInv, InputFlow
<1>8. Written(r) <= i[r]
  BY <1>6 DEF Written
<1> DEFINE n == Len(Announced(r))
<1>9. /\ n \in Nat /\ n <= Len(input[r]) /\ n <= kind[r].announced
      /\ n = Len(input[r]) \/ n = kind[r].announced
      /\ \A m \in 1 .. n : Announced(r)[m] = input[r][m]
  BY <1>6, AnnouncedIsFront DEF TInv
<1>10. input[r] # << >> => Len(input[r]) > 0
  BY <1>6, EmptySeq
<1> HIDE DEF n
<1>11. n \in IF kind[r].announced = 0 THEN {0} ELSE 1 .. kind[r].announced
  <2>1. CASE kind[r].announced = 0
    BY <1>9, <2>1
  <2>2. CASE kind[r].announced # 0
    <3>1. Len(input[r]) > 0
      BY <1>0, <1>10, <2>2
    <3>2. n >= 1
      BY <1>6, <1>9, <2>2, <3>1
    <3> QED
      BY <1>6, <1>9, <2>2, <3>2
  <2> QED
    BY <2>1, <2>2
<1>12. \A m \in 1 .. n : Announced(r)[m] = BodyByte(r, m)
  <2> SUFFICES ASSUME NEW m \in 1 .. n PROVE Announced(r)[m] = BodyByte(r, m)
    OBVIOUS
  <2>1. m \in 1 .. Len(input[r])
    BY <1>6, <1>9
  <2> QED
    BY <1>7, <1>9, <2>1
<1>13. n > kind[r].body => r \in gone
  <2>1. n > kind[r].body => i[r] > kind[r].body
    BY <1>6, <1>7, <1>8, <1>9
  <2> QED
    BY <1>7, <2>1
<1>14. Content(r)'
  BY <1>0, <1>11, <1>12, <1>13 DEF Content, IsPost, BodyByte, n
<1>15. StaysForInput(r)'
  <2>1. kind[r].announced = 1 => i[r] = 1 /\ pc[r] # "write"
    <3> SUFFICES ASSUME kind[r].announced = 1 PROVE i[r] = 1 /\ pc[r] # "write"
      OBVIOUS
    <3>1. Len(input[r]) > 0
      BY <1>0, <1>10
    <3>2. Written(r) > 0
      BY <1>7, <3>1
    <3>3. i[r] = 1
      BY <1>6, <1>7, <1>8, <3>1, <3>2
    <3>4. pc[r] = "write" => Written(r) = 0
      BY <3>3 DEF Written
    <3> QED
      BY <3>2, <3>3, <3>4
  <2> QED
    BY <1>0, <1>2, <2>1 DEF StaysForInput
<1> QED
  BY <1>1, <1>3, <1>4, <1>5, <1>14, <1>15 DEF RequestInv

LEMMA NoContentKeeps ==
  ASSUME TInv, NEW r \in Requests, RequestInv(r), NoContent(r)
  PROVE  RequestInv(r)'
<1>0. /\ UNCHANGED <<kind, gone, server, held, input, output, pc, i, c, received, outcome, taken,
                     put>>
      /\ childPc[r] = "C" /\ childPc'[r] = "exit" /\ ~IsPost(r)
  BY DEF NoContent, ChildGoto, clientVars, pipeVars, localVars, TInv, Control
<1>1. Route(r)' /\ ServerEnds(r)'
  BY ChildCommon DEF Child
<1>2. kind[r].program = "C" /\ put[r] = 0
  BY <1>0 DEF RequestInv, ChildEnds
<1>3. ChildEnds(r)'
  BY <1>0 DEF RequestInv, ChildEnds, Alive
<1>4. OutputFlow(r)'
  BY <1>0, <1>2 DEF RequestInv, OutputFlow, Output, Over
<1>5. InputFlow(r)'
  BY <1>0, <1>2 DEF RequestInv, InputFlow, BodyByte, Written
<1>6. Content(r)'
  BY <1>0 DEF Content, IsPost
<1>7. kind[r].announced = -1
  BY <1>0, KindType, CgiAssumption DEF TInv, IsPost
<1>8. StaysForInput(r)'
  BY <1>0, <1>2, <1>7 DEF StaysForInput
<1> QED
  BY <1>1, <1>3, <1>4, <1>5, <1>6, <1>8 DEF RequestInv

\* execl() keeps the child's own ends.
LEMMA ExeclKeeps ==
  ASSUME TInv, NEW r \in Requests, RequestInv(r), Execl(r)
  PROVE  RequestInv(r)'
<1>0. /\ UNCHANGED <<kind, gone, server, input, output, pc, i, c, received, outcome, taken, put,
                     called>>
      /\ childPc[r] = "dup2"
      /\ childPc'[r] = IF kind[r].program = "none" THEN "exit" ELSE "runs"
      /\ held'[r] = held[r] \ {<<r, "outR">>, <<r, "inW">>}
  BY CgiAssumption DEF Execl, ChildGoto, Closed, clientVars, localVars, TInv, Control, Holding, Processes
<1>1. Route(r)' /\ ServerEnds(r)'
  BY ChildCommon DEF Child
<1>2. kind[r].program # "C" /\ taken[r] = 0 /\ put[r] = 0
      /\ <<r, "outW">> \in held[r] /\ <<r, "inR">> \in held[r]
  BY <1>0 DEF RequestInv, ChildEnds, Alive
<1>3. ChildEnds(r)'
  BY <1>0, <1>2 DEF ChildEnds
<1>4. OutputFlow(r)'
  BY <1>0, <1>2 DEF RequestInv, OutputFlow, Output, Over
<1>5. InputFlow(r)'
  BY <1>0, <1>2 DEF RequestInv, InputFlow, BodyByte, Written
<1>6. Content(r)'
  BY <1>0 DEF RequestInv, Content, IsPost, BodyByte
<1>7. StaysForInput(r)'
  BY <1>0, <1>2 DEF StaysForInput
<1> QED
  BY <1>1, <1>3, <1>4, <1>5, <1>6, <1>7 DEF RequestInv

\* The script reads a byte.
LEMMA TakeKeeps ==
  ASSUME TInv, NEW r \in Requests, RequestInv(r), Take(r)
  PROVE  RequestInv(r)'
<1>0. /\ UNCHANGED <<kind, gone, server, held, output, pc, i, c, received, outcome, childPc, put,
                     called>>
      /\ childPc[r] = "runs" /\ input[r] # << >>
      /\ input'[r] = Tail(input[r]) /\ taken'[r] = taken[r] + 1
  BY DEF Take, clientVars, localVars, TInv, Counted, Carried
<1>1. Route(r)' /\ ServerEnds(r)'
  BY ChildCommon DEF Child
<1>2. ChildEnds(r)'
  BY <1>0 DEF RequestInv, ChildEnds
<1>3. OutputFlow(r)'
  BY <1>0 DEF RequestInv, OutputFlow, Over
<1>4. taken'[r] + Len(input'[r]) = taken[r] + Len(input[r])
  <2>1. input[r] \in Seq(Nat) /\ taken[r] \in Nat
    BY DEF TInv, Counted, Carried
  <2>2. Len(Tail(input[r])) = Len(input[r]) - 1 /\ Len(input[r]) \in Nat
    BY <1>0, <2>1, HeadTailProperties
  <2> QED
    BY <1>0, <2>1, <2>2
<1>5. InputFlow(r)'
  BY <1>0, <1>4 DEF RequestInv, InputFlow, BodyByte, Written
<1>6. Content(r)'
  BY <1>0 DEF RequestInv, Content, IsPost, BodyByte
<1>7. StaysForInput(r)'
  BY <1>0 DEF RequestInv, StaysForInput
<1> QED
  BY <1>1, <1>2, <1>3, <1>5, <1>6, <1>7 DEF RequestInv

\* It sees the end of its input only once the server is past writing it.
LEMMA TakeEndKeeps ==
  ASSUME TInv, NEW r \in Requests, RequestInv(r), TakeEnd(r)
  PROVE  RequestInv(r)'
<1>0. /\ UNCHANGED <<kind, gone, server, held, input, output, pc, i, c, received, outcome, taken,
                     put, called>>
      /\ childPc[r] = "runs" /\ childPc'[r] = "writes" /\ Nobody(r, "inW")
  BY DEF TakeEnd, ChildGoto, clientVars, pipeVars, localVars, TInv, Control
<1>1. Route(r)' /\ ServerEnds(r)'
  BY ChildCommon DEF Child
<1>2. ChildEnds(r)'
  BY <1>0 DEF RequestInv, ChildEnds, Alive
<1>3. OutputFlow(r)'
  BY <1>0 DEF RequestInv, OutputFlow, Over
<1>4. InputFlow(r)'
  BY <1>0 DEF RequestInv, InputFlow, BodyByte, Written
<1>5. Content(r)'
  BY <1>0 DEF RequestInv, Content, IsPost, BodyByte
<1>6. StaysForInput(r)'
  BY <1>0, AliveMeans DEF StaysForInput, Alive
<1> QED
  BY <1>1, <1>2, <1>3, <1>4, <1>5, <1>6 DEF RequestInv

\* It writes a byte; while the server runs there is someone to read it.
LEMMA PutKeeps ==
  ASSUME TInv, NEW r \in Requests, RequestInv(r), Put(r)
  PROVE  RequestInv(r)'
<1>0. /\ UNCHANGED <<kind, gone, server, held, input, pc, i, c, received, outcome, taken, called>>
      /\ childPc[r] \in {"runs", "writes"}
  BY DEF Put, Writes, clientVars, localVars
<1>1. Route(r)' /\ ServerEnds(r)'
  BY ChildCommon DEF Child
<1>2. CASE Nobody(r, "outR")
  <2>1. UNCHANGED <<output, put>> /\ childPc'[r] = "exit"
    BY <1>2 DEF Put, ChildGoto, TInv, Control
  <2>2. server # "runs"
    BY <1>0, <1>2, AliveMeans DEF Alive
  <2>3. ChildEnds(r)'
    BY <1>0, <2>1 DEF RequestInv, ChildEnds, Alive
  <2>4. OutputFlow(r)' /\ StaysForInput(r)'
    BY <1>0, <2>1, <2>2 DEF RequestInv, OutputFlow, StaysForInput
  <2>5. kind[r].program # "C"
    BY <1>0 DEF RequestInv, ChildEnds
  <2>6. InputFlow(r)'
    BY <1>0, <2>1, <2>5 DEF RequestInv, InputFlow, BodyByte, Written
  <2>7. Content(r)'
    BY <1>0, <2>1 DEF RequestInv, Content, IsPost, BodyByte
  <2> QED
    BY <1>1, <2>3, <2>4, <2>6, <2>7 DEF RequestInv
<1>3. CASE ~Nobody(r, "outR")
  <2>1. childPc' = childPc /\ output'[r] = output[r] + 1 /\ put'[r] = put[r] + 1
    BY <1>3 DEF Put, TInv, Counted
  <2>2. ChildEnds(r)'
    BY <1>0, <2>1 DEF RequestInv, ChildEnds
  <2>3. put'[r] = received'[r] + output'[r]
    <3>1. put[r] \in Nat /\ received[r] \in Nat /\ output[r] \in Nat
      BY CgiAssumption DEF TInv, Counted
    <3>2. put[r] = received[r] + output[r]
      BY DEF RequestInv, OutputFlow
    <3> QED
      BY <1>0, <2>1, <3>1, <3>2
  <2>4. OutputFlow(r)'
    BY <1>0, <2>1, <2>3 DEF RequestInv, OutputFlow, Over
  <2>5. InputFlow(r)' /\ StaysForInput(r)'
    BY <1>0, <2>1 DEF RequestInv, InputFlow, BodyByte, Written, StaysForInput
  <2>6. Content(r)'
    BY <1>0, <2>1 DEF RequestInv, Content, IsPost, BodyByte
  <2> QED
    BY <1>1, <2>2, <2>4, <2>5, <2>6 DEF RequestInv
<1> QED
  BY <1>2, <1>3

\* It ends when it has written all it writes.
LEMMA ExitKeeps ==
  ASSUME TInv, NEW r \in Requests, RequestInv(r), Exit(r)
  PROVE  RequestInv(r)'
<1>0. /\ UNCHANGED <<kind, gone, server, input, output, pc, i, c, received, outcome, taken, put,
                     called>>
      /\ childPc'[r] = "ended"
      /\ childPc[r] = "exit" \/ (Writes(r) /\ put[r] = Output(r))
      /\ childPc[r] \in Alive
  BY DEF Exit, ChildGoto, Writes, Alive, clientVars, localVars, TInv, Control
<1>1. Route(r)' /\ ServerEnds(r)'
  BY ChildCommon DEF Child
<1>2. ChildEnds(r)'
  BY <1>0 DEF ChildEnds, Alive
<1>3. OutputFlow(r)'
  BY <1>0, AliveMeans DEF RequestInv, OutputFlow, Output
<1>4. Writes(r) => kind[r].program # "C"
  BY DEF RequestInv, ChildEnds, Writes
<1>5. InputFlow(r)'
  BY <1>0, <1>4 DEF RequestInv, InputFlow, BodyByte, Written
<1>6. Content(r)'
  BY <1>0 DEF RequestInv, Content, IsPost, BodyByte
<1>7. StaysForInput(r)'
  <2>1. childPc[r] = "runs" /\ Writes(r) /\ put[r] = Output(r)
          /\ kind[r].program \in {"counts", "echoes"} => taken[r] >= kind[r].announced
    <3>1. taken[r] \in Nat /\ kind[r].announced \in Int
      BY KindType DEF TInv, Counted
    <3>2. ~(taken[r] < kind[r].announced) => taken[r] >= kind[r].announced
      BY <3>1
    <3> QED
      BY <3>2 DEF Writes, Reads, Output
  <2> QED
    BY <1>0, <1>4, <2>1 DEF RequestInv, StaysForInput, Writes
<1> QED
  BY <1>1, <1>2, <1>3, <1>5, <1>6, <1>7 DEF RequestInv

\* A child keeps what holds for its request.
LEMMA ChildKeeps ==
  ASSUME TInv, NEW r \in Requests, RequestInv(r), Child(r)
  PROVE  RequestInv(r)'
BY ReadContentKeeps, NoContentKeeps, ExeclKeeps, TakeKeeps, TakeEndKeeps, PutKeeps, ExitKeeps
DEF Child
-----------------------------------------------------------------------------
(***************************************************************************)
(* The theorems.                                                           *)
(***************************************************************************)

Inv == TInv /\ ReqInv

LEMMA InitInv == Init => Inv
<1> SUFFICES ASSUME Init PROVE Inv
  OBVIOUS
<1> USE DEF Init
<1>1. kind \in [Requests -> Kinds] /\ limit \in Limits
  BY CgiAssumption
<1>2. Control
  BY <1>1 DEF Control, Labels, ChildLabels
<1>3. Counted
  BY CgiAssumption DEF Counted, Garbage
<1>4. Carried
  <2>1. << >> \in Seq(Nat) /\ Len(<< >>) = 0 /\ NotCalled \in Seq(Nat \cup {-1})
    BY DEF NotCalled
  <2> QED
    BY <2>1, CgiAssumption DEF Carried
<1>5. Holding
  <2>1. Cardinality({}) = 0
    BY FS_EmptySet
  <2>2. held[Server] = {}
    BY DEF Processes
  <2>3. limit.fds \in Nat
    BY <1>1, CgiAssumption
  <2>4. FdsLeft >= 0
    <3>1. Cardinality(held[Server]) = 0
      BY <2>1, <2>2
    <3>2. FdsLeft = limit.fds
      BY ONLY <2>3, <3>1 DEF FdsLeft
    <3> QED
      BY ONLY <2>3, <3>2
  <2> QED
    BY <2>4 DEF Holding
<1>6. ASSUME NEW r \in Requests PROVE RequestInv(r)
  <2>1. kind[r].body \in Nat
    BY <1>2, KindType
  <2>2. Route(r) /\ ServerEnds(r) /\ ChildEnds(r) /\ StaysForInput(r)
    BY DEF Route, ServerEnds, ChildEnds, StaysForInput, Has, Processes, Alive, Cgi, Piped, WithChild
  <2>3. OutputFlow(r)
    BY DEF OutputFlow
  <2>4. InputFlow(r)
    <3>1. BodyByte(r, 0) = 0 /\ ~(0 > kind[r].body)
      BY <2>1 DEF BodyByte
    <3>2. c[r] = 0 /\ i[r] = 0 /\ taken[r] = 0 /\ pc[r] = "none" /\ input[r] = << >>
      BY DEF Garbage
    <3>3. Len(input[r]) = 0 /\ Written(r) = 0
      BY <3>2 DEF Written
    <3> QED
      BY <3>1, <3>2, <3>3 DEF InputFlow
  <2>5. Content(r)
    BY DEF Content
  <2> QED
    BY <2>2, <2>3, <2>4, <2>5 DEF RequestInv
<1> QED
  BY <1>2, <1>3, <1>4, <1>5, <1>6 DEF Inv, TInv, ReqInv

LEMMA StepInv == Inv /\ [Next]_vars => Inv'
<1> SUFFICES ASSUME Inv, [Next]_vars PROVE Inv'
  OBVIOUS
<1>0. TInv /\ ReqInv
  BY DEF Inv
<1>1. CASE Next
  <2>1. CgiAnnounced
    BY <1>0 DEF ReqInv, RequestInv, Route, CgiAnnounced
  <2>2. TInv'
    BY <1>0, <1>1, <2>1, TypeStep
  <2>3. ASSUME NEW q \in Requests PROVE RequestInv(q)'
    <3>1. RequestInv(q)
      BY <1>0 DEF ReqInv
    <3>2. CASE AcceptFails \/ \E r \in Requests : HangUp(r)
      BY <1>0, <3>1, <3>2, OtherFrame, Frame
    <3>3. ASSUME NEW r \in Requests, server = "runs", Thread(r)
          PROVE  RequestInv(q)'
      BY <1>0, <3>1, <3>3, ThreadFrame, ThreadKeeps, Frame
    <3>4. ASSUME NEW r \in Requests, Child(r)
          PROVE  RequestInv(q)'
      BY <1>0, <3>1, <3>4, ChildFrame, ChildKeeps, Frame
    <3> QED
      BY <1>1, <3>2, <3>3, <3>4 DEF Next
  <2> QED
    BY <2>2, <2>3 DEF Inv, ReqInv
<1>2. CASE UNCHANGED vars
  <2>1. UNCHANGED <<kind, limit, gone, server, held, input, output, pc, i, c, received, outcome,
                    childPc, taken, put, called>>
    BY <1>2 DEF vars, clientVars, pipeVars, localVars, childVars
  <2>2. Control' /\ Counted' /\ Carried'
    BY <1>0, <2>1 DEF TInv, Control, Counted, Carried
  <2>3. Holding'
    BY <1>0, <2>1 DEF TInv, Holding, FdsLeft
  <2>4. ASSUME NEW q \in Requests PROVE RequestInv(q)'
    <3>1. Same(q) /\ RequestInv(q)
      BY <1>0, <2>1 DEF Same, Has, ReqInv
    <3> QED
      BY <3>1, Frame
  <2> QED
    BY <2>2, <2>3, <2>4 DEF Inv, TInv, ReqInv
<1> QED
  BY <1>1, <1>2

LEMMA AlwaysInv == Spec => []Inv
<1> QED
  BY InitInv, StepInv, PTL DEF Spec

\* For any requests, limits and size of a pipe the variables have their types,
\* the server never has more open than it can, and no pipe holds more than it
\* can (lines 280-383).
THEOREM TypeCorrect == Spec => []TypeOK
<1>1. Inv => TypeOK
  <2> SUFFICES ASSUME Inv PROVE TypeOK
    OBVIOUS
  <2> QED
    BY DEF Inv, TInv, Control, Counted, Carried, Holding, TypeOK, Labels, ChildLabels
<1> QED
  BY <1>1, AlwaysInv, PTL

\* Once its thread has read to the end of a child's output the client has been
\* sent all of what the child writes, and the child has written all of it: the
\* end is not seen early, as the child holds the end it writes to while it lives,
\* and the child is not cut short, as the server holds the end it reads from
\* until it has seen the end, whatever the children of other requests hold.
THEOREM WholePage == Spec => []PageWhole
<1>1. Inv => PageWhole
  <2> SUFFICES ASSUME Inv, NEW r \in Requests, server = "runs", Forked(r),
                      pc[r] \in {"waitpid", "close", "done"}
               PROVE  received[r] = put[r] /\ put[r] = Output(r)
    BY DEF PageWhole
  <2>1. OutputFlow(r) /\ received[r] \in Nat
    BY DEF Inv, ReqInv, RequestInv, TInv, Counted
  <2>2. output[r] = 0 /\ put[r] = Output(r) /\ put[r] = received[r] + output[r]
    BY <2>1 DEF OutputFlow, Over, Forked
  <2> QED
    BY <2>1, <2>2
<1> QED
  BY <1>1, AlwaysInv, PTL

\* The C code is called with a beginning of its own client's body, for any number
\* of requests whose pipes the server holds at the same time, any lengths and any
\* size of a pipe.
THEOREM OwnContent == Spec => []ContentIsOwn
<1>1. Inv => ContentIsOwn
  BY DEF Inv, ReqInv, RequestInv, Content, ContentIsOwn, BodyByte
<1> QED
  BY <1>1, AlwaysInv, PTL

\* With all threads through the server holds what error paths have leaked and
\* nothing else.
THEOREM ReturnsDescriptors == Spec => []DescriptorsReturned
<1>1. Inv => DescriptorsReturned
  <2> SUFFICES ASSUME Inv, server = "runs", \A r \in Requests : pc[r] \in {"none", "done"}
               PROVE  held[Server] = UNION {Leaked(r) : r \in {q \in Requests : pc[q] = "done"}}
    BY DEF DescriptorsReturned
  <2>1. held[Server] \subseteq Ends
    BY DEF Inv, TInv, Holding, Processes
  <2>2. ASSUME NEW r \in Requests, NEW e \in {"client", "outR", "outW", "inR", "inW"}
        PROVE  Has(r, e) <=> pc[r] = "done" /\ <<r, e>> \in Leaked(r)
    <3>1. ServerEnds(r) /\ Route(r) /\ pc[r] \in {"none", "done"}
      BY DEF Inv, ReqInv, RequestInv
    <3>2. outcome[r] \in {"fine", "cgi_output", "cgi_input", "fork"}
      BY DEF Inv, TInv, Control
    <3>3. outcome[r] # "fine" => kind[r].page = "cgi" /\ pc[r] = "done"
      BY <3>1 DEF Route
    <3>4. CASE e = "client"
      BY <3>1, <3>2, <3>3, <3>4 DEF ServerEnds, Leaked
    <3>5. CASE e = "outR" \/ e = "outW"
      BY <3>1, <3>2, <3>3, <3>5 DEF ServerEnds, Leaked, Piped
    <3>6. CASE e = "inR" \/ e = "inW"
      BY <3>1, <3>2, <3>3, <3>6 DEF ServerEnds, Leaked, Piped
    <3> QED
      BY <3>4, <3>5, <3>6
  <2>3. ASSUME NEW r \in Requests, NEW x \in Leaked(r)
        PROVE  \E e \in {"client", "outR", "outW", "inR", "inW"} : x = <<r, e>>
    BY DEF Leaked
  <2>4. ASSUME NEW x \in held[Server]
        PROVE  x \in UNION {Leaked(r) : r \in {q \in Requests : pc[q] = "done"}}
    <3>1. PICK r \in Requests, e \in {"client", "outR", "outW", "inR", "inW"} : x = <<r, e>>
      BY <2>1 DEF Ends
    <3>2. pc[r] = "done" /\ x \in Leaked(r)
      BY <2>2, <3>1 DEF Has
    <3> QED
      BY <3>2
  <2>5. ASSUME NEW r \in Requests, pc[r] = "done", NEW x \in Leaked(r)
        PROVE  x \in held[Server]
    <3>1. PICK e \in {"client", "outR", "outW", "inR", "inW"} : x = <<r, e>>
      BY <2>3
    <3> QED
      BY <2>2, <2>5, <3>1 DEF Has
  <2> QED
    BY <2>4, <2>5
<1> QED
  BY <1>1, AlwaysInv, PTL
-----------------------------------------------------------------------------
(***************************************************************************)
(* What keeps the server alive.                                            *)
(***************************************************************************)

\* Where there are enough descriptors none is missing, and fopen() does not fail.
Gentleness ==
  /\ Enough => \A r \in Requests : pc[r] # "fclose"
  /\ GentleKeepsServer

LEMMA EnoughIsEnough ==
  ASSUME TInv, Enough
  PROVE  FdsLeft > 0
<1>1. held[Server] \in SUBSET Ends
  BY DEF TInv, Holding, Processes
<1>2. Cardinality(held[Server]) <= Cardinality(Ends) /\ Cardinality(held[Server]) \in Nat
  BY <1>1, EndsFinite, FS_Subset, FS_CardinalityType
<1>3. Cardinality(held[Server]) <= 5 * Cardinality(Requests)
  BY <1>2, EndsFinite
<1>4. 5 * Cardinality(Requests) \in Nat
  BY EndsFinite
<1>5. limit.fds \in Nat
  BY CgiAssumption DEF TInv, Control
<1> QED
  BY <1>2, <1>3, <1>4, <1>5 DEF Enough, FdsLeft

\* When a thread of a gentle request writes, its child is there to read.
LEMMA SomeoneReads ==
  ASSUME Inv, NEW r \in Requests, server = "runs", pc[r] = "write", Gentle(kind[r]), gone = {}
  PROVE  ~Nobody(r, "inR")
<1>0. RequestInv(r) /\ childPc[r] \in ChildLabels
  BY DEF Inv, ReqInv, TInv, Control
<1>1. kind[r].page = "cgi" /\ childPc[r] # "none"
  BY <1>0 DEF RequestInv, Route, WithChild, Cgi, Piped
<1>2. i[r] > 0 /\ i[r] <= kind[r].announced /\ i[r] \in Nat /\ taken[r] \in Nat
      /\ Len(input[r]) \in Nat /\ kind[r].announced \in Int
  <2>1. i[r] > 0
    BY <1>0 DEF RequestInv, InputFlow
  <2>2. i[r] <= kind[r].announced
    BY <1>0, <2>1 DEF RequestInv, InputFlow
  <2>3. i[r] \in Nat /\ taken[r] \in Nat /\ Len(input[r]) \in Nat
    BY DEF Inv, TInv, Counted, Carried
  <2>4. kind[r].announced \in Int
    BY KindType DEF Inv, TInv
  <2> QED
    BY <2>1, <2>2, <2>3, <2>4
<1>3. ~(kind[r].announced <= 0)
  BY <1>2
<1>4. CASE kind[r].program \in {"counts", "echoes"}
  <2>1. taken[r] + Len(input[r]) = i[r] - 1
    BY <1>0, <1>4 DEF RequestInv, InputFlow, Written
  <2>2. ~(taken[r] >= kind[r].announced)
    <3>1. \A t, l, n \in Nat, a \in Int : t + l = n - 1 /\ n <= a => ~(t >= a)
      OBVIOUS
    <3> QED
      BY <1>2, <2>1, <3>1
  <2>3. childPc[r] \in {"dup2", "runs"}
    BY <1>0, <1>4, <2>2 DEF RequestInv, StaysForInput
  <2>4. <<r, "inR">> \in held[r]
    BY <1>0, <2>3 DEF RequestInv, ChildEnds, Alive
  <2> QED
    BY <2>4 DEF Nobody, Processes
<1>5. CASE kind[r].program = "C" /\ kind[r].announced = 1
  <2>1. childPc[r] = "C"
    BY <1>0, <1>5 DEF RequestInv, StaysForInput
  <2>2. <<r, "inR">> \in held[r]
    BY <1>0, <2>1 DEF RequestInv, ChildEnds, Alive
  <2> QED
    BY <2>2 DEF Nobody, Processes
<1> QED
  BY <1>1, <1>3, <1>4, <1>5 DEF Gentle

LEMMA GentleStep == Inv /\ Gentleness /\ [Next]_vars => Gentleness'
<1> SUFFICES ASSUME Inv, Gentleness, [Next]_vars PROVE Gentleness'
  OBVIOUS
<1>0. TInv /\ pc \in [Requests -> Labels]
  BY DEF Inv, TInv, Control
<1>1. UNCHANGED <<kind, limit>> /\ gone \subseteq gone'
  <2>1. CASE Next
    BY <2>1, ThreadShape, ChildShape, OtherShape DEF Next
  <2> QED
    BY <2>1 DEF vars, clientVars
<1>2. (Enough' <=> Enough) /\ (AllGentle' <=> AllGentle) /\ (gone' = {} => gone = {})
  BY <1>1 DEF Enough, AllGentle, Gentle
<1>3. ASSUME Enough PROVE \A r \in Requests : pc'[r] # "fclose"
  <2>1. FdsLeft > 0 /\ \A r \in Requests : pc[r] # "fclose"
    BY <1>0, <1>3, EnoughIsEnough DEF Gentleness
  <2>2. ASSUME NEW r \in Requests, NEW q \in Requests, Thread(r) PROVE pc'[q] # "fclose"
    BY <1>0, <2>1, <2>2
    DEF Thread, Accept, ErrorPage, ServeFile, CloseNull, Close, SendOk, Pipe, PipeOutput,
        PipeInput, Fork, CannotExecute, CloseEnds, CloseEnd, Recv, BodyDone, Write, Read, ReadEnd,
        Waitpid, Goto
  <2>3. CASE Next
    BY <2>1, <2>2, <2>3, ChildShape, OtherShape DEF Next
  <2> QED
    BY <2>1, <2>3 DEF vars
<1>4. ASSUME AllGentle, Enough, gone = {}
      PROVE  server' = "runs"
  <2>1. server = "runs" /\ FdsLeft > 0 /\ \A r \in Requests : pc[r] # "fclose"
    BY <1>0, <1>4, EnoughIsEnough DEF Gentleness, GentleKeepsServer
  <2>2. ~AcceptFails
    <3>1. FdsLeft > 0 => FdsLeft # 0
      BY <1>0, EndsFinite
    <3> QED
      BY <2>1, <3>1 DEF AcceptFails
  <2>3. ASSUME NEW r \in Requests, Thread(r) PROVE server' = "runs"
    <3>1. CASE Write(r)
      <4>1. pc[r] = "write" /\ Gentle(kind[r])
        BY <1>4, <3>1 DEF Write, AllGentle
      <4>2. ~Nobody(r, "inR")
        BY <1>4, <2>1, <4>1, SomeoneReads
      <4> QED
        BY <2>1, <3>1, <4>2 DEF Write
    <3>2. CASE Thread(r) /\ ~Write(r)
      BY <1>4, <2>1, <3>2
      DEF Thread, Accept, ErrorPage, ServeFile, CloseNull, Close, SendOk, Pipe, PipeOutput,
          PipeInput, Fork, CannotExecute, CloseEnds, CloseEnd, Recv, BodyDone, Read, ReadEnd,
          Waitpid, Send
    <3> QED
      BY <2>3, <3>1, <3>2
  <2>4. CASE Next
    <3>1. ASSUME NEW r \in Requests, HangUp(r) PROVE server' = "runs"
      BY <2>1, <3>1 DEF HangUp
    <3> QED
      BY <2>1, <2>2, <2>3, <2>4, <3>1, ChildShape DEF Next
  <2> QED
    BY <2>1, <2>4 DEF vars
<1> QED
  BY <1>2, <1>3, <1>4 DEF Gentleness, GentleKeepsServer

\* With descriptors for all of them, requests whose child leaves no input unread,
\* of clients that stay, do not end the server: no descriptor is missing, and
\* whenever a thread writes to its child someone can still read, because the
\* child has not had all that is announced.
THEOREM GentleKeeps == Spec => []GentleKeepsServer
<1>1. Init => Gentleness
  BY DEF Init, Gentleness, GentleKeepsServer
<1>2. Gentleness => GentleKeepsServer
  BY DEF Gentleness
<1> QED
  BY <1>1, <1>2, AlwaysInv, GentleStep, PTL DEF Spec
================================================================================

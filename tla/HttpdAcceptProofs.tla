--------------------------- MODULE HttpdAcceptProofs ---------------------------
(***************************************************************************)
(* Theorems about HttpdAccept.tla, for any clients, who may come and go as *)
(* they like, any number of descriptors and of threads.                    *)
(***************************************************************************)
EXTENDS HttpdAccept, FiniteSetTheorems, SequenceTheorems, TLAPS

\* As much of the types as the proof needs.
Typed ==
  /\ unread \subseteq Clients
  /\ backlog \in Seq(Clients)
  /\ fds \in [Fds -> Clients \cup {Free}]
  /\ pc \in [Threads -> {"none", "start", "read", "wait", "unimplemented", "answer",
                         "close", "done"}]
  /\ client \in [Threads -> Fds \cup {-1}]
  /\ got \in [Threads -> Clients \cup {Free}]

\* Whoever follows the pointer to client_sock finds a descriptor, and so does
\* whoever uses its copy.
SocketSet ==
  /\ mainPc = "create" \/ (\E t \in Threads : pc[t] # "none") => client_sock \in Fds
  /\ \A t \in Threads : pc[t] \notin {"none", "start"} => client[t] \in Fds

\* A request is read by one thread only.
ReadOnce ==
  \A t \in Threads : pc[t] \in {"answer", "close"} =>
    /\ got[t] \in Clients \ unread
    /\ \A u \in Threads : pc[u] \in {"answer", "close"} /\ got[u] = got[t] => u = t

IInv == Typed /\ SocketSet /\ ReadOnce /\ AnswersWhoAsked

\* The invariant holds in the beginning: there are no threads.
LEMMA InitInv == Init => IInv
<1> SUFFICES ASSUME Init PROVE IInv
  OBVIOUS
<1>1. Typed
  BY DEF Init, Typed
<1>2. SocketSet /\ ReadOnce /\ AnswersWhoAsked
  BY DEF Init, SocketSet, ReadOnce, AnswersWhoAsked
<1> QED
  BY <1>1, <1>2 DEF IInv

\* httpdMain() keeps the invariant: accept() gives out descriptors that are free,
\* which those of the threads that serve someone are not.
LEMMA MainInv == IInv /\ HttpdMain => IInv'
<1> SUFFICES ASSUME IInv, HttpdMain PROVE IInv'
  OBVIOUS
<1>1. CASE AcceptConnection
  <2>1. PICK f \in FreeFds : client_sock' = f /\ fds' = [fds EXCEPT ![f] = Head(backlog)]
    BY <1>1 DEF AcceptConnection
  <2>2. f \in Fds /\ fds[f] = Free
    BY DEF FreeFds
  <2>3. Head(backlog) \in Clients /\ Tail(backlog) \in Seq(Clients)
    BY <1>1 DEF AcceptConnection, IInv, Typed
  <2>4. UNCHANGED <<method, unread, threadVars>> /\ backlog' = Tail(backlog)
    BY <1>1 DEF AcceptConnection
  <2>5. Typed'
    BY <2>1, <2>2, <2>3, <2>4 DEF IInv, Typed, threadVars
  <2>6. SocketSet' /\ ReadOnce'
    BY <2>1, <2>2, <2>4 DEF IInv, SocketSet, ReadOnce, threadVars
  <2>7. AnswersWhoAsked'
    <3> SUFFICES ASSUME NEW t \in Threads, pc[t] = "close" \/ (pc[t] = "answer" /\ Known(t))
                 PROVE  fds'[client[t]] = got[t]
      BY <2>4 DEF AnswersWhoAsked, Known, threadVars
    <3>1. fds[client[t]] = got[t] /\ got[t] \in Clients /\ client[t] \in Fds
      BY DEF IInv, AnswersWhoAsked, ReadOnce, SocketSet
    <3> QED
      BY <2>1, <2>2, <3>1, AcceptAssumption DEF IInv, Typed
  <2> QED
    BY <2>5, <2>6, <2>7 DEF IInv
<1>2. CASE AcceptFails \/ CreateFails
  <2>1. UNCHANGED <<method, unread, backlog, client_sock, fds, threadVars>>
        /\ mainPc' \in {"dead", "accept"}
    BY <1>2 DEF AcceptFails, CreateFails, clientVars
  <2> QED
    BY <2>1 DEF IInv, Typed, SocketSet, ReadOnce, AnswersWhoAsked, Known, threadVars
<1>3. CASE CreateThread
  <2>1. PICK n : pc' = [pc EXCEPT ![n] = "start"]
    BY <1>3 DEF CreateThread, Goto
  <2>2. UNCHANGED <<method, unread, backlog, client_sock, fds, client, got>>
    BY <1>3 DEF CreateThread, clientVars
  <2>3. client_sock \in Fds
    BY <1>3 DEF CreateThread, IInv, SocketSet
  <2>4. Typed'
    BY <2>1, <2>2 DEF IInv, Typed
  <2>5. \A t \in Threads : pc'[t] = pc[t] \/ pc'[t] = "start"
    BY <2>1 DEF IInv, Typed
  <2> QED
    BY <2>2, <2>3, <2>4, <2>5 DEF IInv, SocketSet, ReadOnce, AnswersWhoAsked, Known
<1> QED
  BY <1>1, <1>2, <1>3 DEF HttpdMain

\* A thread keeps the invariant: what it reads nobody else has read, and what it
\* closes nobody else is serving.
LEMMA ThreadInv == ASSUME NEW t \in Threads, IInv, Thread(t) PROVE IInv'
<1>1. CASE CopySocket(t)
  <2>1. client_sock \in Fds
    BY <1>1 DEF CopySocket, IInv, SocketSet
  <2>2. UNCHANGED <<clientVars, mainVars, fds, got>>
        /\ client' = [client EXCEPT ![t] = client_sock] /\ pc' = [pc EXCEPT ![t] = "read"]
    BY <1>1 DEF CopySocket, Goto
  <2>3. Typed'
    BY <2>1, <2>2 DEF IInv, Typed, clientVars, mainVars, acceptVars
  <2>4. \A u \in Threads : IF u = t THEN pc'[u] = "read" /\ client'[u] \in Fds
                            ELSE pc'[u] = pc[u] /\ client'[u] = client[u]
    BY <2>1, <2>2 DEF IInv, Typed
  <2>5. SocketSet'
    BY <2>1, <2>2, <2>4 DEF IInv, SocketSet, mainVars, acceptVars
  <2>6. ReadOnce' /\ AnswersWhoAsked'
    BY <2>2, <2>4 DEF IInv, ReadOnce, AnswersWhoAsked, Known, clientVars
  <2> QED
    BY <2>3, <2>5, <2>6 DEF IInv
<1>2. CASE ReadRequest(t)
  <2> DEFINE c == fds[client[t]]
  <2>1. /\ pc[t] = "read" /\ c \in unread /\ unread' = unread \ {c}
        /\ got' = [got EXCEPT ![t] = c] /\ pc' = [pc EXCEPT ![t] = "answer"]
        /\ UNCHANGED <<method, mainVars, fds, client>>
    BY <1>2 DEF ReadRequest, Goto
  <2>2. client[t] \in Fds /\ c \in Clients
    BY <2>1 DEF IInv, Typed, SocketSet
  <2> QED
    BY <2>1, <2>2
    DEF IInv, Typed, SocketSet, ReadOnce, AnswersWhoAsked, Known, mainVars, acceptVars
<1>3. CASE \E u \in Threads : ReadPart(t, u)
  <2>1. PICK u \in Threads : ReadPart(t, u)
    BY <1>3
  <2>2. /\ pc[t] = "read" /\ pc[u] = "read" /\ unread' \subseteq unread
        /\ pc' = [pc EXCEPT ![t] = "unimplemented", ![u] = "unimplemented"]
        /\ UNCHANGED <<method, mainVars, fds, client, got>>
    BY <2>1 DEF ReadPart
  <2> QED
    BY <2>2 DEF IInv, Typed, SocketSet, ReadOnce, AnswersWhoAsked, Known, mainVars, acceptVars
<1>4. CASE ReadNothing(t)
  <2>1. /\ pc[t] = "read" /\ got' = [got EXCEPT ![t] = fds[client[t]]]
        /\ pc' = [pc EXCEPT ![t] = "wait"]
        /\ UNCHANGED <<clientVars, mainVars, fds, client>>
    BY <1>4 DEF ReadNothing, Goto
  <2>2. fds[client[t]] \in Clients \cup {Free}
    BY <2>1 DEF IInv, Typed, SocketSet
  <2> QED
    BY <2>1, <2>2
    DEF IInv, Typed, SocketSet, ReadOnce, AnswersWhoAsked, Known, clientVars, mainVars,
        acceptVars
<1>5. CASE ReadEnd(t)
  <2>1. /\ pc[t] \in {"wait", "read"} /\ pc' = [pc EXCEPT ![t] = "unimplemented"]
        /\ UNCHANGED <<clientVars, mainVars, fds, client, got>>
    BY <1>5 DEF ReadEnd, Goto
  <2> QED
    BY <2>1
    DEF IInv, Typed, SocketSet, ReadOnce, AnswersWhoAsked, Known, clientVars, mainVars,
        acceptVars
<1>6. CASE Unimplemented(t) \/ Answer(t)
  <2>1. /\ UNCHANGED <<method, unread, acceptVars, fds, client, got>>
        /\ mainPc' \in {mainPc, "dead"}
        /\ \/ pc' = [pc EXCEPT ![t] = "done"] /\ pc[t] \in {"unimplemented", "answer"}
           \/ pc' = [pc EXCEPT ![t] = "close"] /\ pc[t] = "answer" /\ Known(t)
    BY <1>6 DEF Unimplemented, Answer, Send, Goto
  <2> QED
    BY <2>1 DEF IInv, Typed, SocketSet, ReadOnce, AnswersWhoAsked, Known, acceptVars
<1>7. CASE Close(t)
  <2>1. /\ pc[t] = "close" /\ pc' = [pc EXCEPT ![t] = "done"]
        /\ fds' = [fds EXCEPT ![client[t]] = Free]
        /\ UNCHANGED <<clientVars, mainVars, client, got>>
    BY <1>7 DEF Close, Goto
  <2>2. Typed' /\ SocketSet' /\ ReadOnce'
    BY <2>1
    DEF IInv, Typed, SocketSet, ReadOnce, clientVars, mainVars, acceptVars
  <2>3. AnswersWhoAsked'
    <3> SUFFICES ASSUME NEW u \in Threads, u # t,
                        pc[u] = "close" \/ (pc[u] = "answer" /\ Known(u))
                 PROVE  fds'[client[u]] = got[u]
      BY <2>1 DEF AnswersWhoAsked, Known, IInv, Typed, clientVars
    <3>1. fds[client[u]] = got[u] /\ fds[client[t]] = got[t] /\ got[u] # got[t]
      BY <2>1 DEF IInv, AnswersWhoAsked, ReadOnce
    <3>2. client[u] \in Fds /\ client[u] # client[t]
      BY <3>1 DEF IInv, SocketSet
    <3> QED
      BY <2>1, <3>1, <3>2 DEF IInv, Typed
  <2> QED
    BY <2>2, <2>3 DEF IInv
<1> QED
  BY <1>1, <1>2, <1>3, <1>4, <1>5, <1>6, <1>7 DEF Thread

\* The clients keep it: they touch no thread and no descriptor.
LEMMA ClientInv == ASSUME NEW c \in Clients, IInv, Connect(c) \/ Leave(c) PROVE IInv'
<1>1. backlog' \in Seq(Clients)
  <2>1. backlog \in Seq(Clients)
    BY DEF IInv, Typed
  <2>2. backlog' = Append(backlog, c) \/ UNCHANGED backlog
    BY DEF Connect, Leave, mainVars, acceptVars
  <2> QED
    BY <2>1, <2>2
<1>2. UNCHANGED <<method, unread, mainPc, client_sock, fds, threadVars>>
  BY DEF Connect, Leave, mainVars, acceptVars
<1> QED
  BY <1>1, <1>2 DEF IInv, Typed, SocketSet, ReadOnce, AnswersWhoAsked, Known, threadVars

\* Every step keeps the invariant.
LEMMA NextInv == IInv /\ [Next]_vars => IInv'
<1> SUFFICES ASSUME IInv, [Next]_vars PROVE IInv'
  OBVIOUS
<1>1. CASE UNCHANGED vars
  BY <1>1
  DEF IInv, Typed, SocketSet, ReadOnce, AnswersWhoAsked, Known, vars, clientVars, mainVars,
      acceptVars, threadVars
<1>2. CASE Next
  BY <1>2, MainInv, ThreadInv, ClientInv DEF Next
<1> QED
  BY <1>1, <1>2

\* A thread that has read a request answers and closes the connection it came on,
\* although threads share descriptors and descriptors are given out again.
THEOREM AnswersAsker == Spec => []AnswersWhoAsked
<1>1. IInv => AnswersWhoAsked
  BY DEF IInv
<1> QED
  BY <1>1, InitInv, NextInv, PTL DEF Spec

-----------------------------------------------------------------------------
(***************************************************************************)
(* The types of the other variables.                                       *)
(***************************************************************************)

TypedRest ==
  /\ setting \in Settings
  /\ state \in [Clients -> {"away", "waiting", "open", "answered", "gone"}]
  /\ method \in [Clients -> Methods]
  /\ mainPc \in {"accept", "create", "dead"}
  /\ client_sock \in Fds \cup {-1}
  /\ created \in 0 .. setting.threads

\* The limit of threads of a setting is one the module allows for.
LEMMA SettingShape ==
  ASSUME TypedRest
  PROVE  setting.threads \in 0 .. MaxThreads /\ setting.atOnce \in Nat
BY AcceptAssumption DEF TypedRest

\* Every step keeps these types.
LEMMA StepRest == ASSUME TypedRest, [Next]_vars PROVE TypedRest'
<1>1. UNCHANGED <<setting, method>>
  BY DEF Next, vars, clientVars, HttpdMain, AcceptConnection, AcceptFails, CreateThread,
         CreateFails, Thread, CopySocket, ReadRequest, ReadPart, ReadNothing, ReadEnd,
         Unimplemented, Answer, Close, Connect, Leave
<1>2. state' \in [Clients -> {"away", "waiting", "open", "answered", "gone"}]
  <2>2. CASE AcceptConnection
    BY <2>2 DEF TypedRest, AcceptConnection
  <2>3. CASE \E d \in Clients : Connect(d) \/ Leave(d)
    BY <2>3 DEF TypedRest, Connect, Leave
  <2>4. CASE UNCHANGED state
    BY <2>4 DEF TypedRest
  <2>5. ASSUME NEW t \in Threads, Unimplemented(t) \/ Answer(t)
        PROVE  state' \in [Clients -> {"away", "waiting", "open", "answered", "gone"}]
    BY <2>5 DEF TypedRest, Unimplemented, Answer, Send
  <2>6. ASSUME NEW t \in Threads, Thread(t), ~(Unimplemented(t) \/ Answer(t))
        PROVE  UNCHANGED state
    BY <2>6
    DEF Thread, CopySocket, ReadRequest, ReadPart, ReadNothing, ReadEnd, Close, clientVars
  <2>7. AcceptFails \/ CreateThread \/ CreateFails \/ UNCHANGED vars => UNCHANGED state
    BY DEF AcceptFails, CreateThread, CreateFails, clientVars, vars
  <2> QED
    BY <2>2, <2>3, <2>4, <2>5, <2>6, <2>7 DEF Next, HttpdMain
<1>3. mainPc' \in {"accept", "create", "dead"}
  BY DEF TypedRest, Next, vars, mainVars, HttpdMain, AcceptConnection, AcceptFails,
         CreateThread, CreateFails, Thread, CopySocket, ReadRequest, ReadPart, ReadNothing,
         ReadEnd, Unimplemented, Answer, Send, Close, Connect, Leave
<1>4. client_sock' \in Fds \cup {-1}
  BY DEF TypedRest, Next, vars, mainVars, acceptVars, HttpdMain, AcceptConnection, FreeFds,
         AcceptFails, CreateThread, CreateFails, Thread, CopySocket, ReadRequest, ReadPart,
         ReadNothing, ReadEnd, Unimplemented, Answer, Close, Connect, Leave
<1>5. created' \in 0 .. setting.threads
  <2>1. CreateThread \/ UNCHANGED created
    BY DEF Next, vars, mainVars, acceptVars, HttpdMain, AcceptConnection,
         AcceptFails, CreateFails, Thread, CopySocket, ReadRequest, ReadPart,
         ReadNothing, ReadEnd, Unimplemented, Answer, Close, Connect, Leave
  <2> QED
    BY <2>1, SettingShape DEF TypedRest, CreateThread
<1> QED
  BY <1>1, <1>2, <1>3, <1>4, <1>5 DEF TypedRest

\* The variables have these types in the beginning.
LEMMA InitRest == Init => TypedRest
BY AcceptAssumption DEF Init, TypedRest

\* The server's variables stay within their types: no thread ever works with a
\* descriptor that accept() has not returned, and no more threads are created than
\* the system allows.
THEOREM TypeCorrect == Spec => []TypeOK
<1>1. IInv /\ TypedRest => TypeOK
  BY DEF IInv, Typed, TypedRest, TypeOK
<1>2. TypedRest /\ [Next]_vars => TypedRest'
  BY StepRest
<1> QED
  BY <1>1, <1>2, InitInv, NextInv, InitRest, PTL DEF Spec

-----------------------------------------------------------------------------
(***************************************************************************)
(* Orderly clients.                                                        *)
(***************************************************************************)

\* The descriptor a thread works with, or will once it has followed the pointer.
Descriptor(t) == IF pc[t] = "start" THEN client_sock ELSE client[t]

InService == {"start", "read", "answer"}

\* One client is connected at a time, and waits while it is in the backlog.
OneAtATime ==
  /\ \A c, d \in Connected : c = d
  /\ \A c \in Clients : state[c] \in {"away", "waiting"} => c \in unread
  /\ backlog # << >> => Len(backlog) = 1 /\ state[Head(backlog)] = "waiting"

\* One thread at a time has a client that waits for its answer, whose request
\* nobody else reads.
OneServed ==
  /\ mainPc = "create" => fds[client_sock] \in unread /\ state[fds[client_sock]] = "open"
  /\ \A t \in Threads : pc[t] \in InService =>
       /\ mainPc = "accept"
       /\ state[fds[Descriptor(t)]] = "open"
       /\ \A u \in Threads : pc[u] \in InService => u = t
       /\ IF pc[t] = "answer" THEN got[t] = fds[client[t]] ELSE fds[Descriptor(t)] \in unread
  /\ \A t \in Threads : pc[t] \notin {"wait", "unimplemented"}
  /\ \A t \in Threads : t > created => pc[t] = "none"

Served == {c \in Clients : state[c] \notin {"away", "waiting"}}

\* Every client that was accepted has a thread, or is about to get it.
EachHasThread == created + (IF mainPc = "create" THEN 1 ELSE 0) = Cardinality(Served)

\* A descriptor that is open is one a thread will close, or its client's method
\* is unknown.
HeldForSomeone ==
  \A f \in Fds : fds[f] # Free /\ method[fds[f]] # "other" =>
    \/ mainPc = "create" /\ f = client_sock
    \/ \E t \in Threads : pc[t] \in InService \cup {"close"} /\ f = Descriptor(t)

OrderlyInv == OneAtATime /\ OneServed /\ EachHasThread /\ HeldForSomeone

\* What the lemmas below start from.
OrderlyState == IInv /\ TypedRest /\ Orderly /\ mainPc # "dead" /\ OrderlyInv

\* A thread in service has a client, which waits for its answer.
LEMMA ServedByThread ==
  ASSUME OrderlyState, NEW t \in Threads, pc[t] \in InService
  PROVE  fds[Descriptor(t)] \in Clients /\ state[fds[Descriptor(t)]] = "open"
<1>1. OneServed /\ ReadOnce /\ unread \subseteq Clients
  BY DEF OrderlyState, OrderlyInv, IInv, Typed
<1>2. state[fds[Descriptor(t)]] = "open"
  BY <1>1 DEF OneServed
<1>3. CASE pc[t] = "answer"
  <2>1. got[t] \in Clients /\ got[t] = fds[client[t]]
    BY <1>1, <1>3 DEF OneServed, ReadOnce, InService
  <2> QED
    BY <1>2, <1>3, <2>1 DEF Descriptor
<1>4. CASE pc[t] # "answer"
  BY <1>1, <1>2, <1>4 DEF OneServed
<1> QED
  BY <1>3, <1>4

\* As many threads can be created as there are clients.
LEMMA ThreadsSuffice ==
  ASSUME OrderlyState, mainPc = "create"
  PROVE  created < setting.threads
<1>1. IsFiniteSet(Clients) /\ Served \subseteq Clients
  BY AcceptAssumption DEF Served
<1>2. Cardinality(Served) <= Cardinality(Clients) /\ Cardinality(Clients) \in Nat
  BY <1>1, FS_Subset, FS_CardinalityType
<1>3. Cardinality(Served) = created + 1 /\ Cardinality(Clients) <= setting.threads
  BY DEF OrderlyState, OrderlyInv, EachHasThread, Orderly
<1>4. created \in Nat /\ setting.threads \in Nat
  BY SettingShape DEF OrderlyState, TypedRest
<1> QED
  BY <1>2, <1>3, <1>4

\* A connection is accepted only when no thread has a client that waits.
LEMMA AcceptOrderly == ASSUME OrderlyState, AcceptConnection PROVE OrderlyInv'
<1> DEFINE d == Head(backlog)
<1>1. backlog \in Seq(Clients) /\ backlog # << >> /\ mainPc = "accept" /\ mainPc' = "create"
  BY DEF AcceptConnection, OrderlyState, IInv, Typed
<1>2. Len(backlog) = 1 /\ d \in Clients /\ state[d] = "waiting" /\ d \in Connected
  BY <1>1 DEF OrderlyState, OrderlyInv, OneAtATime, Connected
<1>3. backlog' = Tail(backlog) /\ backlog' \in Seq(Clients) /\ Len(backlog') = 0
  BY <1>1, <1>2, HeadTailProperties DEF AcceptConnection
<1>4. backlog' = << >>
  BY <1>3, EmptySeq
<1>5. PICK f \in FreeFds : client_sock' = f /\ fds' = [fds EXCEPT ![f] = d]
  BY DEF AcceptConnection
<1>6. f \in Fds /\ fds[f] = Free /\ fds \in [Fds -> Clients \cup {Free}]
  BY DEF FreeFds, OrderlyState, IInv, Typed
<1>7. /\ UNCHANGED <<method, unread, created, pc, client, got>>
      /\ state' = [c \in Clients |-> IF c = d THEN "open" ELSE state[c]]
  BY <1>2 DEF AcceptConnection, threadVars, OrderlyState, TypedRest
<1>8. \A t \in Threads : pc[t] \notin InService
  <2> SUFFICES ASSUME NEW t \in Threads, pc[t] \in InService PROVE FALSE
    OBVIOUS
  <2>1. state[fds[Descriptor(t)]] = "open" /\ fds[Descriptor(t)] \in Clients
    BY ServedByThread
  <2>2. fds[Descriptor(t)] \in Connected
    BY <2>1 DEF Connected
  <2> QED
    BY <1>2, <2>1, <2>2 DEF OrderlyState, OrderlyInv, OneAtATime
<1>9. OneAtATime'
  BY <1>2, <1>4, <1>7 DEF OneAtATime, Connected, OrderlyState, OrderlyInv
<1>10. d \in unread
  BY <1>2 DEF OrderlyState, OrderlyInv, OneAtATime
<1>11. OneServed'
  <2>1. fds'[client_sock'] = d
    BY <1>5, <1>6
  <2> QED
    BY <1>2, <1>7, <1>8, <1>10, <2>1 DEF OneServed, OrderlyState, OrderlyInv
<1>12. EachHasThread'
  <2>1. Served' = Served \cup {d} /\ d \notin Served
    BY <1>2, <1>7 DEF Served
  <2>2. IsFiniteSet(Served)
    BY AcceptAssumption, FS_Subset DEF Served
  <2>3. Cardinality(Served') = Cardinality(Served) + 1
    BY <2>1, <2>2, FS_AddElement
  <2>4. created = Cardinality(Served) /\ Cardinality(Served) \in Nat
    BY <1>1, <2>2, FS_CardinalityType, SettingShape
    DEF OrderlyState, OrderlyInv, EachHasThread, TypedRest
  <2> QED
    BY <1>1, <1>7, <2>3, <2>4 DEF EachHasThread
<1>13. HeldForSomeone'
  <2> SUFFICES ASSUME NEW g \in Fds, g # f, fds[g] # Free, method[fds[g]] # "other"
               PROVE  \E t \in Threads : pc[t] = "close" /\ g = client[t]
    BY <1>1, <1>5, <1>6, <1>7 DEF HeldForSomeone, Descriptor, InService
  <2>1. PICK t \in Threads : pc[t] \in InService \cup {"close"} /\ g = Descriptor(t)
    BY <1>1 DEF OrderlyState, OrderlyInv, HeldForSomeone
  <2>2. pc[t] = "close"
    BY <1>8, <2>1
  <2> QED
    BY <2>1, <2>2 DEF Descriptor
<1> QED
  BY <1>9, <1>11, <1>12, <1>13 DEF OrderlyInv

\* The thread that is created is one there was not, and takes the client over.
LEMMA CreateOrderly == ASSUME OrderlyState, CreateThread PROVE OrderlyInv'
<1>1. /\ mainPc = "create" /\ mainPc' = "accept" /\ created' = created + 1
      /\ pc' = [pc EXCEPT ![created'] = "start"]
      /\ UNCHANGED <<state, method, unread, backlog, client_sock, fds, client, got>>
  BY DEF CreateThread, Goto, clientVars
<1>2. created \in Nat /\ created' \in Threads
  <2>1. created \in Nat /\ setting.threads \in 0 .. MaxThreads
    <3>1. TypedRest
      BY DEF OrderlyState
    <3> QED
      BY <3>1, SettingShape DEF TypedRest
  <2> QED
    BY <1>1, <2>1, ThreadsSuffice, AcceptAssumption DEF Threads
<1>3. pc[created'] = "none" /\ pc \in [Threads -> {"none", "start", "read", "wait",
                                     "unimplemented", "answer", "close", "done"}]
  BY <1>1, <1>2 DEF OrderlyState, OrderlyInv, OneServed, IInv, Typed
<1>4. \A t \in Threads : pc[t] \notin InService
  BY <1>1 DEF OrderlyState, OrderlyInv, OneServed
<1>5. \A t \in Threads : pc'[t] = IF t = created' THEN "start" ELSE pc[t]
  BY <1>1, <1>2, <1>3
<1>6. OneAtATime'
  BY <1>1 DEF OneAtATime, Connected, OrderlyState, OrderlyInv
<1>7. OneServed'
  <2>1. \A t \in Threads : t > created' => pc'[t] = "none"
    BY <1>1, <1>2, <1>5 DEF OrderlyState, OrderlyInv, OneServed, Threads
  <2>2. fds[client_sock] \in unread /\ state[fds[client_sock]] = "open"
    BY <1>1 DEF OrderlyState, OrderlyInv, OneServed
  <2>3. \A t \in Threads : pc'[t] \in InService => t = created'
    BY <1>4, <1>5
  <2>4. \A t \in Threads : pc'[t] \notin {"wait", "unimplemented"}
    BY <1>5 DEF OrderlyState, OrderlyInv, OneServed
  <2> QED
    BY <1>1, <1>2, <1>5, <2>1, <2>2, <2>3, <2>4 DEF OneServed, Descriptor
<1>8. EachHasThread'
  <2>1. Served' = Served
    BY <1>1 DEF Served
  <2>2. created + 1 = Cardinality(Served)
    BY <1>1 DEF OrderlyState, OrderlyInv, EachHasThread
  <2> QED
    BY <1>1, <1>2, <2>1, <2>2 DEF EachHasThread
<1>9. HeldForSomeone'
  <2> SUFFICES ASSUME NEW f \in Fds, fds[f] # Free, method[fds[f]] # "other"
               PROVE  \E t \in Threads : pc'[t] \in InService \cup {"close"}
                                          /\ f = Descriptor(t)'
    BY <1>1 DEF HeldForSomeone
  <2>1. CASE f = client_sock
    BY <1>1, <1>2, <1>5, <2>1 DEF Descriptor, InService
  <2>2. CASE f # client_sock
    <3>1. PICK t \in Threads : pc[t] \in InService \cup {"close"} /\ f = Descriptor(t)
      BY <2>2 DEF OrderlyState, OrderlyInv, HeldForSomeone
    <3>2. pc[t] = "close" /\ t # created'
      BY <1>3, <1>4, <3>1
    <3> QED
      BY <1>1, <1>5, <3>1, <3>2 DEF Descriptor
  <2> QED
    BY <2>1, <2>2
<1> QED
  BY <1>6, <1>7, <1>8, <1>9 DEF OrderlyInv

\* A thread that reads reads all of its client's request, one that answers is the
\* only one to do so, and one that closes closes nobody else's connection.
LEMMA ThreadOrderly ==
  ASSUME OrderlyState, NEW t \in Threads, Thread(t), mainPc' # "dead"
  PROVE  OrderlyInv'
<1> DEFINE Pcs == {"none", "start", "read", "wait", "unimplemented", "answer", "close", "done"}
<1>1. /\ fds \in [Fds -> Clients \cup {Free}] /\ pc \in [Threads -> Pcs]
      /\ client \in [Threads -> Fds \cup {-1}] /\ got \in [Threads -> Clients \cup {Free}]
      /\ unread \subseteq Clients /\ Free \notin Clients
  BY AcceptAssumption DEF OrderlyState, IInv, Typed
<1>2. UNCHANGED <<backlog, client_sock, created, method>> /\ mainPc' = mainPc
  BY DEF Thread, CopySocket, ReadRequest, ReadPart, ReadNothing, ReadEnd, Unimplemented,
         Answer, Send, Close, clientVars, mainVars, acceptVars
<1>3. OneAtATime /\ OneServed /\ EachHasThread /\ HeldForSomeone
  BY DEF OrderlyState, OrderlyInv
<1>4. ASSUME UNCHANGED state PROVE EachHasThread'
  BY <1>2, <1>3, <1>4 DEF EachHasThread, Served
<1>5. CASE CopySocket(t)
  <2>1. /\ pc[t] = "start" /\ client' = [client EXCEPT ![t] = client_sock]
        /\ pc' = [pc EXCEPT ![t] = "read"] /\ UNCHANGED <<state, unread, fds, got>>
    BY <1>5 DEF CopySocket, Goto, clientVars
  <2>2. /\ \A u \in Threads : pc'[u] = IF u = t THEN "read" ELSE pc[u]
        /\ \A u \in Threads : client'[u] = IF u = t THEN client_sock ELSE client[u]
    BY <1>1, <2>1
  <2>3. \A u \in Threads : Descriptor(u)' = Descriptor(u)
    <3> SUFFICES ASSUME NEW u \in Threads PROVE Descriptor(u)' = Descriptor(u)
      OBVIOUS
    <3>1. CASE u = t
      BY <1>2, <2>1, <2>2, <3>1 DEF Descriptor
    <3>2. CASE u # t
      BY <1>2, <2>2, <3>2 DEF Descriptor
    <3> QED
      BY <3>1, <3>2
  <2>4. OneAtATime'
    BY <1>2, <1>3, <2>1 DEF OneAtATime, Connected
  <2>5. OneServed'
    BY <1>2, <1>3, <2>1, <2>2, <2>3 DEF OneServed, InService
  <2>6. HeldForSomeone'
    BY <1>2, <1>3, <2>1, <2>2, <2>3 DEF HeldForSomeone, InService
  <2> QED
    BY <1>4, <2>1, <2>4, <2>5, <2>6 DEF OrderlyInv
<1>6. CASE ReadRequest(t)
  <2> DEFINE d == fds[client[t]]
  <2>1. /\ pc[t] = "read" /\ d \in unread /\ unread' = unread \ {d}
        /\ got' = [got EXCEPT ![t] = d] /\ pc' = [pc EXCEPT ![t] = "answer"]
        /\ UNCHANGED <<state, fds, client>>
    BY <1>6 DEF ReadRequest, Goto
  <2>2. /\ \A u \in Threads : pc'[u] = IF u = t THEN "answer" ELSE pc[u]
        /\ \A u \in Threads : got'[u] = IF u = t THEN d ELSE got[u]
    BY <1>1, <2>1
  <2>3. \A u \in Threads : Descriptor(u)' = Descriptor(u)
    BY <1>2, <2>1, <2>2 DEF Descriptor
  <2>4. state[d] = "open" /\ mainPc = "accept"
    BY <1>3, <2>1 DEF OneServed, InService, Descriptor
  <2>5. OneAtATime'
    BY <1>2, <1>3, <2>1, <2>4 DEF OneAtATime, Connected
  <2>6. OneServed'
    <3>1. \A u \in Threads : pc'[u] \in InService <=> u = t
      BY <1>3, <2>1, <2>2 DEF OneServed, InService
    <3>2. Descriptor(t)' = client[t] /\ got'[t] = fds[client[t]] /\ pc'[t] = "answer"
      BY <1>1, <2>1, <2>2 DEF Descriptor
    <3>3. \A u \in Threads : pc'[u] \notin {"wait", "unimplemented"}
      BY <1>3, <2>2 DEF OneServed
    <3>4. \A u \in Threads : u > created => pc'[u] = "none"
      BY <1>3, <2>1, <2>2 DEF OneServed
    <3> QED
      BY <1>2, <2>1, <2>4, <3>1, <3>2, <3>3, <3>4 DEF OneServed
  <2>7. HeldForSomeone'
    BY <1>2, <1>3, <2>1, <2>2, <2>3 DEF HeldForSomeone, InService
  <2> QED
    BY <1>4, <2>1, <2>5, <2>6, <2>7 DEF OrderlyInv
<1>7. CASE \E u \in Threads : ReadPart(t, u)
  BY <1>3, <1>7 DEF ReadPart, OneServed, InService
<1>8. CASE ReadNothing(t)
  BY <1>3, <1>8 DEF ReadNothing, OneServed, InService, Descriptor
<1>9. CASE ReadEnd(t)
  <2>1. pc[t] = "read" /\ fds[client[t]] = Free
    BY <1>3, <1>9 DEF ReadEnd, OneServed
  <2>2. fds[client[t]] \in unread
    BY <1>3, <2>1 DEF OneServed, InService, Descriptor
  <2> QED
    BY <1>1, <2>1, <2>2
<1>10. CASE Unimplemented(t) \/ Answer(t)
  <2>1. /\ pc[t] = "answer"
        /\ \/ Known(t) /\ pc' = [pc EXCEPT ![t] = "close"]
           \/ ~Known(t) /\ pc' = [pc EXCEPT ![t] = "done"]
        /\ UNCHANGED <<unread, fds, client, got>>
        /\ Send(client[t])
    BY <1>3, <1>10 DEF Unimplemented, Answer, Goto, OneServed
  <2> DEFINE d == got[t]
  <2>2. d = fds[client[t]] /\ state[d] = "open" /\ mainPc = "accept" /\ d \in Clients \ unread
    BY <1>3, <2>1
    DEF OneServed, InService, Descriptor, OrderlyState, IInv, ReadOnce
  <2>3. state' = [c \in Clients |-> IF c = d THEN "answered" ELSE state[c]]
    BY <2>1, <2>2 DEF Send
  <2>4. \A u \in Threads : u # t => pc'[u] = pc[u] /\ pc[u] \notin InService
    BY <1>1, <1>3, <2>1 DEF OneServed, InService
  <2>5. pc'[t] \in {"close", "done"} /\ (pc'[t] = "done" => ~Known(t))
    BY <1>1, <2>1
  <2>6. OneAtATime'
    BY <1>2, <1>3, <2>1, <2>2, <2>3 DEF OneAtATime, Connected, OrderlyState, IInv, Typed
  <2>7. OneServed'
    BY <1>2, <1>3, <2>1, <2>2, <2>4, <2>5 DEF OneServed, InService
  <2>8. EachHasThread'
    <3>1. Served' = Served
      BY <2>2, <2>3 DEF Served
    <3> QED
      BY <1>2, <1>3, <3>1 DEF EachHasThread
  <2>9. HeldForSomeone'
    <3> SUFFICES ASSUME NEW f \in Fds, fds[f] # Free, method[fds[f]] # "other"
                 PROVE  \E u \in Threads : pc'[u] = "close" /\ f = client[u]
      BY <1>2, <2>1 DEF HeldForSomeone, Descriptor, InService
    <3>1. PICK u \in Threads : pc[u] \in InService \cup {"close"} /\ f = Descriptor(u)
      BY <1>3, <2>2 DEF HeldForSomeone
    <3>2. CASE u = t
      <4>1. f = client[t] /\ method[d] # "other" /\ d \in Clients
        BY <2>1, <2>2, <3>1, <3>2 DEF Descriptor
      <4>2. method[d] \in {"GET", "POST", "other"}
        BY <4>1, AcceptAssumption DEF OrderlyState, TypedRest
      <4>3. Known(t)
        BY <4>1, <4>2 DEF Known
      <4> QED
        BY <2>5, <4>1, <4>3
    <3>3. CASE u # t
      BY <2>4, <3>1, <3>3 DEF Descriptor
    <3> QED
      BY <3>2, <3>3
  <2> QED
    BY <2>6, <2>7, <2>8, <2>9 DEF OrderlyInv
<1>11. CASE Close(t)
  <2>1. /\ pc[t] = "close" /\ pc' = [pc EXCEPT ![t] = "done"]
        /\ fds' = [fds EXCEPT ![client[t]] = Free] /\ UNCHANGED <<state, unread, client, got>>
    BY <1>11 DEF Close, Goto, clientVars
  <2>2. fds[client[t]] = got[t] /\ got[t] \in Clients \ unread /\ client[t] \in Fds
    BY <2>1 DEF OrderlyState, IInv, AnswersWhoAsked, ReadOnce, SocketSet
  <2>3. \A u \in Threads : pc'[u] = IF u = t THEN "done" ELSE pc[u]
    BY <1>1, <2>1
  <2>4. \A f \in Fds : fds'[f] = IF f = client[t] THEN Free ELSE fds[f]
    BY <1>1, <2>1
  <2>5. \A u \in Threads : u # t => Descriptor(u)' = Descriptor(u)
    BY <1>2, <2>1, <2>3 DEF Descriptor
  <2>6. ASSUME NEW u \in Threads, pc[u] \in InService
        PROVE  Descriptor(u) \in Fds /\ Descriptor(u) # client[t]
    <3>1. Descriptor(u) \in Fds
      <4>1. /\ (\E v \in Threads : pc[v] # "none") => client_sock \in Fds
            /\ \A v \in Threads : pc[v] \notin {"none", "start"} => client[v] \in Fds
        BY DEF OrderlyState, IInv, SocketSet
      <4>2. CASE pc[u] = "start"
        BY <4>1, <4>2 DEF Descriptor
      <4>3. CASE pc[u] \in {"read", "answer"}
        BY <4>1, <4>3 DEF Descriptor
      <4> QED
        BY <2>6, <4>2, <4>3 DEF InService
    <3>2. CASE pc[u] = "answer"
      <4>1. got[u] # got[t]
        BY <2>1, <3>2 DEF OrderlyState, IInv, ReadOnce
      <4>2. got[u] = fds[client[u]] /\ Descriptor(u) = client[u]
        BY <1>3, <2>6, <3>2 DEF OneServed, Descriptor
      <4> QED
        BY <2>2, <3>1, <4>1, <4>2
    <3>3. CASE pc[u] \in {"start", "read"}
      <4>1. fds[Descriptor(u)] \in unread
        BY <1>3, <2>6, <3>3 DEF OneServed
      <4> QED
        BY <2>2, <3>1, <4>1
    <3> QED
      BY <2>6, <3>1, <3>2, <3>3 DEF InService
  <2>7. mainPc = "create" => client_sock \in Fds /\ client_sock # client[t]
    BY <1>3, <2>2 DEF OneServed, OrderlyState, IInv, SocketSet
  <2>8. OneAtATime'
    BY <1>2, <1>3, <2>1 DEF OneAtATime, Connected
  <2>9. OneServed'
    <3>1. mainPc = "create" => fds'[client_sock] = fds[client_sock]
      BY <2>4, <2>7
    <3>2. \A u \in Threads : pc'[u] \in InService =>
             pc[u] \in InService /\ u # t /\ fds'[Descriptor(u)'] = fds[Descriptor(u)]
      BY <2>3, <2>4, <2>5, <2>6 DEF InService
    <3>3. \A u \in Threads : pc'[u] = "answer" => fds'[client[u]] = fds[client[u]]
      BY <2>1, <2>3, <3>2 DEF InService, Descriptor
    <3> QED
      BY <1>2, <1>3, <2>1, <2>3, <3>1, <3>2, <3>3 DEF OneServed, InService
  <2>10. HeldForSomeone'
    BY <1>2, <1>3, <2>1, <2>3, <2>4, <2>5 DEF HeldForSomeone, InService, Descriptor
  <2> QED
    BY <1>4, <2>1, <2>8, <2>9, <2>10 DEF OrderlyInv
<1> QED
  BY <1>5, <1>6, <1>7, <1>8, <1>9, <1>10, <1>11 DEF Thread

\* A client comes when the one before it has gone, and goes when it has its answer.
LEMMA ClientOrderly ==
  ASSUME OrderlyState, NEW c \in Clients, Connect(c) \/ Leave(c) PROVE OrderlyInv'
<1>1. OneAtATime /\ OneServed /\ EachHasThread /\ HeldForSomeone
  BY DEF OrderlyState, OrderlyInv
<1>2. UNCHANGED <<method, unread, mainPc, client_sock, created, fds, pc, client, got>>
  BY DEF Connect, Leave, mainVars, acceptVars, threadVars
<1>3. state \in [Clients -> {"away", "waiting", "open", "answered", "gone"}]
  BY DEF OrderlyState, TypedRest
<1>4. HeldForSomeone'
  BY <1>1, <1>2 DEF HeldForSomeone, Descriptor
<1>5. ASSUME NEW d \in Clients, state[d] = "open" PROVE state'[d] = "open"
  BY <1>3, <1>5 DEF Connect, Leave, OrderlyState, Orderly
<1>6. OneServed'
  <2>1. \A t \in Threads : pc[t] \in InService => fds[Descriptor(t)] \in Clients
    BY <1>1 DEF OneServed, OrderlyState, IInv, Typed, ReadOnce, InService, Descriptor
  <2>2. mainPc = "create" => fds[client_sock] \in Clients
    BY <1>1 DEF OneServed, OrderlyState, IInv, Typed
  <2> QED
    BY <1>1, <1>2, <1>5, <2>1, <2>2 DEF OneServed, Descriptor
<1>7. EachHasThread'
  <2>1. Served' = Served
    BY <1>3 DEF Served, Connect, Leave, OrderlyState, Orderly
  <2> QED
    BY <1>1, <1>2, <2>1 DEF EachHasThread
<1>8. OneAtATime'
  <2>1. CASE Connect(c)
    <3>1. Connected = {}
      <4>1. IsFiniteSet(Connected) /\ Cardinality(Connected) < 1
        BY <2>1, AcceptAssumption, FS_Subset DEF Connect, Connected, OrderlyState, Orderly
      <4> QED
        BY <4>1, FS_CardinalityType, FS_EmptySet
    <3>2. backlog \in Seq(Clients) /\ backlog' = Append(backlog, c)
      BY <2>1 DEF Connect, OrderlyState, IInv, Typed
    <3>3. backlog = << >>
      <4> SUFFICES ASSUME backlog # << >> PROVE FALSE
        OBVIOUS
      <4>1. Head(backlog) \in Clients /\ state[Head(backlog)] = "waiting"
        BY <1>1, <3>2, HeadTailProperties DEF OneAtATime
      <4> QED
        BY <3>1, <4>1 DEF Connected
    <3>4. Len(backlog') = 1 /\ Head(backlog') = c
      BY <3>2, <3>3, AppendProperties, EmptySeq
    <3>5. state' = [state EXCEPT ![c] = "waiting"] /\ state[c] = "away"
      BY <2>1 DEF Connect
    <3>6. \A d \in Clients : d \in Connected' => d = c
      BY <1>3, <3>1, <3>5 DEF Connected
    <3> QED
      BY <1>1, <1>2, <1>3, <3>4, <3>5, <3>6 DEF OneAtATime, Connected
  <2>2. CASE Leave(c)
    <3>1. state' = [state EXCEPT ![c] = "gone"] /\ state[c] = "answered" /\ backlog' = backlog
      BY <2>2 DEF Leave, OrderlyState, Orderly, mainVars, acceptVars
    <3>2. Connected' \subseteq Connected
      BY <1>3, <3>1 DEF Connected
    <3>3. backlog # << >> => Head(backlog) # c /\ Head(backlog) \in Clients
      BY <1>1, <3>1, HeadTailProperties DEF OneAtATime, OrderlyState, IInv, Typed
    <3> QED
      BY <1>1, <1>2, <1>3, <3>1, <3>2, <3>3 DEF OneAtATime
  <2> QED
    BY <2>1, <2>2
<1> QED
  BY <1>4, <1>6, <1>7, <1>8 DEF OrderlyInv

\* While orderly clients come and the process lives, every step keeps the order.
LEMMA StepOrderly ==
  ASSUME IInv, TypedRest, Orderly /\ mainPc # "dead" => OrderlyInv, [Next]_vars
  PROVE  Orderly' /\ mainPc' # "dead" => OrderlyInv'
<1> SUFFICES ASSUME Orderly', mainPc' # "dead" PROVE OrderlyInv'
  OBVIOUS
<1>1. setting' = setting
  BY DEF Next, vars, clientVars, HttpdMain, AcceptConnection, AcceptFails, CreateThread,
         CreateFails, Thread, CopySocket, ReadRequest, ReadPart, ReadNothing, ReadEnd,
         Unimplemented, Answer, Close, Connect, Leave
<1>2. mainPc # "dead"
  BY DEF Next, vars, mainVars, Connect, Leave
<1>3. OrderlyState
  BY <1>1, <1>2 DEF Orderly, OrderlyState
<1>4. CASE UNCHANGED vars
  BY <1>3, <1>4
  DEF OrderlyState, OrderlyInv, OneAtATime, OneServed, EachHasThread, HeldForSomeone,
      Connected, Served, Descriptor, vars, clientVars, mainVars, acceptVars, threadVars
<1>5. CASE AcceptConnection
  BY <1>3, <1>5, AcceptOrderly
<1>6. CASE CreateThread
  BY <1>3, <1>6, CreateOrderly
<1>7. CASE AcceptFails \/ CreateFails
  BY <1>3, <1>7, ThreadsSuffice, SettingShape DEF AcceptFails, CreateFails, TypedRest
<1>8. CASE \E t \in Threads : Thread(t)
  BY <1>3, <1>8, ThreadOrderly
<1>9. CASE \E c \in Clients : Connect(c) \/ Leave(c)
  BY <1>3, <1>9, ClientOrderly
<1> QED
  BY <1>4, <1>5, <1>6, <1>7, <1>8, <1>9 DEF Next, HttpdMain

\* Nobody is connected in the beginning.
LEMMA InitOrderly == Init => OrderlyInv
<1> SUFFICES ASSUME Init PROVE OrderlyInv
  OBVIOUS
<1>1. OneAtATime
  BY DEF Init, OneAtATime, Connected
<1>2. OneServed
  BY DEF Init, OneServed, InService
<1>3. Served = {}
  BY DEF Init, Served
<1>4. EachHasThread
  BY <1>3, FS_EmptySet DEF Init, EachHasThread
<1>5. HeldForSomeone
  BY DEF Init, HeldForSomeone
<1> QED
  BY <1>1, <1>2, <1>4, <1>5 DEF OrderlyInv

\* When clients come one at a time and wait for their answers, the server closes
\* every connection but those with a method it does not know, however many clients
\* come and however few descriptors there are.
THEOREM OrderlyReturned == Spec => []DescriptorsReturned
<1> DEFINE OInv == Orderly /\ mainPc # "dead" => OrderlyInv
<1>1. Init => OInv
  BY InitOrderly
<1>2. IInv /\ TypedRest /\ OInv /\ [Next]_vars => OInv'
  BY StepOrderly
<1>3. OInv => DescriptorsReturned
  <2> SUFFICES ASSUME OInv, Orderly, mainPc = "accept",
                      \A t \in Threads : pc[t] \in {"none", "done"},
                      NEW f \in Fds, fds[f] # Free, method[fds[f]] # "other"
               PROVE  FALSE
    BY DEF DescriptorsReturned
  <2>1. HeldForSomeone
    BY DEF OrderlyInv
  <2> QED
    BY <2>1 DEF HeldForSomeone, InService
<1>4. TypedRest /\ [Next]_vars => TypedRest'
  BY StepRest
<1> HIDE DEF OInv
<1> QED
  BY <1>1, <1>2, <1>3, <1>4, InitInv, NextInv, InitRest, PTL DEF Spec
================================================================================

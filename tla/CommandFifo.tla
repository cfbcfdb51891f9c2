------------------------------ MODULE CommandFifo ------------------------------
(***************************************************************************)
(* What callers of QueueQikCommand() rely on: a first-in first-out queue   *)
(* of whole commands.  A command is the frame of bytes laid down for it:   *)
(* the length, the expects-response flag and the payload.  Nothing is said *)
(* about slots, indices, locks or bytes: QikQueue.tla implements this.     *)
(***************************************************************************)
EXTENDS Sequences

CONSTANT Frames   \* the frames callers may queue

VARIABLES fifo,   \* the commands accepted and not yet handed to sendCommand()
          sent    \* the command handed to sendCommand() last, << >> if none

fifoVars == <<fifo, sent>>

Init == fifo = << >> /\ sent = << >>

\* A caller's command is accepted, whole and behind all the others.
Enqueue(f) ==
  /\ fifo' = Append(fifo, f)
  /\ UNCHANGED sent

\* The oldest command goes to sendCommand().
Deliver ==
  /\ fifo # << >>
  /\ sent' = Head(fifo)
  /\ fifo' = Tail(fifo)

Next == Deliver \/ \E f \in Frames : Enqueue(f)

Spec == Init /\ [][Next]_fifoVars
================================================================================

----------------------------- MODULE StreamQueue -----------------------------
(***************************************************************************)
(* What the address stream promises: a bounded queue of messages, each of  *)
(* which is received once and in the order of sending, and a receiver that *)
(* stops when the queue has been closed and nothing is left in it.         *)
(***************************************************************************)
EXTENDS Naturals, Sequences

CONSTANTS
  Capacity,
  Message

VARIABLES
  queue,
  received,
  closed,
  stopped

Init ==
  /\ queue = <<>> /\ received = <<>>
  /\ closed = FALSE /\ stopped = FALSE

\* Some message is appended.
Send ==
  /\ ~ closed
  /\ Len(queue) < Capacity
  /\ Len(queue') = Len(queue) + 1
  /\ queue' = Append(queue, queue'[Len(queue')])
  /\ queue'[Len(queue')] \in Message
  /\ UNCHANGED <<received, closed, stopped>>

Receive ==
  /\ queue # <<>>
  /\ ~ stopped
  /\ queue' = Tail(queue)
  /\ received' = Append(received, Head(queue))
  /\ UNCHANGED <<closed, stopped>>

Close ==
  /\ ~ closed
  /\ closed' = TRUE
  /\ UNCHANGED <<queue, received, stopped>>

Stop ==
  /\ closed /\ queue = <<>>
  /\ stopped' = TRUE
  /\ UNCHANGED <<queue, received, closed>>

Next ==
  \/ Send
  \/ Receive
  \/ Close
  \/ Stop

Spec == Init /\ [][Next]_<<queue, received, closed, stopped>>
=============================================================================

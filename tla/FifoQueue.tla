------------------------------ MODULE FifoQueue ------------------------------
(***************************************************************************)
(* What oml::pipeline::BlockingQueue promises to the threads that use it,  *)
(* with no mutex and no condition variable: an unbounded FIFO of values    *)
(* that can be closed.  A push into a closed queue is dropped; a pop takes *)
(* the oldest value, or ends the consumer when the queue is closed and     *)
(* empty.                                                                  *)
(***************************************************************************)
EXTENDS Sequences

CONSTANTS
  Values,      \* what is queued
  Consumers    \* the threads that pop

VARIABLES
  items,       \* the queued values, oldest first
  closed,      \* stop() took effect
  received,    \* received[c]: the values pop() returned to c, in order
  finished     \* the consumers whose pop() returned nullopt

vars == <<items, closed, received, finished>>

Init ==
  /\ items = <<>>
  /\ closed = FALSE
  /\ received = [c \in Consumers |-> <<>>]
  /\ finished = {}

Push(v) ==
  /\ ~closed
  /\ items' = Append(items, v)
  /\ UNCHANGED <<closed, received, finished>>

Close ==
  /\ closed' = TRUE
  /\ UNCHANGED <<items, received, finished>>

Pop(c) ==
  /\ c \notin finished
  /\ items # <<>>
  /\ items' = Tail(items)
  /\ received' = [received EXCEPT ![c] = Append(@, Head(items))]
  /\ UNCHANGED <<closed, finished>>

PopNothing(c) ==
  /\ c \notin finished
  /\ items = <<>>
  /\ closed
  /\ finished' = finished \union {c}
  /\ UNCHANGED <<items, closed, received>>

Next ==
  \/ \E v \in Values : Push(v)
  \/ Close
  \/ \E c \in Consumers : Pop(c) \/ PopNothing(c)

SafeSpec == Init /\ [][Next]_vars

(***************************************************************************)
(* The liveness half of the promise: a value in the queue reaches some     *)
(* consumer, and a closed, empty queue ends every consumer.                *)
(***************************************************************************)
LiveSpec ==
  /\ SafeSpec
  /\ WF_vars(\E c \in Consumers : Pop(c))
  /\ \A c \in Consumers : WF_vars(PopNothing(c))

=============================================================================

--------------------------- MODULE OrderedPipeline ---------------------------
(***************************************************************************)
(* What oml::pipeline::StagedPipeline promises to its clients, with no     *)
(* worker, no queue and no sentinel: the frames it accepted come back in   *)
(* the order of their submission, once stop() was called, up to the first  *)
(* break.  A break is a nullptr (stop() adds one itself) or a frame that   *)
(* some stage failed.                                                      *)
(***************************************************************************)
EXTENDS Naturals, Sequences

CONSTANTS Frames, NoFrame

VARIABLES
  accepted,    \* what was submitted, in order, stop()'s nullptr included
  failed,      \* the frames some stage failed
  delivered,   \* the results, in order, collected or not
  taken,       \* how many of the results were collected
  stopped,     \* stop() was called ...
  ended        \* ... and is over

vars == <<accepted, failed, delivered, taken, stopped, ended>>

Init ==
  /\ accepted = <<>> /\ failed = {} /\ delivered = <<>> /\ taken = 0
  /\ stopped = FALSE /\ ended = FALSE

Elements(s) == {s[k] : k \in 1..Len(s)}

\* The item whose turn it is.
NextItem == accepted[Len(delivered) + 1]

Pending == Len(delivered) < Len(accepted)

Break == NextItem = NoFrame \/ NextItem \in failed

\* A call of submit() that takes effect before stop() is over.
Submit(x) ==
  /\ ~ended
  /\ accepted' = Append(accepted, x)
  /\ UNCHANGED <<failed, delivered, taken, stopped, ended>>

\* A stage fails a frame that is still inside.
Fail(f) ==
  /\ f \in Elements(accepted) \ (Elements(delivered) \union failed)
  /\ failed' = failed \union {f}
  /\ UNCHANGED <<accepted, delivered, taken, stopped, ended>>

Stop ==
  /\ ~stopped
  /\ stopped' = TRUE
  /\ accepted' = Append(accepted, NoFrame)
  /\ UNCHANGED <<failed, delivered, taken, ended>>

Deliver ==
  /\ stopped /\ ~ended
  /\ Pending /\ ~Break
  /\ delivered' = Append(delivered, NextItem)
  /\ UNCHANGED <<accepted, failed, taken, stopped, ended>>

Finish ==
  /\ stopped /\ ~ended
  /\ Pending /\ Break
  /\ ended' = TRUE
  /\ UNCHANGED <<accepted, failed, delivered, taken, stopped>>

Collect ==
  /\ taken' = Len(delivered)
  /\ UNCHANGED <<accepted, failed, delivered, stopped, ended>>

Next ==
  \/ \E x \in Frames \union {NoFrame} : Submit(x)
  \/ \E f \in Frames : Fail(f)
  \/ Stop \/ Deliver \/ Finish \/ Collect

Spec == Init /\ [][Next]_vars

=============================================================================

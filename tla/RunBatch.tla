------------------------------ MODULE RunBatch ------------------------------
(***************************************************************************)
(* StagedPipeline::runBatch (src/pipeline/StagedPipeline.cpp:130-145): the *)
(* owner submits a vector of frames, stops the pipeline, collects the      *)
(* results and sorts them by frame_id.  It is a program of calls of        *)
(* StagedPipeline, so its steps are steps of StagedPipeline, taken in this *)
(* order while the workers go on beside it.                                *)
(***************************************************************************)
EXTENDS StagedPipeline

CONSTANTS
  Batches,     \* the vectors of frames that are passed to runBatch
  Ids          \* the values of FrameData::frame_id

ASSUME BatchAssumption ==
  /\ Batches \subseteq Seq(Items)
  /\ Ids \subseteq Nat
  /\ Submitters = {}     \* nobody else uses the pipeline

VARIABLES
  frame_id,    \* of every frame; the caller's choice, never changed
  phase,       \* of runBatch: "none", "submit", "stop", "returned", "threw"
  inputs,      \* of the last runBatch
  next,        \* the input it submits next
  returned     \* what the last runBatch returned

batch == <<frame_id, phase, inputs, next, returned>>
batchVars == <<vars, batch>>

BatchInit ==
  /\ Init
  /\ frame_id \in [Frames -> Ids]
  /\ phase = "none" /\ inputs = <<>> /\ next = 1 /\ returned = <<>>

Between(from, to) == phase = from /\ phase' = to

-----------------------------------------------------------------------------
InBatch == phase \in {"submit", "stop"}

\* The caller's part is that of submit: the frames are new and distinct, and
\* there is a stage.
Begin(b) ==
  /\ Runs(Owner, "idle") /\ ~InBatch
  /\ b # <<>> => stages > 0
  /\ \A k \in 1..Len(b) :
       Fresh(b[k]) /\ \A j \in 1..Len(b) : b[j] = b[k] => j = k
  /\ phase' = "submit" /\ inputs' = b /\ next' = 1 /\ returned' = <<>>
  /\ UNCHANGED <<vars, frame_id>>

\* submit of the next input: the test of stopped_ ...
SubmitInput ==
  /\ phase = "submit" /\ next <= Len(inputs)
  /\ SubmitCheck(Owner, inputs[next])
  /\ UNCHANGED batch

\* Mutation: a submit that refuses a pipeline which is running.
RefusedWhileRunning ==
  /\ Between("submit", "threw")
  /\ Runs(Owner, "idle") /\ (stopped_ \/ running_) /\ next <= Len(inputs)
  /\ UNCHANGED <<vars, frame_id, inputs, next, returned>>

\* ... which throws on a stopped pipeline, out of runBatch, ...
SubmitRefused ==
  /\ Between("submit", "threw")
  /\ Runs(Owner, "idle") /\ stopped_ /\ next <= Len(inputs)
  /\ UNCHANGED <<vars, frame_id, inputs, next, returned>>

\* Mutation: every other input.
InputSkipped ==
  /\ phase = "submit"
  /\ SubmitPush(Owner)
  /\ next' = next + 2
  /\ UNCHANGED <<frame_id, phase, inputs, returned>>

\* ... and the push.
InputSubmitted ==
  /\ phase = "submit"
  /\ SubmitPush(Owner)
  /\ next' = next + 1
  /\ UNCHANGED <<frame_id, phase, inputs, returned>>

\* Mutation: a runBatch that forgets to stop.
CollectAtOnce ==
  /\ Between("submit", "stop")
  /\ Runs(Owner, "idle") /\ next > Len(inputs)
  /\ UNCHANGED <<vars, frame_id, inputs, next, returned>>

\* stop() begins, or has nothing to do ...
BatchStop ==
  /\ Between("submit", "stop")
  /\ Runs(Owner, "idle") /\ next > Len(inputs)
  /\ IF running_ /\ ~stopped_ THEN StopBegin ELSE UNCHANGED vars
  /\ UNCHANGED <<frame_id, inputs, next, returned>>

\* ... and runs to its end.
BatchStopping == phase = "stop" /\ StopStep /\ UNCHANGED batch

Arranged(s, t) ==
  \A k \in 1..Len(s) : \E j \in 1..Len(s) : t[j] = s[k]

\* Mutation: the comparison the wrong way round.
SortedDown(s) ==
  {t \in [1..Len(s) -> {s[k] : k \in 1..Len(s)}] :
     /\ Arranged(s, t)
     /\ \A j, k \in 1..Len(s) : j < k => frame_id[t[j]] >= frame_id[t[k]]}

\* The arrangements std::sort may choose: it puts the ids in order and need not
\* keep the order of frames with equal ids.
Sorted(s) ==
  {t \in [1..Len(s) -> {s[k] : k \in 1..Len(s)}] :
     /\ Arranged(s, t)
     /\ \A j, k \in 1..Len(s) : j < k => frame_id[t[j]] <= frame_id[t[k]]}

\* Mutation: returning a copy, so that the next collectResults() has it again.
ReturnCopy ==
  /\ Between("stop", "returned")
  /\ CollectCopy(Owner)
  /\ returned' \in Sorted(results_)
  /\ UNCHANGED <<frame_id, inputs, next>>

BatchReturn ==
  /\ Between("stop", "returned")
  /\ CollectResults(Owner)
  /\ returned' \in Sorted(results_)
  /\ UNCHANGED <<frame_id, inputs, next>>

BatchStep ==
  \/ SubmitInput \/ SubmitRefused \/ InputSubmitted
  \/ BatchStop \/ BatchStopping \/ BatchReturn

\* The owner's calls outside runBatch.
OtherCall == ~InBatch /\ (ClientStep(Owner) \/ OwnerStep) /\ UNCHANGED batch

BatchNext ==
  \/ \E b \in Batches : Begin(b)
  \/ BatchStep
  \/ OtherCall
  \/ (\E i \in Stage : WorkerStep(i)) /\ UNCHANGED batch

BatchSpec == BatchInit /\ [][BatchNext]_batchVars

-----------------------------------------------------------------------------
BatchTypeOK ==
  /\ frame_id \in [Frames -> Ids]
  /\ phase \in {"none", "submit", "stop", "returned", "threw"}
  /\ inputs \in Seq(Items) /\ next \in 1..(Len(inputs) + 1)
  /\ returned \in Seq(Frames)

\* runBatch uses the pipeline as its clients do, so what holds of
\* StagedPipeline holds here.
ImplementsStagedPipeline == Spec

\* A batch that was submitted returns what came before the first break, the
\* frames submitted before the batch included, each once, and the ids ascend.
BatchComplete ==
  phase = "returned" /\ inputs # <<>> =>
    LET n == Len(returned) IN
    /\ n < Len(log[1]) /\ Breaks(n + 1)
    /\ \A k \in 1..n :
         /\ ~Breaks(k)
         /\ \E j \in 1..n : returned[j] = log[1][k]
         /\ k > 1 => frame_id[returned[k - 1]] <= frame_id[returned[k]]

\* When the ids ascend strictly in the order of submission, that is the order
\* of the results.
AscendingIdsKeepOrder ==
  LET n == Len(returned) IN
  /\ phase = "returned" /\ inputs # <<>>
  /\ \A j, k \in 1..n : j < k => frame_id[log[1][j]] < frame_id[log[1][k]]
  => \A k \in 1..n : returned[k] = log[1][k]

\* A batch is submitted as a whole or not at all: when runBatch throws, none of
\* its frames has entered the pipeline.
ThrowsBeforeSubmitting ==
  phase = "threw" => \A k \in 1..Len(inputs) : Fresh(inputs[k])

\* include/pipeline/StagedPipeline.h:39: "Run a batch synchronously and return
\* results in input order."  That is claimed for all ids; the run refutes it for ids
\* that differ, so that it is not for std::sort to choose between equal ones.
ReturnsInInputOrder ==
  phase = "returned" /\ (\A f, g \in Frames : frame_id[f] = frame_id[g] => f = g) =>
    \A j, k \in 1..Len(inputs), p, q \in 1..Len(returned) :
      j < k /\ returned[p] = inputs[j] /\ returned[q] = inputs[k] => p < q

=============================================================================

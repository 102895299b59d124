------------------------- MODULE ThreadPoolPipeline -------------------------
(***************************************************************************)
(* oml::pipeline::ThreadPoolPipeline (src/pipeline/ThreadPoolPipeline.cpp) *)
(* and the SequentialPipeline it runs on the workers of its ThreadPool     *)
(* (src/pipeline/SequentialPipeline.cpp).                                  *)
(*                                                                         *)
(* A task of the pool is the submission of one frame, and stands for the   *)
(* frame.  Its run, one step in ThreadPool, is here a step per stage, so   *)
(* that several workers are in the stages at once; everything else is the  *)
(* pool's.  Clients submit single frames, run batches and wait; the owner  *)
(* builds and destroys.                                                    *)
(***************************************************************************)
EXTENDS ThreadPool

CONSTANTS
  NullInputs,  \* the tasks submitted with nullptr instead of a frame
  NoFrame,     \* nullptr
  MaxStages,   \* bound on addStage calls
  Outcomes,    \* what stage->process may do: "frame", "null", "throw"
  Batches,     \* the vectors passed to runBatch
  Threw,       \* the exception a future holds
  NoResult     \* the future is not ready

Frames == Tasks \ NullInputs
Items == Frames \union {NoFrame}
Input(t) == IF t \in NullInputs THEN NoFrame ELSE t

ASSUME PipelineAssumption ==
  /\ NullInputs \subseteq Tasks
  /\ NoFrame \notin Tasks
  /\ Threw \notin Items /\ NoResult \notin Items /\ Threw # NoResult
  /\ MaxStages \in Nat
  /\ Outcomes \subseteq {"frame", "null", "throw"}
  /\ Batches \subseteq Seq(Tasks)

VARIABLES
  stages,      \* pipeline_.stages_.size()
  alive,       \* pipeline_ is not destroyed yet
  at,          \* at[w]: stages that worker w has run for its task
  current,     \* current[w]: the frame run() holds on worker w
  result,      \* result[t]: what the future of task t holds
  failed,      \* history: the tasks for which a stage returned nullptr
  bpc,         \* client: "none", "batch", "returned", "threw"
  inputs,      \* inputs[c]: what c passed to its last runBatch
  results      \* results[c]: what that runBatch got from the futures so far

pipe == <<stages, alive>>
run == <<at, current>>
futures == <<result, failed>>
batch == <<bpc, inputs, results>>
pipelineVars == <<vars, pipe, run, futures, batch>>

PipelineInit ==
  /\ Init
  /\ stages = 0 /\ alive = TRUE
  /\ at = [w \in Workers |-> 0]
  /\ current = [w \in Workers |-> NoFrame]
  /\ result = [t \in Tasks |-> NoResult] /\ failed = {}
  /\ bpc = [c \in Clients |-> "none"]
  /\ inputs = [c \in Clients |-> <<>>]
  /\ results = [c \in Clients |-> <<>>]

-----------------------------------------------------------------------------
(***************************************************************************)
(* SequentialPipeline::run on worker w                                     *)
(***************************************************************************)
Runs(w) == wpc[w] = "running" /\ cur[w] \in Tasks

\* Mutation: a worker that keeps the frame of its last run when it has none.
TakeStale(w) ==
  /\ WorkerTake(w)
  /\ at' = [at EXCEPT ![w] = 0]
  /\ current' = [current EXCEPT ![w] = IF cur'[w] \in Frames THEN cur'[w] ELSE @]
  /\ UNCHANGED <<pipe, futures, batch>>

\* The worker takes a task: a call of run(), or nothing to do.
Take(w) ==
  /\ WorkerTake(w)
  /\ at' = [at EXCEPT ![w] = 0]
  /\ current' =
       [current EXCEPT ![w] = IF cur'[w] \in Tasks THEN Input(cur'[w]) ELSE NoFrame]
  /\ UNCHANGED <<pipe, futures, batch>>

\* There is a stage left to run, and a frame to run it on.
StageIsNext(w) == Runs(w) /\ at[w] < stages /\ current[w] # NoFrame

StageReturns(w) ==
  /\ "frame" \in Outcomes
  /\ StageIsNext(w)
  /\ at' = [at EXCEPT ![w] = @ + 1]
  /\ UNCHANGED <<vars, pipe, current, futures, batch>>

StageFails(w) ==
  /\ "null" \in Outcomes
  /\ StageIsNext(w)
  /\ current' = [current EXCEPT ![w] = NoFrame]
  /\ failed' = failed \union {cur[w]}
  /\ UNCHANGED <<vars, pipe, at, result, batch>>

\* Mutation: a plain task, whose exception ends the worker.
ThrowEndsWorker(w) ==
  /\ "throw" \in Outcomes
  /\ StageIsNext(w)
  /\ WorkerGoes(w, {"running"}, "exited")
  /\ UNCHANGED <<tasks_, stop_, cur, cpc, sent, finished, history, spurious,
                 pipe, run, futures, batch>>

\* The packaged_task keeps what a stage throws for the future.
StageThrows(w) ==
  /\ "throw" \in Outcomes
  /\ StageIsNext(w)
  /\ WorkerRun(w)
  /\ result' = [result EXCEPT ![cur[w]] = Threw]
  /\ UNCHANGED <<pipe, run, failed, batch>>

RunReturns(w) ==
  /\ Runs(w) /\ ~StageIsNext(w)
  /\ WorkerRun(w)
  /\ result' = [result EXCEPT ![cur[w]] = current[w]]
  /\ UNCHANGED <<pipe, run, failed, batch>>

\* An empty task of waitForAll.
RunBarrier(w) ==
  /\ cur[w] \notin Tasks
  /\ WorkerRun(w)
  /\ UNCHANGED <<pipe, run, futures, batch>>

PipelineWorker(w) ==
  \/ Take(w) \/ StageReturns(w) \/ StageFails(w) \/ StageThrows(w)
  \/ RunReturns(w) \/ RunBarrier(w)
  \/ (WorkerExit(w) \/ WorkerBlock(w)) /\ UNCHANGED <<pipe, run, futures, batch>>

-----------------------------------------------------------------------------
(***************************************************************************)
(* The clients                                                             *)
(***************************************************************************)
InBatch(c) == bpc[c] = "batch"

\* A frame is submitted once.
New(t) ==
  /\ t \notin submitted
  /\ \A c \in Clients : \A k \in 1..Len(inputs[c]) : inputs[c][k] # t

\* stages_ is not protected: the owner adds stages before anybody submits.
AddStage ==
  /\ cpc[Owner] = "idle" /\ ~stop_
  /\ submitted = {} /\ \A c \in Clients : bpc[c] = "none"
  /\ stages < MaxStages
  /\ stages' = stages + 1
  /\ UNCHANGED <<vars, alive, run, futures, batch>>

\* The calls that runBatch is not made of, and those in progress.
PoolCall(c) ==
  /\ \/ ~InBatch(c) /\ WaitBegin(c)
     \/ ~InBatch(c) /\ \E t \in Tasks : New(t) /\ SubmitTask(c, t)
     \/ ClientCall(c)
  /\ UNCHANGED <<pipe, run, futures, batch>>

BatchBegin(c, b) ==
  /\ cpc[c] = "idle" /\ ~stop_ /\ ~InBatch(c)
  /\ \A k \in 1..Len(b) : New(b[k]) /\ \A j \in 1..(k - 1) : b[j] # b[k]
  /\ bpc' = [bpc EXCEPT ![c] = "batch"]
  /\ inputs' = [inputs EXCEPT ![c] = b]
  /\ results' = [results EXCEPT ![c] = <<>>]
  /\ UNCHANGED <<vars, pipe, run, futures>>

\* runBatch submits its inputs one after the other ...
BatchSubmit(c) ==
  /\ InBatch(c)
  /\ \E k \in 1..Len(inputs[c]) :
       /\ \A j \in 1..(k - 1) : inputs[c][j] \in submitted
       /\ SubmitTask(c, inputs[c][k])
  /\ UNCHANGED <<pipe, run, futures, batch>>

\* Mutation: waiting for each result before the next input is submitted.
GetsEarly(c, t) ==
  /\ InBatch(c) /\ cpc[c] = "idle"
  /\ Len(results[c]) < Len(inputs[c])
  /\ t = inputs[c][Len(results[c]) + 1]
  /\ t \in finished

\* Mutation: results in the order in which the futures become ready.
GetsAnyReady(c, t) ==
  /\ InBatch(c) /\ cpc[c] = "idle"
  /\ \A k \in 1..Len(inputs[c]) : inputs[c][k] \in submitted
  /\ \E k \in 1..Len(inputs[c]) : t = inputs[c][k]
  /\ \A k \in 1..Len(results[c]) : results[c][k] # result[t]
  /\ t \in finished

\* It calls get() of the next future, which is ready.
Gets(c, t) ==
  /\ InBatch(c) /\ cpc[c] = "idle"
  /\ \A k \in 1..Len(inputs[c]) : inputs[c][k] \in submitted
  /\ Len(results[c]) < Len(inputs[c])
  /\ t = inputs[c][Len(results[c]) + 1]
  /\ t \in finished

\* ... collects the results in the same order ...
BatchGet(c, t) ==
  /\ Gets(c, t) /\ result[t] # Threw
  /\ results' = [results EXCEPT ![c] = Append(@, result[t])]
  /\ UNCHANGED <<vars, pipe, run, futures, bpc, inputs>>

\* ... and throws what the first future threw that did; tasks behind it go on.
BatchThrow(c, t) ==
  /\ Gets(c, t) /\ result[t] = Threw
  /\ bpc' = [bpc EXCEPT ![c] = "threw"]
  /\ UNCHANGED <<vars, pipe, run, futures, inputs, results>>

BatchReturn(c) ==
  /\ InBatch(c) /\ cpc[c] = "idle"
  /\ Len(results[c]) = Len(inputs[c])
  /\ bpc' = [bpc EXCEPT ![c] = "returned"]
  /\ UNCHANGED <<vars, pipe, run, futures, inputs, results>>

BatchStep(c) ==
  \/ BatchSubmit(c) \/ BatchReturn(c)
  \/ \E t \in Tasks : BatchGet(c, t) \/ BatchThrow(c, t)

-----------------------------------------------------------------------------
(***************************************************************************)
(* The destructor: members go in the reverse order of their declaration,   *)
(* pool_ before pipeline_.                                                 *)
(***************************************************************************)
DestroyPool ==
  /\ \A c \in Clients : ~InBatch(c)
  /\ DestroyStop
  /\ UNCHANGED <<pipe, run, futures, batch>>

PoolDestroyed == OwnerCall /\ UNCHANGED <<pipe, run, futures, batch>>

\* Mutation: the members declared the other way round.
PipelineFirst ==
  /\ cpc[Owner] = "dtor" /\ alive
  /\ alive' = FALSE
  /\ UNCHANGED <<vars, stages, run, futures, batch>>

DestroyPipeline ==
  /\ cpc[Owner] = "destroyed" /\ alive
  /\ alive' = FALSE
  /\ UNCHANGED <<vars, stages, run, futures, batch>>

-----------------------------------------------------------------------------
PipelineNext ==
  \/ \E w \in Workers : PipelineWorker(w)
  \/ \E w \in Workers :
       SpuriousWakeup(w) /\ UNCHANGED <<pipe, run, futures, batch>>
  \/ \E c \in Clients :
       PoolCall(c) \/ BatchStep(c) \/ \E b \in Batches : BatchBegin(c, b)
  \/ AddStage \/ DestroyPool \/ PoolDestroyed \/ DestroyPipeline

PipelineSpec == PipelineInit /\ [][PipelineNext]_pipelineVars

\* Workers and calls in progress go on; nobody has to make a call.
FairPipelineSpec ==
  /\ PipelineSpec
  /\ \A w \in Workers : WF_pipelineVars(PipelineWorker(w))
  /\ \A c \in Clients :
       /\ WF_pipelineVars(ClientCall(c) /\ UNCHANGED <<pipe, run, futures, batch>>)
       /\ WF_pipelineVars(BatchStep(c))
  /\ WF_pipelineVars(PoolDestroyed)

-----------------------------------------------------------------------------
(***************************************************************************)
(* Properties                                                              *)
(***************************************************************************)

PipelineTypeOK ==
  /\ stages \in 0..MaxStages /\ alive \in BOOLEAN
  /\ at \in [Workers -> 0..MaxStages]
  /\ current \in [Workers -> Items]
  /\ \A w \in Workers : Runs(w) => current[w] \in {cur[w], NoFrame}
  /\ result \in [Tasks -> Items \union {Threw, NoResult}]
  /\ failed \subseteq Tasks
  /\ bpc \in [Clients -> {"none", "batch", "returned", "threw"}]
  /\ inputs \in [Clients -> Seq(Tasks)]
  /\ results \in [Clients -> Seq(Items)]

\* The pool below does what ThreadPool says, liveness included: a run of the
\* stages is a task that ends.
ImplementsThreadPool == FairSpec

\* include/pipeline/ThreadPoolPipeline.h:32: "Process a batch of frames and
\* return results in input order": the result of an input is that frame, or
\* nullptr if a stage failed for it, whatever became of the others.
BatchMatchesInputs ==
  \A c \in Clients : bpc[c] = "returned" =>
    /\ Len(results[c]) = Len(inputs[c])
    /\ \A k \in 1..Len(results[c]) :
         results[c][k] =
           IF inputs[c][k] \in failed THEN NoFrame ELSE Input(inputs[c][k])

\* runBatch throws only if a stage threw, and has submitted all inputs by then.
BatchThrowsFirst ==
  \A c \in Clients : bpc[c] = "threw" =>
    /\ result[inputs[c][Len(results[c]) + 1]] = Threw
    /\ \A k \in 1..Len(inputs[c]) : inputs[c][k] \in submitted

\* No run uses pipeline_ after it was destroyed, although the pool still runs
\* what was submitted while it is being destroyed.
PipelineOutlivesRuns == ~alive => \A w \in Workers : ~Runs(w)

\* runBatch of client c has an input to submit, a ready future to take, or all results.
BatchCan(c) ==
  /\ InBatch(c) /\ cpc[c] = "idle"
  /\ \/ ~stop_ /\ \E k \in 1..Len(inputs[c]) : inputs[c][k] \notin submitted
     \/ \E t \in Tasks : Gets(c, t)
     \/ Len(results[c]) = Len(inputs[c])

\* Nothing gets stuck above the pool either: when no worker, no call and no batch
\* can go on, nobody is in runBatch, and every future has a result or an exception.
PipelineNeverStuck ==
  (\A w \in Workers : ~WorkerCan(w)) /\ (\A c \in Clients : ~ClientCan(c) /\ ~BatchCan(c)) =>
    /\ \A c \in Clients : ~InBatch(c)
    /\ \A t \in submitted : result[t] # NoResult

\* runBatch comes back, whatever the stages do.
BatchReturns == \A c \in Clients : InBatch(c) ~> ~InBatch(c)

=============================================================================

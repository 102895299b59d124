---------------------- MODULE ThreadPoolPipelineProofs ----------------------
(***************************************************************************)
(* Proofs about ThreadPoolPipeline, for any number of workers, clients,    *)
(* frames and stages, on top of what is proved about its pool.             *)
(***************************************************************************)
EXTENDS ThreadPoolPipeline, ThreadPoolProofs

-----------------------------------------------------------------------------
(***************************************************************************)
(* The pool below                                                          *)
(***************************************************************************)
InputTypes == inputs \in [Clients -> Seq(Tasks)]

\* Every input of a batch is a task.
LEMMA InputIsTask ==
  ASSUME InputTypes, NEW c \in Clients, NEW k \in 1..Len(inputs[c])
  PROVE  inputs[c][k] \in Tasks /\ Len(inputs[c]) \in Nat
<1>1. inputs[c] \in Seq(Tasks)
  BY DEF InputTypes
<1>2. QED
  BY <1>1

\* A step of the pipeline is one of its pool, or leaves the pool alone.
LEMMA PoolStep ==
  ASSUME InputTypes, [PipelineNext]_pipelineVars
  PROVE  [Next]_vars
<1>1. ASSUME NEW w \in Workers, PipelineWorker(w) PROVE [Next]_vars
  BY <1>1 DEF PipelineWorker, Take, StageReturns, StageFails, StageThrows, RunReturns,
     RunBarrier, Next, WorkerStep
<1>2. ASSUME NEW w \in Workers, SpuriousWakeup(w) PROVE [Next]_vars
  BY <1>2 DEF Next
<1>3. ASSUME NEW c \in Clients, PoolCall(c) PROVE [Next]_vars
  BY <1>3 DEF PoolCall, Next
<1>4. ASSUME NEW c \in Clients, NEW b \in Batches, BatchBegin(c, b) PROVE [Next]_vars
  BY <1>4 DEF BatchBegin
<1>5. ASSUME NEW c \in Clients, BatchSubmit(c) PROVE [Next]_vars
  <2>1. PICK k \in 1..Len(inputs[c]) : SubmitTask(c, inputs[c][k])
    BY <1>5 DEF BatchSubmit
  <2>2. QED
    BY <2>1, InputIsTask DEF Next
<1>6. ASSUME NEW c \in Clients,
             BatchReturn(c) \/ \E t \in Tasks : BatchGet(c, t) \/ BatchThrow(c, t)
      PROVE  [Next]_vars
  BY <1>6 DEF BatchReturn, BatchGet, BatchThrow
<1>7. CASE AddStage \/ DestroyPipeline \/ UNCHANGED pipelineVars
  BY <1>7 DEF AddStage, DestroyPipeline, pipelineVars
<1>8. CASE DestroyPool \/ PoolDestroyed
  BY <1>8 DEF DestroyPool, PoolDestroyed, Next
<1>9. QED
  BY <1>1, <1>2, <1>3, <1>4, <1>5, <1>6, <1>7, <1>8 DEF PipelineNext, BatchStep

\* The steps that neither run a task nor change what a run has done.
Elsewhere ==
  /\ UNCHANGED <<run, futures>>
  /\ cur' = cur /\ \A w \in Workers : wpc'[w] = "running" <=> wpc[w] = "running"
  /\ \A t \in Tasks : t \in finished' <=> t \in finished
  /\ submitted \subseteq submitted'

\* What the pool does beside taking and running tasks.
PoolRest ==
  \/ \E w \in Workers : WorkerExit(w) \/ WorkerBlock(w) \/ SpuriousWakeup(w)
  \/ \E c \in Clients :
       (\E t \in Tasks : SubmitTask(c, t)) \/ WaitBegin(c) \/ ClientCall(c)
  \/ DestroyStop \/ OwnerCall \/ UNCHANGED vars

LEMMA PoolElsewhere ==
  ASSUME TypeOK, PoolRest, UNCHANGED <<run, futures>>
  PROVE  Elsewhere
<1> USE DEF Elsewhere
<1>1. ASSUME NEW w \in Workers, WorkerExit(w) \/ WorkerBlock(w) \/ SpuriousWakeup(w)
      PROVE  Elsewhere
  BY <1>1 DEF WorkerExit, WorkerBlock, SpuriousWakeup, WorkerGoes, Looking, TypeOK, history
<1>2. ASSUME NEW c \in Clients,
             WaitBegin(c) \/ BarrierSubmit(c) \/ \E t \in Tasks : SubmitTask(c, t)
      PROVE  Elsewhere
  BY <1>2 DEF WaitBegin, BarrierSubmit, SubmitTask, workers, history
<1>3. ASSUME NEW c \in Clients, SubmitNotify(c) \/ BarrierNotify(c) \/ DestroyNotify
      PROVE  Elsewhere
  BY <1>3, NotifyMoves DEF SubmitNotify, BarrierNotify, DestroyNotify, history
<1>4. ASSUME NEW c \in Clients, WaitReturn(c)
      PROVE  Elsewhere
  <2>1. \A t \in Tasks : t \notin Barrier(c)
    BY PoolAssumption, PoolSizes
  <2>2. QED
    BY <1>4, <2>1 DEF WaitReturn, workers
<1>5. CASE DestroyStop \/ DestroyJoin \/ UNCHANGED vars
  BY <1>5 DEF DestroyStop, DestroyJoin, vars, workers, history
<1>6. QED
  BY <1>1, <1>2, <1>3, <1>4, <1>5, PoolAssumption DEF PoolRest, ClientCall, OwnerCall

\* A step of the pipeline is one of run(), or elsewhere.
LEMMA StepCases ==
  ASSUME InputTypes, TypeOK, [PipelineNext]_pipelineVars
  PROVE  \/ \E w \in Workers : \/ Take(w) \/ StageReturns(w) \/ StageFails(w)
                               \/ StageThrows(w) \/ RunReturns(w) \/ RunBarrier(w)
         \/ Elsewhere
<1>1. ASSUME NEW w \in Workers, WorkerExit(w) \/ WorkerBlock(w) \/ SpuriousWakeup(w),
             UNCHANGED <<run, futures>>
      PROVE  Elsewhere
  BY <1>1, PoolElsewhere DEF PoolRest
<1>2. ASSUME NEW c \in Clients, PoolCall(c) PROVE Elsewhere
  BY <1>2, PoolElsewhere DEF PoolCall, PoolRest
<1>3. ASSUME NEW c \in Clients, BatchSubmit(c) PROVE Elsewhere
  <2>1. PICK k \in 1..Len(inputs[c]) : SubmitTask(c, inputs[c][k])
    BY <1>3 DEF BatchSubmit
  <2>2. QED
    BY <1>3, <2>1, InputIsTask, PoolElsewhere DEF BatchSubmit, PoolRest
<1>4. ASSUME NEW c \in Clients, BatchReturn(c) PROVE Elsewhere
  BY <1>4, PoolElsewhere DEF BatchReturn, PoolRest
<1>5. ASSUME NEW c \in Clients, NEW t \in Tasks, BatchGet(c, t) \/ BatchThrow(c, t)
      PROVE  Elsewhere
  BY <1>5, PoolElsewhere DEF BatchGet, BatchThrow, PoolRest
<1>6. ASSUME NEW c \in Clients, NEW b \in Batches, BatchBegin(c, b) PROVE Elsewhere
  BY <1>6, PoolElsewhere DEF BatchBegin, PoolRest
<1>7. CASE AddStage \/ DestroyPipeline \/ UNCHANGED pipelineVars
  BY <1>7, PoolElsewhere DEF AddStage, DestroyPipeline, pipelineVars, PoolRest
<1>8. CASE DestroyPool \/ PoolDestroyed
  BY <1>8, PoolElsewhere DEF DestroyPool, PoolDestroyed, PoolRest
<1>9. QED
  BY <1>1, <1>2, <1>3, <1>4, <1>5, <1>6, <1>7, <1>8
  DEF PipelineNext, PipelineWorker, BatchStep, pipe, futures, batch

-----------------------------------------------------------------------------
(***************************************************************************)
(* What a run yields                                                       *)
(***************************************************************************)
\* What run() returns for task t, unless it throws.
Expected(t) == IF t \in failed THEN NoFrame ELSE Input(t)

\* Only a task that has begun has failed; a run has the right frame in its
\* hands, and what it left in its future was that frame.
Futures ==
  /\ \A t \in failed : t \in finished \/ IsRunning(t)
  /\ \A w \in Workers : Runs(w) => current[w] = Expected(cur[w])
  /\ \A t \in Tasks \intersect finished : result[t] \in {Threw, Expected(t)}

\* The types of what the steps of run() change.
RunTypes ==
  /\ current \in [Workers -> Items]
  /\ result \in [Tasks -> Items \union {Threw, NoResult}]
  /\ failed \subseteq Tasks

LEMMA InputTypesOfTasks ==
  \A t \in Tasks : Input(t) \in Items /\ Input(t) \in {t, NoFrame}
BY DEF Input, Items, Frames

LEMMA RunTypesStep ==
  ASSUME RunTypes, InputTypes, TypeOK, [PipelineNext]_pipelineVars
  PROVE  RunTypes'
<1> USE DEF RunTypes
<1>1. ASSUME NEW w \in Workers, Take(w) PROVE RunTypes'
  <2>1. NoFrame \in Items
    BY DEF Items
  <2>2. QED
    BY <1>1, <2>1, InputTypesOfTasks DEF Take, futures
<1>2. ASSUME NEW w \in Workers, StageReturns(w) \/ RunBarrier(w) PROVE RunTypes'
  BY <1>2 DEF StageReturns, RunBarrier, futures, run
<1>3. ASSUME NEW w \in Workers, StageFails(w) PROVE RunTypes'
  BY <1>3 DEF StageFails, StageIsNext, Runs, Items
<1>4. ASSUME NEW w \in Workers, StageThrows(w) PROVE RunTypes'
  BY <1>4 DEF StageThrows, run
<1>5. ASSUME NEW w \in Workers, RunReturns(w) PROVE RunTypes'
  BY <1>5 DEF RunReturns, run
<1>6. CASE Elsewhere
  BY <1>6 DEF Elsewhere, run, futures
<1>7. QED
  BY StepCases, <1>1, <1>2, <1>3, <1>4, <1>5, <1>6

\* A run that ends makes its own task finished, and nothing else.
LEMMA RunEnds ==
  ASSUME TypeOK, Place, NEW w \in Workers, WorkerRun(w)
  PROVE  /\ wpc[w] = "running" /\ wpc'[w] = "ready" /\ cur' = cur
         /\ \A v \in Workers \ {w} : wpc'[v] = wpc[v]
         /\ \A v \in Workers \ {w} : wpc[v] = "running" => cur[v] # cur[w]
         /\ finished' = finished \union {cur[w]} /\ cur[w] \notin finished
  BY DEF TypeOK, Place, WorkerRun, WorkerGoes

LEMMA FuturesStep ==
  ASSUME RunTypes, InputTypes, TypeOK, Place, Futures, [PipelineNext]_pipelineVars
  PROVE  Futures'
<1>1. ASSUME NEW w \in Workers, Take(w) PROVE Futures'
  <2>1. /\ wpc[w] # "running" /\ wpc' = [wpc EXCEPT ![w] = "running"]
        /\ tasks_ # <<>> /\ tasks_ \in Seq(AnyTask)
        /\ cur' = [cur EXCEPT ![w] = Head(tasks_)]
        /\ UNCHANGED <<failed, result, finished>>
    BY <1>1 DEF Take, WorkerTake, WorkerGoes, Looking, TypeOK, futures
  <2>2. /\ wpc'[w] = "running" /\ cur'[w] = tasks_[1]
        /\ \A v \in Workers \ {w} : wpc'[v] = wpc[v] /\ cur'[v] = cur[v]
    BY <2>1 DEF TypeOK
  <2>3. tasks_[1] \notin finished /\ ~IsRunning(tasks_[1])
    <3>1. 1 \in 1..Len(tasks_)
      BY <2>1
    <3>2. QED
      BY <3>1 DEF Place, IsRunning, IsQueued
  <2>4. tasks_[1] \notin failed
    BY <2>3 DEF Futures
  <2>5. current'[w] = (IF cur'[w] \in Tasks THEN Input(cur'[w]) ELSE NoFrame)
        /\ \A v \in Workers \ {w} : current'[v] = current[v]
    BY <1>1 DEF Take, RunTypes
  <2>6. \A t : IsRunning(t) => IsRunning(t)'
    BY <2>1, <2>2 DEF IsRunning
  <2>7. \A t : Expected(t)' = Expected(t)
    BY <2>1 DEF Expected
  <2>8. \A v \in Workers : Runs(v)' => (current[v] = Expected(cur[v]))'
    BY <2>2, <2>4, <2>5, <2>1 DEF Futures, Runs, Expected
  <2>9. QED
    BY <2>1, <2>6, <2>7, <2>8 DEF Futures
<1>2. ASSUME NEW w \in Workers, StageReturns(w) PROVE Futures'
  BY <1>2 DEF StageReturns, Futures, futures, vars, workers, Runs, Expected, IsRunning
<1>3. ASSUME NEW w \in Workers, StageFails(w) PROVE Futures'
  <2>1. /\ wpc[w] = "running" /\ UNCHANGED <<wpc, cur, finished, result>>
        /\ current' = [current EXCEPT ![w] = NoFrame] /\ failed' = failed \union {cur[w]}
    BY <1>3 DEF StageFails, StageIsNext, Runs, vars, workers
  <2>2. /\ current'[w] = NoFrame /\ \A v \in Workers \ {w} : current'[v] = current[v]
        /\ \A v \in Workers \ {w} : wpc[v] = "running" => cur[v] # cur[w]
        /\ cur[w] \notin finished
    BY <2>1 DEF RunTypes, Place
  <2>3. \A t \in failed' : t \in finished' \/ IsRunning(t)'
    BY <2>1 DEF IsRunning, Futures
  <2>4. \A v \in Workers : Runs(v)' => (current[v] = Expected(cur[v]))'
    BY <2>1, <2>2 DEF Futures, Runs, Expected
  <2>5. \A t \in Tasks \intersect finished' : (result[t] \in {Threw, Expected(t)})'
    BY <2>1, <2>2 DEF Futures, Expected
  <2>6. QED
    BY <2>3, <2>4, <2>5 DEF Futures
<1>4. ASSUME NEW w \in Workers, StageThrows(w) \/ RunReturns(w) PROVE Futures'
  <2>1. WorkerRun(w) /\ Runs(w) /\ UNCHANGED <<current, failed>>
        /\ cur[w] \in Tasks
        /\ \/ result' = [result EXCEPT ![cur[w]] = Threw]
           \/ result' = [result EXCEPT ![cur[w]] = current[w]]
    BY <1>4 DEF StageThrows, RunReturns, StageIsNext, Runs, run
  <2>2. /\ result'[cur[w]] \in {Threw, Expected(cur[w])}
        /\ \A t \in Tasks \ {cur[w]} : result'[t] = result[t]
    BY <2>1 DEF RunTypes, Futures
  <2>3. \A t : Expected(t)' = Expected(t)
    BY <2>1 DEF Expected
  <2>4. \A t \in failed' : t \in finished' \/ IsRunning(t)'
    BY <2>1, RunEnds DEF IsRunning, Futures
  <2>5. \A v \in Workers : Runs(v)' => (current[v] = Expected(cur[v]))'
    BY <2>1, RunEnds DEF Futures, Runs, Expected
  <2>6. \A t \in Tasks \intersect finished' : (result[t] \in {Threw, Expected(t)})'
    BY <2>1, <2>2, RunEnds DEF Futures, Expected
  <2>7. QED
    BY <2>4, <2>5, <2>6 DEF Futures
<1>5. ASSUME NEW w \in Workers, RunBarrier(w) PROVE Futures'
  <2>1. WorkerRun(w) /\ cur[w] \notin Tasks /\ UNCHANGED <<current, failed, result>>
    BY <1>5 DEF RunBarrier, run, futures
  <2>2. \A t \in failed' : t \in finished' \/ IsRunning(t)'
    BY <2>1, RunEnds DEF IsRunning, Futures
  <2>3. \A v \in Workers : Runs(v)' => (current[v] = Expected(cur[v]))'
    BY <2>1, RunEnds DEF Futures, Runs, Expected
  <2>4. \A t \in Tasks \intersect finished' : (result[t] \in {Threw, Expected(t)})'
    BY <2>1, RunEnds DEF Futures, Expected
  <2>5. QED
    BY <2>2, <2>3, <2>4 DEF Futures
<1>6. CASE Elsewhere
  <2>1. UNCHANGED <<current, result, failed, cur>>
    BY <1>6 DEF Elsewhere, run, futures
  <2>2. \A t \in failed' : t \in finished' \/ IsRunning(t)'
    BY <1>6, <2>1 DEF Elsewhere, IsRunning, Futures, RunTypes
  <2>3. \A v \in Workers : Runs(v)' => (current[v] = Expected(cur[v]))'
    BY <1>6, <2>1 DEF Elsewhere, Futures, Runs, Expected
  <2>4. \A t \in Tasks \intersect finished' : (result[t] \in {Threw, Expected(t)})'
    BY <1>6, <2>1 DEF Elsewhere, Futures, Expected
  <2>5. QED
    BY <2>2, <2>3, <2>4 DEF Futures
<1>7. QED
  BY StepCases, <1>1, <1>2, <1>3, <1>4, <1>5, <1>6

-----------------------------------------------------------------------------
(***************************************************************************)
(* Types                                                                   *)
(***************************************************************************)
OtherTypes ==
  /\ stages \in 0..MaxStages /\ alive \in BOOLEAN
  /\ at \in [Workers -> 0..MaxStages]
  /\ bpc \in [Clients -> {"none", "batch", "returned", "threw"}]
  /\ results \in [Clients -> Seq(Items)]

LEMMA OtherTypesStep ==
  ASSUME OtherTypes, InputTypes, RunTypes, Futures, [PipelineNext]_pipelineVars
  PROVE  OtherTypes' /\ InputTypes'
<1> USE DEF OtherTypes, InputTypes
<1>1. MaxStages \in Nat
  BY PipelineAssumption
<1>2. ASSUME NEW w \in Workers, PipelineWorker(w) PROVE OtherTypes' /\ InputTypes'
  <2>1. CASE Take(w)
    BY <1>1, <2>1 DEF Take, pipe, batch
  <2>2. CASE StageReturns(w)
    BY <1>1, <2>2 DEF StageReturns, StageIsNext, pipe, batch
  <2>3. CASE StageFails(w)
    BY <2>3 DEF StageFails, pipe, batch
  <2>4. CASE StageThrows(w) \/ RunReturns(w) \/ RunBarrier(w)
    BY <2>4 DEF StageThrows, RunReturns, RunBarrier, pipe, run, batch
  <2>5. CASE UNCHANGED <<pipe, run, futures, batch>>
    BY <2>5 DEF pipe, run, batch
  <2>6. QED
    BY <1>2, <2>1, <2>2, <2>3, <2>4, <2>5 DEF PipelineWorker, pipe, run, futures, batch
<1>3. CASE UNCHANGED <<pipe, run, futures, batch>>
  BY <1>3 DEF pipe, run, batch
<1>4. ASSUME NEW c \in Clients, NEW b \in Batches, BatchBegin(c, b)
      PROVE  OtherTypes' /\ InputTypes'
  <2>1. b \in Seq(Tasks) /\ <<>> \in Seq(Items)
    BY PipelineAssumption
  <2>2. QED
    BY <1>4, <2>1 DEF BatchBegin, pipe, run
<1>5. ASSUME NEW c \in Clients, NEW t \in Tasks, BatchGet(c, t)
      PROVE  OtherTypes' /\ InputTypes'
  <2>1. result[t] = Expected(t) /\ Expected(t) \in Items
    BY <1>5, InputTypesOfTasks DEF BatchGet, Gets, Futures, Expected, Items
  <2>2. Append(results[c], result[t]) \in Seq(Items)
    BY <2>1
  <2>3. QED
    BY <1>5, <2>2 DEF BatchGet, pipe, run
<1>6. ASSUME NEW c \in Clients, NEW t \in Tasks, BatchThrow(c, t)
      PROVE  OtherTypes' /\ InputTypes'
  BY <1>6 DEF BatchThrow, pipe, run
<1>7. ASSUME NEW c \in Clients, BatchReturn(c)
      PROVE  OtherTypes' /\ InputTypes'
  BY <1>7 DEF BatchReturn, pipe, run
<1>8. CASE AddStage
  BY <1>1, <1>8 DEF AddStage, run, batch
<1>9. CASE DestroyPipeline
  BY <1>9 DEF DestroyPipeline, run, batch
<1>10. QED
  BY <1>2, <1>3, <1>4, <1>5, <1>6, <1>7, <1>8, <1>9
  DEF PipelineNext, PoolCall, BatchStep, BatchSubmit, DestroyPool, PoolDestroyed,
      pipelineVars, pipe, run, futures, batch

-----------------------------------------------------------------------------
(***************************************************************************)
(* What a batch collects                                                   *)
(***************************************************************************)
\* What runBatch has got from the futures so far, in the order of its inputs, and
\* with what it ended.
Collected ==
  \A c \in Clients :
    /\ Len(results[c]) <= Len(inputs[c])
    /\ \A k \in 1..Len(results[c]) :
         /\ inputs[c][k] \in finished
         /\ results[c][k] = result[inputs[c][k]] /\ results[c][k] # Threw
    /\ bpc[c] = "returned" => Len(results[c]) = Len(inputs[c])
    /\ bpc[c] = "threw" =>
         /\ Len(results[c]) < Len(inputs[c])
         /\ inputs[c][Len(results[c]) + 1] \in finished
         /\ result[inputs[c][Len(results[c]) + 1]] = Threw
         /\ \A k \in 1..Len(inputs[c]) : inputs[c][k] \in submitted

\* What a ready future holds does not change any more.
LEMMA ResultsStay ==
  ASSUME RunTypes, InputTypes, TypeOK, Place, [PipelineNext]_pipelineVars,
         NEW t \in Tasks, t \in finished
  PROVE  t \in finished' /\ result'[t] = result[t]
<1>1. ASSUME NEW w \in Workers, Take(w) \/ StageReturns(w) \/ StageFails(w)
      PROVE  UNCHANGED <<finished, result>>
  BY <1>1 DEF Take, StageReturns, StageFails, WorkerTake, vars, futures
<1>2. ASSUME NEW w \in Workers, StageThrows(w) \/ RunReturns(w) \/ RunBarrier(w)
      PROVE  t \in finished' /\ result'[t] = result[t]
  <2>1. WorkerRun(w) /\ (\/ result' = result
                         \/ \E x : result' = [result EXCEPT ![cur[w]] = x])
    BY <1>2 DEF StageThrows, RunReturns, RunBarrier, futures
  <2>2. QED
    BY <2>1, RunEnds DEF RunTypes
<1>3. CASE Elsewhere
  BY <1>3 DEF Elsewhere, futures
<1>4. QED
  BY <1>1, <1>2, <1>3, StepCases

LEMMA SubmittedStay ==
  ASSUME InputTypes, TypeOK, [PipelineNext]_pipelineVars
  PROVE  submitted \subseteq submitted'
<1>1. ASSUME NEW w \in Workers, \/ Take(w) \/ StageReturns(w) \/ StageFails(w)
                                \/ StageThrows(w) \/ RunReturns(w) \/ RunBarrier(w)
      PROVE  submitted' = submitted
  BY <1>1 DEF Take, StageReturns, StageFails, StageThrows, RunReturns, RunBarrier,
     WorkerTake, WorkerRun, vars, history
<1>2. QED
  BY <1>1, StepCases DEF Elsewhere

\* A batch that does not move keeps what it has collected.
LEMMA CollectedKept ==
  ASSUME Collected, RunTypes, InputTypes, OtherTypes, TypeOK, Place,
         [PipelineNext]_pipelineVars, NEW c \in Clients,
         inputs'[c] = inputs[c], results'[c] = results[c]
  PROVE  /\ Len(results'[c]) <= Len(inputs'[c])
         /\ \A k \in 1..Len(results'[c]) :
              /\ inputs'[c][k] \in finished'
              /\ results'[c][k] = result'[inputs'[c][k]] /\ results'[c][k] # Threw
         /\ bpc[c] = "returned" => Len(results'[c]) = Len(inputs'[c])
         /\ bpc[c] = "threw" =>
              /\ Len(results'[c]) < Len(inputs'[c])
              /\ inputs'[c][Len(results'[c]) + 1] \in finished'
              /\ result'[inputs'[c][Len(results'[c]) + 1]] = Threw
              /\ \A k \in 1..Len(inputs'[c]) : inputs'[c][k] \in submitted'
<1>1. Len(inputs[c]) \in Nat /\ Len(results[c]) \in Nat
  BY DEF InputTypes, OtherTypes
<1>2. \A k \in 1..Len(inputs[c]) : inputs[c][k] \in Tasks
  BY InputIsTask
<1>3. \A t \in Tasks : t \in finished => t \in finished' /\ result'[t] = result[t]
  BY ResultsStay
<1>4. \A k \in 1..Len(inputs[c]) : inputs[c][k] \in finished =>
        inputs[c][k] \in finished' /\ result'[inputs[c][k]] = result[inputs[c][k]]
  BY <1>2, <1>3
<1>5. \A k \in 1..Len(results[c]) : k \in 1..Len(inputs[c])
  BY <1>1 DEF Collected
<1>6. bpc[c] = "threw" => Len(results[c]) + 1 \in 1..Len(inputs[c])
  BY <1>1 DEF Collected
<1>7. QED
  BY <1>4, <1>5, <1>6, SubmittedStay DEF Collected

LEMMA CollectedStep ==
  ASSUME Collected, RunTypes, InputTypes, OtherTypes, TypeOK, Place,
         [PipelineNext]_pipelineVars
  PROVE  Collected'
<1>1. CASE UNCHANGED batch
  BY <1>1, CollectedKept DEF Collected, batch
<1>2. ASSUME NEW c \in Clients, NEW b \in Batches, BatchBegin(c, b)
      PROVE  Collected'
  <2>1. /\ inputs'[c] = b /\ results'[c] = <<>> /\ bpc'[c] = "batch"
        /\ \A d \in Clients \ {c} :
             inputs'[d] = inputs[d] /\ results'[d] = results[d] /\ bpc'[d] = bpc[d]
    BY <1>2 DEF BatchBegin, InputTypes, OtherTypes
  <2>2. b \in Seq(Tasks)
    BY PipelineAssumption
  <2>3. Len(results'[c]) = 0 /\ Len(inputs'[c]) \in Nat
    BY <2>1, <2>2
  <2>4. QED
    BY <2>1, <2>3, CollectedKept DEF Collected
<1>3. ASSUME NEW c \in Clients, NEW t \in Tasks, BatchGet(c, t)
      PROVE  Collected'
  <2>1. /\ results' = [results EXCEPT ![c] = Append(results[c], result[t])]
        /\ result[t] # Threw /\ t \in finished /\ bpc[c] = "batch"
        /\ Len(results[c]) < Len(inputs[c]) /\ t = inputs[c][Len(results[c]) + 1]
        /\ UNCHANGED <<inputs, bpc, result, finished>>
    BY <1>3 DEF BatchGet, Gets, InBatch, futures, vars
  <2>2. \A d \in Clients \ {c} : results'[d] = results[d]
    BY <2>1 DEF OtherTypes
  <2>3. results[c] \in Seq(Items) /\ Len(results[c]) \in Nat /\ Len(inputs[c]) \in Nat
    BY DEF OtherTypes, InputTypes
  <2>4. results'[c] = Append(results[c], result[t])
    BY <2>1 DEF OtherTypes
  <2>5. /\ Len(results'[c]) = Len(results[c]) + 1
        /\ results'[c][Len(results[c]) + 1] = result[t]
        /\ \A k \in 1..Len(results[c]) : results'[c][k] = results[c][k]
    BY <2>3, <2>4
  <2>6. \A k \in 1..Len(results'[c]) : k \in 1..Len(results[c]) \/ k = Len(results[c]) + 1
    BY <2>3, <2>5
  <2>7. /\ Len(results'[c]) <= Len(inputs'[c])
        /\ \A k \in 1..Len(results'[c]) :
             /\ inputs'[c][k] \in finished'
             /\ results'[c][k] = result'[inputs'[c][k]] /\ results'[c][k] # Threw
        /\ bpc'[c] = "batch"
    BY <2>1, <2>3, <2>5, <2>6 DEF Collected
  <2>8. QED
    BY <2>1, <2>2, <2>7, CollectedKept DEF Collected
<1>4. ASSUME NEW c \in Clients, NEW t \in Tasks, BatchThrow(c, t)
      PROVE  Collected'
  <2>1. /\ UNCHANGED <<inputs, results, result, finished, submitted>>
        /\ bpc' = [bpc EXCEPT ![c] = "threw"] /\ Gets(c, t) /\ result[t] = Threw
    BY <1>4 DEF BatchThrow, futures, vars, history
  <2>2. bpc'[c] = "threw" /\ \A d \in Clients \ {c} : bpc'[d] = bpc[d]
    BY <2>1 DEF OtherTypes
  <2>3. /\ Len(results[c]) < Len(inputs[c]) /\ t = inputs[c][Len(results[c]) + 1]
        /\ t \in finished /\ \A k \in 1..Len(inputs[c]) : inputs[c][k] \in submitted
    BY <2>1 DEF Gets
  <2>4. QED
    BY <2>1, <2>2, <2>3 DEF Collected
<1>5. ASSUME NEW c \in Clients, BatchReturn(c)
      PROVE  Collected'
  <2>1. /\ UNCHANGED <<inputs, results, result, finished, submitted>>
        /\ bpc' = [bpc EXCEPT ![c] = "returned"] /\ Len(results[c]) = Len(inputs[c])
    BY <1>5 DEF BatchReturn, futures, vars, history
  <2>2. bpc'[c] = "returned" /\ \A d \in Clients \ {c} : bpc'[d] = bpc[d]
    BY <2>1 DEF OtherTypes
  <2>3. QED
    BY <2>1, <2>2 DEF Collected
<1>6. QED
  BY <1>1, <1>2, <1>3, <1>4, <1>5
  DEF PipelineNext, PipelineWorker, Take, StageReturns, StageFails, StageThrows, RunReturns,
      RunBarrier, PoolCall, BatchStep, BatchSubmit, AddStage, DestroyPool, PoolDestroyed,
      DestroyPipeline, pipelineVars

-----------------------------------------------------------------------------
(***************************************************************************)
(* The theorems                                                            *)
(***************************************************************************)
\* pipeline_ goes last.
Lifetime == ~alive => cpc[Owner] = "destroyed"

LEMMA LifetimeStep ==
  ASSUME Lifetime, InputTypes, TypeOK, Ending, [PipelineNext]_pipelineVars
  PROVE  Lifetime'
<1>1. CASE DestroyPipeline
  BY <1>1 DEF DestroyPipeline, Lifetime, vars
<1>2. CASE alive' = alive
  <2>1. cpc[Owner] = "destroyed" => cpc'[Owner] = "destroyed"
    <3>1. [Next]_vars
      BY PoolStep
    <3>2. SUFFICES ASSUME cpc[Owner] = "destroyed" PROVE cpc'[Owner] = "destroyed"
      OBVIOUS
    <3>3. stop_ /\ \A c \in Clients \ {Owner} : cpc[c] = "idle"
      BY <3>2 DEF Ending
    <3>4. CASE UNCHANGED cpc
      BY <3>2, <3>4
    <3>5. ASSUME NEW c \in Clients, cpc' # cpc,
                 (\E t \in Tasks : SubmitTask(c, t)) \/ WaitBegin(c) \/ ClientCall(c)
          PROVE  FALSE
      <4>1. cpc[c] = "idle" \/ c = Owner
        BY <3>3
      <4>2. QED
        BY <3>2, <3>3, <3>5, <4>1 DEF SubmitTask, WaitBegin, ClientCall, SubmitNotify,
           BarrierSubmit, BarrierNotify, WaitReturn, ClientGoes
    <3>6. CASE DestroyStop \/ OwnerCall
      BY <3>2, <3>6 DEF DestroyStop, OwnerCall, DestroyNotify, DestroyJoin, ClientGoes
    <3>7. QED
      BY <3>1, <3>4, <3>5, <3>6 DEF Next, WorkerStep, WorkerTake, WorkerExit, WorkerBlock,
         WorkerRun, SpuriousWakeup, vars
  <2>2. QED
    BY <1>2, <2>1 DEF Lifetime
<1>3. QED
  BY <1>1, <1>2 DEF PipelineNext, PipelineWorker, Take, StageReturns, StageFails, StageThrows,
     RunReturns, RunBarrier, PoolCall, BatchStep, BatchSubmit, BatchGet, BatchThrow,
     BatchReturn, BatchBegin, AddStage, DestroyPool, PoolDestroyed, pipelineVars, pipe

\* A client in runBatch finds the pool open, and is in no other call of it than submit().
BatchOpen ==
  \A c \in Clients : InBatch(c) => ~stop_ /\ cpc[c] \in {"idle", "notify"}

\* What the pool does for one client moves no other.
LEMMA OwnCall ==
  ASSUME TypeOK, NEW c \in Clients,
         WaitBegin(c) \/ ClientCall(c) \/ \E t \in Tasks : SubmitTask(c, t)
  PROVE  /\ stop_' = stop_ /\ \A d \in Clients \ {c} : cpc'[d] = cpc[d]
         /\ ClientCall(c) /\ cpc[c] \in {"idle", "notify"} => cpc'[c] = "idle"
         /\ (\E t \in Tasks : SubmitTask(c, t)) => cpc'[c] = "notify"
  BY DEF TypeOK, WaitBegin, ClientCall, SubmitTask, SubmitNotify, BarrierSubmit, BarrierNotify,
     WaitReturn, ClientGoes

LEMMA BatchOpenStep ==
  ASSUME BatchOpen, OtherTypes, InputTypes, TypeOK, [PipelineNext]_pipelineVars
  PROVE  BatchOpen'
<1> USE DEF BatchOpen, InBatch
<1>1. CASE UNCHANGED <<bpc, stop_, cpc>>
  BY <1>1
<1>2. ASSUME NEW c \in Clients, PoolCall(c) PROVE BatchOpen'
  <2>1. bpc' = bpc
    BY <1>2 DEF PoolCall, batch
  <2>2. CASE InBatch(c)
    <3>1. ClientCall(c) /\ cpc[c] \in {"idle", "notify"}
      BY <1>2, <2>2 DEF PoolCall
    <3>2. QED
      BY <2>1, <3>1, OwnCall
  <2>3. CASE ~InBatch(c)
    <3>1. WaitBegin(c) \/ ClientCall(c) \/ \E t \in Tasks : SubmitTask(c, t)
      BY <1>2 DEF PoolCall
    <3>2. QED
      BY <2>1, <2>3, <3>1, OwnCall
  <2>4. QED
    BY <2>2, <2>3
<1>3. ASSUME NEW c \in Clients, BatchSubmit(c) PROVE BatchOpen'
  <2>1. PICK k \in 1..Len(inputs[c]) : SubmitTask(c, inputs[c][k])
    BY <1>3 DEF BatchSubmit
  <2>2. \E t \in Tasks : SubmitTask(c, t)
    BY <2>1, InputIsTask
  <2>3. bpc' = bpc
    BY <1>3 DEF BatchSubmit, batch
  <2>4. QED
    BY <2>2, <2>3, OwnCall
<1>4. ASSUME NEW c \in Clients, NEW b \in Batches, BatchBegin(c, b) PROVE BatchOpen'
  BY <1>4 DEF BatchBegin, OtherTypes, vars
<1>5. ASSUME NEW c \in Clients, NEW t \in Tasks, BatchThrow(c, t) PROVE BatchOpen'
  BY <1>5 DEF BatchThrow, OtherTypes, vars
<1>6. ASSUME NEW c \in Clients, BatchReturn(c) PROVE BatchOpen'
  BY <1>6 DEF BatchReturn, OtherTypes, vars
<1>7. CASE DestroyPool
  BY <1>7 DEF DestroyPool, batch
<1>8. CASE PoolDestroyed
  <2>1. bpc' = bpc /\ OwnerCall
    BY <1>8 DEF PoolDestroyed, batch
  <2>2. stop_' = stop_ /\ cpc[Owner] \in {"dtor", "join"}
    BY <2>1 DEF OwnerCall, DestroyNotify, DestroyJoin, ClientGoes
  <2>3. \A d \in Clients \ {Owner} : cpc'[d] = cpc[d]
    BY <2>1 DEF OwnerCall, DestroyNotify, DestroyJoin, ClientGoes, TypeOK
  <2>4. QED
    BY <2>1, <2>2, <2>3
<1>9. QED
  BY <1>1, <1>2, <1>3, <1>4, <1>5, <1>6, <1>7, <1>8
  DEF PipelineNext, PipelineWorker, Take, StageReturns, StageFails, StageThrows, RunReturns,
      RunBarrier, WorkerTake, WorkerExit, WorkerBlock, WorkerRun, SpuriousWakeup, BatchStep,
      BatchGet, AddStage, DestroyPipeline, pipelineVars, vars, batch

\* The inductive invariant of the pipeline above its pool.
PipelineInv ==
  /\ InputTypes /\ RunTypes /\ OtherTypes
  /\ Futures /\ Collected /\ Lifetime /\ BatchOpen

LEMMA PipelineInvInit == PipelineInit => PipelineInv
<1> SUFFICES ASSUME PipelineInit PROVE PipelineInv
  OBVIOUS
<1> USE DEF PipelineInit
<1>1. <<>> \in Seq(Tasks) /\ <<>> \in Seq(Items) /\ Len(<<>>) = 0
  OBVIOUS
<1>2. NoFrame \in Items /\ MaxStages \in Nat
  BY PipelineAssumption DEF Items
<1>3. InputTypes /\ RunTypes /\ OtherTypes
  BY <1>1, <1>2 DEF InputTypes, RunTypes, OtherTypes
<1>4. Futures
  BY DEF Futures, Init, Runs
<1>5. Collected
  BY <1>1 DEF Collected
<1>6. QED
  BY <1>3, <1>4, <1>5 DEF PipelineInv, Lifetime, BatchOpen, InBatch

\* What the pipeline does to its pool is what a client of the pool may do: every
\* theorem about ThreadPool holds for the pool of a ThreadPoolPipeline.
THEOREM PipelineImplementsPool == PipelineSpec => Spec
<1>1. PipelineInit => Init /\ InputTypes
  BY PipelineInvInit DEF PipelineInit, PipelineInv
<1>2. InputTypes /\ [PipelineNext]_pipelineVars => InputTypes'
  <2> SUFFICES ASSUME InputTypes, [PipelineNext]_pipelineVars PROVE InputTypes'
    OBVIOUS
  <2>1. CASE UNCHANGED inputs
    BY <2>1 DEF InputTypes
  <2>2. ASSUME NEW c \in Clients, NEW b \in Batches, BatchBegin(c, b) PROVE InputTypes'
    BY <2>2, PipelineAssumption DEF BatchBegin, InputTypes
  <2>3. QED
    BY <2>1, <2>2
    DEF PipelineNext, PipelineWorker, Take, StageReturns, StageFails, StageThrows, RunReturns,
        RunBarrier, PoolCall, BatchStep, BatchSubmit, BatchGet, BatchThrow, BatchReturn,
        AddStage, DestroyPool, PoolDestroyed, DestroyPipeline, pipelineVars, batch
<1>3. InputTypes /\ [PipelineNext]_pipelineVars => [Next]_vars
  BY PoolStep
<1>4. QED
  BY <1>1, <1>2, <1>3, PTL DEF PipelineSpec, Spec

\* The invariant holds, with that of the pool.
THEOREM PipelineInvariance == PipelineSpec => [](PipelineInv /\ IInv)
<1>1. PipelineInv /\ IInv /\ [PipelineNext]_pipelineVars => PipelineInv'
  BY OtherTypesStep, RunTypesStep, FuturesStep, CollectedStep, LifetimeStep,
     BatchOpenStep
  DEF PipelineInv, IInv
<1>2. QED
  BY <1>1, PipelineInvInit, PipelineImplementsPool, Invariance, PTL DEF PipelineSpec

\* Every variable of the pipeline keeps its type, and a worker has its own frame
\* in its hands, or nullptr.
THEOREM PipelineTypeCorrect == PipelineSpec => []PipelineTypeOK
<1>1. PipelineInv => PipelineTypeOK
  BY InputTypesOfTasks DEF PipelineInv, InputTypes, RunTypes, OtherTypes, Futures, Expected,
     Runs, PipelineTypeOK
<1>2. QED
  BY <1>1, PipelineInvariance, PTL

\* runBatch returns the result of each input at the place of that input, in
\* whatever order the workers ran them.
THEOREM BatchMatchesInputsHolds == PipelineSpec => []BatchMatchesInputs
<1>1. ASSUME PipelineInv, NEW c \in Clients, bpc[c] = "returned"
      PROVE  /\ Len(results[c]) = Len(inputs[c])
             /\ \A k \in 1..Len(results[c]) :
                  results[c][k] =
                    IF inputs[c][k] \in failed THEN NoFrame ELSE Input(inputs[c][k])
  <2>1. Len(results[c]) = Len(inputs[c])
    BY <1>1 DEF PipelineInv, Collected
  <2>2. ASSUME NEW k \in 1..Len(results[c])
        PROVE  results[c][k] = Expected(inputs[c][k])
    <3>1. inputs[c][k] \in Tasks
      BY <1>1, <2>1, InputIsTask DEF PipelineInv
    <3>2. /\ inputs[c][k] \in finished
          /\ results[c][k] = result[inputs[c][k]] /\ results[c][k] # Threw
      BY <1>1 DEF PipelineInv, Collected
    <3>3. QED
      BY <1>1, <3>1, <3>2 DEF PipelineInv, Futures
  <2>3. QED
    BY <2>1, <2>2 DEF Expected
<1>2. PipelineInv => BatchMatchesInputs
  BY <1>1 DEF BatchMatchesInputs
<1>3. QED
  BY <1>2, PipelineInvariance, PTL

\* runBatch throws what the first future that holds an exception holds, after it has
\* submitted all inputs.
THEOREM BatchThrowsFirstHolds == PipelineSpec => []BatchThrowsFirst
<1>1. PipelineInv => BatchThrowsFirst
  BY DEF PipelineInv, Collected, BatchThrowsFirst
<1>2. QED
  BY <1>1, PipelineInvariance, PTL

\* No worker is in run() when pipeline_ is destroyed, or ever after.
THEOREM PipelineOutlivesRunsHolds == PipelineSpec => []PipelineOutlivesRuns
<1>1. PipelineInv /\ IInv => PipelineOutlivesRuns
  BY DEF PipelineInv, IInv, Ending, Lifetime, Runs, PipelineOutlivesRuns
<1>2. QED
  BY <1>1, PipelineInvariance, PTL

\* A batch that cannot go on waits for the pool, and the pool is not stuck: its
\* tasks come to an end, with a result or an exception in every future.
THEOREM PipelineNeverStuckHolds == PipelineSpec => []PipelineNeverStuck
<1>1. ASSUME PipelineInv, NeverStuck, TypeOK, NEW c \in Clients, InBatch(c),
             \A w \in Workers : ~WorkerCan(w),
             \A d \in Clients : ~ClientCan(d) /\ ~BatchCan(d)
      PROVE  FALSE
  <2>1. ~stop_ /\ cpc[c] = "idle" /\ submitted \subseteq finished
    BY <1>1 DEF PipelineInv, BatchOpen, NeverStuck
  <2>2. \A k \in 1..Len(inputs[c]) : inputs[c][k] \in submitted
    BY <1>1, <2>1 DEF BatchCan
  <2>3. Len(results[c]) \in Nat /\ Len(inputs[c]) \in Nat
    BY <1>1 DEF PipelineInv, InputTypes, OtherTypes
  <2>4. Len(results[c]) < Len(inputs[c])
    BY <1>1, <2>1, <2>3 DEF BatchCan, PipelineInv, Collected
  <2>5. Len(results[c]) + 1 \in 1..Len(inputs[c])
    BY <2>3, <2>4
  <2>6. inputs[c][Len(results[c]) + 1] \in Tasks \intersect finished
    BY <1>1, <2>1, <2>2, <2>5, InputIsTask DEF PipelineInv
  <2>7. Gets(c, inputs[c][Len(results[c]) + 1])
    BY <1>1, <2>1, <2>2, <2>4, <2>6 DEF Gets
  <2>8. QED
    BY <1>1, <2>1, <2>6, <2>7 DEF BatchCan
<1>2. ASSUME PipelineInv, TypeOK, NEW t \in submitted, t \in finished
      PROVE  result[t] # NoResult
  <2>1. t \in Tasks
    BY <1>2 DEF TypeOK
  <2>2. result[t] \in {Threw, Expected(t)} /\ Expected(t) \in Items
    BY <1>2, <2>1, InputTypesOfTasks DEF PipelineInv, Futures, Expected, Items
  <2>3. QED
    BY <2>2, PipelineAssumption
<1>3. PipelineInv /\ IInv /\ NeverStuck => PipelineNeverStuck
  BY <1>1, <1>2 DEF PipelineNeverStuck, NeverStuck, IInv
<1>4. QED
  BY <1>3, PipelineInvariance, PipelineImplementsPool, NeverStuckHolds, PTL

=============================================================================

# A TLA+ model of engineering-atlas

The repository is a collection of projects. Its program of substance is
**OpenMachineLab** (`src/06-OpenMachineLab`, below *OML*), an inference engine
that moves frames through preprocess, inference and postprocess stages on
several threads. A smaller predecessor, the OpenCV/ONNX demo
(`src/03-Cpp/Cpp-lab/modules/opencv_onnx_demo`, below *the demo*), loads models
and runs them in one thread. The rest is vendored code (`json.hpp`, the ONNX
Runtime headers), demonstrations of language features and documents.

This directory models OML's threads, where an execution nobody tested can go
wrong, the ownership of OML's backends and sessions, and the algorithms around
inference that both programs share: letterbox, decoding of boxes, non-maximum
suppression, loading of models, statistics.

## Inventory

Paths are below `src/06-OpenMachineLab/` unless they say *demo*.

| Component | State | Operations | Talks to |
| --- | --- | --- | --- |
| `BlockingQueue` (`include/pipeline/BlockingQueue.h`) | `queue_`, `stop_`, `mutex_`, `not_empty_` | `push`, `pop`, `stop` | the two threads at its ends, and `stop()` of the pipeline |
| `StagedPipeline` (`src/pipeline/StagedPipeline.cpp`) | `stages_`, `queues_`, `workers_`, `results_`, `running_`, `stopped_` | `addStage`, `submit` (which starts), worker loop, `stop`, `collectResults`, `runBatch`, destructor | one `BlockingQueue` before and after each worker; stages by `process()` |
| `ThreadPool` (`src/pipeline/ThreadPool.cpp`) | `workers_`, `tasks_`, `mutex_`, `condition_`, `stop_` | `submit`, worker loop, `waitForAll`, destructor | tasks; futures |
| `ThreadPoolPipeline` | a `ThreadPool`, a `SequentialPipeline`, `profiling_enabled_` | `addStage`, `submit`, `runBatch`, `waitForAll` | `ThreadPool::submit`, `SequentialPipeline::run` on the workers |
| `SequentialPipeline`, `TimingStage` | `stages_`, `profiling_enabled_`; the frame's timings | `addStage`, `run`; `process` | stages |
| `PreprocessStage`, `InferenceStage`, `PostprocessStage` | configuration; labels | `process` | OpenCV; a model session |
| `Application` | `config_manager_`, `backends_`, `sessions_`, `initialized_` | `create`, `initialize`, `createPipeline`, `getSession`, `run`, `shutdown` | `ConfigManager`, `BackendRegistry`, backends |
| `ConfigManager` | the global configuration, one configuration per model | `loadGlobal`, `loadModelConfig`, `modelConfig` | files |
| `BackendRegistry`, `ONNXBackend`, `TensorRTBackend`, sessions | creators by name; initialized flag; a session | `registerBackend`, `createBackend`; `initialize`, `loadModel`, `shutdown`; `run`, `release` | ONNX Runtime |
| `BenchmarkRunner` | latencies | `run` | a pipeline function |
| demo `ModelManager`, `ModelRegistry`, `ModelLoader` | models by name, `current_` | `load`, `get`, `select`, `run` | demo `Inference` |
| demo `Inference`, `preProcessor`, `postProcessor`, `benchmark`, `logger` | shapes; none; none; samples; level and stream | `run`, ... | ONNX Runtime, OpenCV |

What is hard, and what makes each part correct:

* **`BlockingQueue`** is a monitor. Wakeups can be lost, stolen or spurious,
  and `stop()` notifies outside the mutex. It is correct when it behaves as a
  FIFO that can be closed, and nobody sleeps while there is something to do.
* **`StagedPipeline`** shuts down by a sentinel that travels through all
  queues, while frames are in flight, stages fail or throw, and other threads
  submit and collect. It is correct when results come out complete and in
  order, no frame is in two hands, `stop()` returns, and the destructor finds
  every worker joined. A failed stage's `nullptr` *is* the sentinel; a `submit`
  can race with `stop`.
* **`ThreadPool`** notifies outside the mutex, and `waitForAll` infers from
  empty tasks what other tasks did. It is correct when a task runs once, no
  task waits while all workers sleep, `waitForAll` and the destructor return,
  and the destructor leaves no accepted task undone.
* **`ThreadPoolPipeline`**: a batch whose stage throws while its other tasks are
  queued or run; the members' order of destruction; profiling switched on while
  tasks run. It is correct when every result is that of its input, `runBatch`
  comes back, and no run outlives the pipeline it uses.
* **`Application`**: `initialize` fails half-way and is called again; pipelines
  that run in other threads outlive `shutdown`, and a retry replaces backends and
  sessions under those that were handed out. It is correct when what was handed
  out stays usable, an initialized application is complete and consistent, and
  nothing is left over in the end.
* **Pre- and postprocessing**: rounding in the letterbox and on the way back, an
  unstable sort, suppression that chains. They are correct when a box comes back
  to where the model saw it, and suppression returns boxes that do not overlap
  and omits none without a returned reason.
* **`BenchmarkRunner`**: samples of size zero, one and two, ranks that fall on a
  sample. It is correct when a percentile divides the samples as its name says.
* **demo `ModelManager`**: a model is loaded once, and what is current or runs is
  the loaded one, also after a `select` that throws.

`PROJECT.json` lists every component and, under `hazards`, each hard spot with
its line and the properties that watch it.

## Modules

| Module | Models | Abstracts |
| --- | --- | --- |
| `FifoQueue` | what `BlockingQueue` promises | mutex, condition variable |
| `BlockingQueue` | `BlockingQueue<T>` step by step | values are distinct tokens |
| `OrderedPipeline` | what `StagedPipeline` promises its clients | workers, queues, sentinels |
| `StagedPipeline` | `StagedPipeline` over queues whose operations are `FifoQueue`'s | the work of a stage: it returns the frame, `nullptr`, or throws |
| `RunBatch` | `StagedPipeline::runBatch`, as a program of `StagedPipeline`'s calls | |
| `ThreadPool` | `ThreadPool` | the work of a task |
| `ThreadPoolPipeline` | `ThreadPoolPipeline` and `SequentialPipeline::run`, on top of `ThreadPool` | the work of a stage; profiling |
| `Application` | `Application` with its `ConfigManager`, `BackendRegistry`, backends, sessions and what clients hold of them | files, parameters of stages, tensors |
| `Letterbox` | the geometry of `PreProcessor::letterbox` and `PreprocessStage::process` | pixels |
| `Detection` | a run of a detection pipeline of either program: preprocessing, any output of a model, decoding, suppression | float arithmetic is exact |
| `ModelManager` | the demo's `ModelManager` and `PipelineFactory` | files |
| `BenchmarkRunner` | `BenchmarkRunner::run`, `percentile` | durations are small integers |
| `MC...` | instances for TLC | |
| `...Proofs` | theorems and proofs about the module of that name | |

Operators whose comment begins with *Mutation:* are not part of the model: each
is an action as a plausible bug would have it, kept beside the action it
replaces to show that a property would notice.

### BlockingQueue

`queue_`, `stop_`, `mutex_` are the members; `pc[t]` is the place of thread `t`
in `push`, `pop` or `stop`. Every statement that touches shared state is a step:
taking the mutex (`PushLock`, `PopLock`, `StopLock`), the body, the
notification. `wait()` is the loop of the standard: test of the predicate
(`PopUnready` or a return), then release-and-block in one step (`PopBlock`),
woken by `NotifyOne`, `NotifyAll` or for no reason (`SpuriousWakeup`), then a
race for the mutex like everybody else (`PopLock` from `"woken"`). `push`
notifies with the mutex held, `stop` after it released it, as in the code.

`ImplementsLiveQueue` maps the monitor to `FifoQueue`: `items <- queue_`,
`closed <- stop_`, a consumer is `finished` once its `pop` returned `nullopt`.
`ImplementsFifoQueue` is its safety half.

### StagedPipeline

Queue `i` is `queues_[i-1]`. It is kept with its history: `log[i]` is all that
was pushed, `head[i]` counts the pops. `FifoQueue` allows exactly these
pushes and pops, so a queue operation is one step here and the granularity of
the mutex is left to `BlockingQueue`.

| Code (`StagedPipeline.cpp`) | Actions |
| --- | --- |
| `addStage` (13-24) | `AddStage` |
| `submit` (66-77) with `start` (26-64) | `SubmitCheck`, then `SubmitPush`: the test of `stopped_` and the rest are separate steps, so a `stop()` fits between them |
| worker loop (44-61) | `WorkerPop`, `WorkerExit`, `StageReturns`, `StageFails`, `StageThrows` |
| `stop` (79-121) | `StopBegin`, `StopJoin`, `DrainFrame`*, `DrainEnd`, `StopFinish` |
| `collectResults` (123-128) | `CollectResults` |
| destructor (11) | `Destroy`, after a `stop()` that has something to do |

Where two statements of a call are one step, a comment in the module says why
nothing another thread can do in between makes a difference. Calls that throw
and change nothing (a null stage, a stopped pipeline) are the disabled cases of
their actions.

Clients are one *owner*, who builds, stops and destroys, and at most one other
thread, which submits and collects once the pipeline runs. The code asks for
no less: two unsynchronised first `submit` calls race on `queues_`, and `submit`
without a stage is undefined, so these are preconditions here (`ClientAssumption`,
guards of `SubmitCheck`). A frame is submitted at most once; `nullptr` may be
submitted too.

`ImplementsOrderedPipeline` maps all this to `OrderedPipeline`: what was pushed to
the first queue is `accepted`, what the drain pushed to the results is `delivered`,
collected or not, and `ended` is that `stop()` has closed the queues. The worker's
steps are stutters there, but for the failure of a frame.

`QueueOf(i)` maps queue `i` to `FifoQueue`, the specification that `BlockingQueue` is
shown to implement: the pipeline asks of its queues only what the class promises.

### ThreadPool

A critical section is one step; notifications, which the code makes outside it,
are steps of their own, and so is the running of a task. A worker's test of the
predicate and its block are one step because `condition_variable` releases and
blocks atomically and the predicate only reads what the mutex protects.
`waitForAll` is `WaitBegin`, one `BarrierSubmit` and `BarrierNotify` per worker,
and `WaitReturn` when all its futures are ready. The destructor is
`DestroyStop`, `DestroyNotify`, `DestroyJoin`; as in C++, no other client uses
the pool any more.

### RunBatch

`RunBatch` extends `StagedPipeline` with the place of the owner in `runBatch`
(`phase`), its argument and its result. Each of its steps is a step of
`StagedPipeline` under the order of lines 132-144 (`SubmitInput`,
`InputSubmitted`, `BatchStop`, `BatchStopping`, `BatchReturn`), or leaves the
pipeline alone (`SubmitRefused`: `submit` threw). `std::sort` may return any
arrangement that its order allows (`Sorted`). The owner's other calls come before
and after; nobody else uses the pipeline (`BatchAssumption`).

### ThreadPoolPipeline

The module extends `ThreadPool` and refines one thing: the running of a task is
`SequentialPipeline::run`, a step per stage (`StageReturns`, `StageFails`,
`StageThrows`) and a return (`RunReturns`). All steps of the pool are taken from
`ThreadPool` as they are, with what the future holds (`result`) set by the step
that makes it ready. `runBatch` is `BatchBegin`, `BatchSubmit` with the pool's
notification, then `BatchGet` or `BatchThrow` per future, and `BatchReturn`. The
implicit destructor destroys `pool_` (the pool's three steps), then `pipeline_`
(`DestroyPipeline`). Stages are added before the first submit, as `stages_` is not
protected.

### Application

One thread calls `create`, `initialize`, `createPipeline`, `getSession`, `shutdown`
and the destructor (`config = None`: there is no application). Clients `c` are
places elsewhere, each with at most one session or pipeline; they run and drop it
at any time, also between two steps of `initialize`.

`initialize` (`Application.cpp:41-110`) is one step per backend and per model, in
the order of its two loops: `next` counts through the first list, then the second.
`InitializeThrows` is any of its exceptions at any of these places; as in the code
nothing is undone, and the next call begins at the first backend again, so that
`BackendReady` and `ModelLoaded` overwrite entries. `shutdown` is one step
(`Clear`), for the same thread calls everything else.

A `shared_ptr` is the set of its owners, and an object dies with the last:
`owners[s]` has the model whose entry in `sessions_` is `s`, and the clients;
`envOwners[b]` has the backend that made the `Ort::Env` and the sessions loaded
from it (`ONNXBackend.cpp:108-115`). `Living` and `Survivors` are the destructors
that run when an assignment, `clear()` or a client drops an owner. `release()` is
called as its comment asks: by the last owner, and then only `Drop` follows.

### Letterbox, Detection

A run is `Preprocess`, `Decode` of whatever the model answered, one `Suppress` per
round of the suppression loop, and `Return`; `Throw` is an exception of the model
or of a missing label file, after which the next run starts. Both programs have the
same code here but for one thing: the demo maps boxes back to the original image
(`restore`).

Coordinates are integers in half pixels of the model's input, or that divided by
the numerator of the scale, so that the padding's halves and the division by the
scale are exact. `std::sort` may return any order that the confidences allow
(`Sorted`). The model's output is any sequence of candidates, of the wrong length
too.

### ModelManager, BenchmarkRunner

An `Inference` is an identity with the name it was made for. `Loaded(n, o)` is
`load` with its lookup; `Select` and `LoadModel` use it; an exception changes
nothing and is the disabled case. `CreatePipeline` takes what the client got from
`load`, `get` or `current`.

`BenchmarkRunner` has a step per call of the pipeline. Percentiles are kept in
hundredths; the guards of the interpolation are those of the code, those that can
never be true included.

## Runs

All runs but `vision` set `CHECK_DEADLOCK FALSE`: a queue nobody pushes to, a pool
nobody submits to and a destroyed object legitimately stand still. What that means,
and that nothing else stands still, is `NeverStuck` of the three modules with threads:
when none of them can go on, nothing is left to do. It needs no fairness, so that it
can be proved; that what can go on does go on is stated as liveness.

| Run | Instance | Shows |
| --- | --- | --- |
| `queue` | 2 producers, 3 consumers, 2 stoppers, 2 values, 1 spurious wakeup, fair | no lost wakeup; nobody is stuck, whether the queue runs or was stopped; the monitor implements `FifoQueue` with its liveness |
| `staged` | up to 3 stages, 3 frames and submitted `nullptr`s, stages that return, fail and throw, a second client that submits and collects, fair | results in order and complete up to the first break, as `OrderedPipeline` promises them, nothing stuck, one owner per frame, nothing but a stage or a restart ends the process, `stop` returns, frames flow without it; all with `submit` racing `stop`, restarts and concurrent collection |
| `staged_healthy` | 2 stages, 2 frames | *violated*: see findings |
| `staged_final` | 1 stage, two clients | *violated*: see findings |
| `batch` | 2 stages, 3 frames, ids 0..2, batches of 0 to 3 inputs, one with a `nullptr` | what `runBatch` returns; it is refused as a whole or not at all; it only makes a client's calls |
| `batch_order` | 1 stage, 2 frames | *violated*: see findings |
| `pool` | 2 workers, 2 clients, 1 task, 1 spurious wakeup, fair | no task lost or run twice, no lost wakeup, the destructor drains, nothing stuck; tasks finish, overlapping `waitForAll` and the destructor return |
| `pool_wait` | 2 workers, 1 client, 2 tasks | *violated*: see findings |
| `pool_pipeline` | 2 workers, 2 stages, 3 submissions of which 1 `nullptr`, 1 spurious wakeup | results belong to their inputs, `runBatch` throws the first exception, nothing runs on a destroyed pipeline |
| `pool_pipeline_live` | 2 workers, 2 stages, 2 submissions, fair | implements `ThreadPool` with its liveness; when `waitForAll` returns, earlier tasks were taken, and finished but for those of the other worker; `runBatch` returns |
| `application` | 3 backend names, 5 configurations with up to 2 models, 4 backends, 4 sessions, 2 clients | what was handed out stays usable, an initialized application is complete, nothing leaks |
| `vision` | 4 images, 4 configurations, up to 3 candidates of 12; 4 names and 3 models; up to 4 runs of 3 durations | suppression, the way back of boxes, one session per model, percentiles; and no part gets stuck |

Bounds. Three consumers are the fewest with which one can be woken, one running
and one asleep; two producers let two notifications overlap. Three stages have
a first, an inner and a last worker, and three frames fill them all at once; a
failure can then have frames before and behind it. Two workers are the fewest
with which one runs a task while the other takes all the empty ones; for the
queue an empty task is a task, so two overlapping `waitForAll` calls and one
submitted task are five tasks. Spurious
wakeups (`MaxSpurious`) are bounded only to keep the state space finite. Batches of
three with three ids are the smallest in which a failure has frames on both
sides and every order of ids occurs. Runs that check liveness use no symmetry;
`pool_pipeline` uses that of its workers, `application` that of backends, sessions and
clients.

Four backends and four sessions leave room for the two of one attempt of
`initialize` beside those that clients kept from earlier ones; an identity is used
again when its object is dead, and when none is free only the making of another
object is disabled. The configurations are the shipped one, a backend
listed twice, two backends, a placeholder that loads no model, and one nobody
registered. In `vision` three candidates are the fewest in which a suppressed box
overlaps a third; the images are enlarged, reduced with rounding, square, and so
long that a side vanishes; four samples put p50 and p90 between ranks, three and
two on and between them. Its three parts share no state, and each behaviour is of
one of them (`part`).

Fairness is weak fairness of each thread inside a call and of each worker's
loop, which is what an operating system that runs every ready thread gives.
Nothing forces a client to submit, wait, stop or destroy. A mutex with finitely
many callers is eventually free for each, so strong fairness is not needed.
A stage that throws ends the process, after which nothing can be expected:
`StopTerminates` and `FramesFlow` say so. Clients have only finitely many frames,
so "frames flow" is stated as: again and again nothing is left inside.

## Findings

1. *A failed frame takes the healthy ones behind it along* (`staged_healthy`).
   A stage returns `nullptr` for a frame; the worker pushes it, and downstream
   it is the sentinel. `IPipelineStage.h:16` speaks of a fatal error "for this
   frame". The property leaves aside clients that submit a `nullptr` themselves or
   submit after `stop()` (`OnlySentinel`), so what loses the frames is the failure.
   What does hold is `DrainComplete`: everything before the first failure comes
   out. Nothing but a failure refutes the header
   (`HealthyFramesDeliveredWithoutFailure`), and what clients must do is to submit
   frames only and none while they stop (`HealthyFramesDeliveredWithoutBreak`).
2. *A stopped pipeline can start again* (`staged_final`). `submit` passes its
   test of `stopped_`, `stop()` runs to its end, `submit` finds `running_` false
   and starts new workers on closed queues. `running()` stays true, `stop()`
   does nothing any more, and the destructor meets joinable threads. The race is the
   only way there: a pipeline stays stopped if no `submit` is between its test and its
   push while `stopped_` is set (`StopIsFinalWithoutRace`), and so whenever a single
   thread uses it (`StopIsFinalAlone`).
3. *`waitForAll` returns early* (`pool_wait`). One worker can run all empty
   tasks while another is still busy with a task submitted before. What the
   comment in `ThreadPool.cpp:40-41` says, that tasks are *consumed*, does hold, and
   some worker runs none of them any more: `WaitForAllConsumes`. So a pool of one
   worker keeps the promise of the header (`WaitForAllCompletesAlone`).

4. *`runBatch` sorts by the caller's ids* (`batch_order`). The queues keep the
   order of submission (`ResultsInOrder`), the sort by `frame_id` undoes it when
   ids do not ascend, and with equal ids, such as the default 0, the order is up
   to `std::sort`. The run shows the first, with two ids that descend. The header promises input order. With ascending ids it holds:
   `AscendingIdsKeepOrder`.

Seen while modelling, and not the subject of a run:

* In stretch mode the demo leaves `PreprocessInfo.scale` at 1 and `pad` at 0
  (`preProcessor.cpp:72-92`), so `detect` clips the boxes of a stretched image but
  does not scale them back (`postProcessor.cpp:142-148`), although
  `modelInfo.h:40-42` promises the mapping without naming the mode. No model in the
  repository combines the two.
* A letterboxed image whose short side rounds to zero makes `cv::resize` throw.
* `BenchmarkRunner`'s `mean_ms` is the total time, which includes `frame_source`,
  divided by the number of runs (`Benchmark.cpp:76`), unlike the demo's
  (`benchmark.cpp:59-60`); it may exceed `max_ms`.
* The demo's `Benchmark::run` with no runs reads `front()` of an empty vector
  (`benchmark.cpp:54`).
* After an `initialize` that threw, `getSession` hands out the sessions made so far
  although `initialized()` is false.
* `release()` on a shared session takes it from everybody who holds it. Nothing in
  the repository calls it.
* Without a declared default backend `ConfigManager` falls back to `onnx`, the
  struct to `onnx_cpu` (`GlobalConfig.h:218`).
* The demo's logger takes its mutex in `log` but not in `setLevel` and `setOutput`.

## Proofs

TLAPS checks the following for all values of the constants. The only
assumptions are those declared in the modules: disjoint roles, finitely many
consumers (`BlockingQueue`), `NoFrame \notin Frames`, a natural bound on stages
and at most one second client (`StagedPipeline`), finitely many workers and at
least one (`ThreadPool`), model names that differ within a configuration, as keys of
a map do (`Application`), sizes that are positive (`Detection`).

`BlockingQueueProofs`
: `TypeCorrect`, and from one inductive invariant `MutualExclusionHolds`,
  `NoLostWakeupHolds`, `StopReachesWaitersHolds` and `NeverStuckHolds`. The invariant adds to
  `TypeOK` and the three properties what they need to be inductive: a consumer
  that is about to block found the queue empty and not stopped, and since it
  holds the mutex that is still so. `NoLostWakeup` counts: a push adds one value
  and one pending notification, which becomes one awake consumer; a consumer
  that leaves the awake set takes a value with it, or found none. The steps of
  the cardinalities are the lemma `AwakeFinite` and the library's theorems on
  finite sets.
: `NeverStuckHolds`: whoever is in a critical section holds the mutex, so it is free
  when nobody can go on; then every consumer sleeps or is done, and a value with all
  asleep contradicts `NoLostWakeup`, a sleeper in a stopped queue
  `StopReachesWaiters`. `Done` adds that a consumer that is done left a stopped and
  empty queue, in which nothing is pushed any more.
: `ImplementsFifoQueueHolds`: every step of the monitor is a step of
  `FifoQueue` or a stutter. This is the safety half of `ImplementsLiveQueue`.

`StagedPipelineProofs`
: `TypeCorrect`: in particular a pop never runs past what was pushed and
  `results_` never holds `nullptr`. The lemmas `PushGrows`, `GrowsHead` and
  `PopHead` say what a push and a pop do to a queue with its history.
: `ResultsInOrderHolds` and, as a part of `NeverStuck`, `DrainNeverBlocks`, for any number of stages
  and frames. The two properties speak of the first and the last queue only; the
  invariant `Inv` (`Invariance`) says what happens in between. `Lifecycle`:
  start, then stop, each once before any restart. `Staff`: stop joins all
  workers, and no queue is closed before they have exited. `Balance`: a worker
  has pushed as many items as it has popped, but for the one in its hands. From
  these follows `Conveyor`: the k-th item of every queue is the k-th submitted
  item, or the `nullptr` some stage put in its place. `Sentinels`: an exited
  worker pushed `nullptr` last. `Drained`: until the drain nothing is delivered,
  and the drain delivers exactly what it pops. All parts of `Inv` but the types speak
  of the first run of the workers. That is enough, restarts (finding 2) included:
  when workers start a second time stop() is over for good, and nothing is
  delivered any more.
: `ExclusiveFrameHolds`. `Located` names the places where a frame can be: in a
  queue, in the hands of a worker, the argument of a `submit` under way, among the
  results, failed. `OnePlace` says that no frame is at two of them; it needs
  `AllKnown` (only what was submitted is anywhere) and `HandsFull` (nobody processes
  `nullptr`). A step either leaves frames where they are or moves one
  (`OnePlaceStill`, `OnePlaceMoves`). This holds after restarts too.
: `DrainCompleteHolds`, from `Nulls` (a `nullptr` in a queue stands where a frame
  broke) and `Ended` (a drain that is over met one). `NeverStuckHolds`, from
  `Conveyor` and `Sentinels`: if a frame has not come through, take the first worker
  that handed on too few; its queue holds an item for it, so that it can go on
  unless it has exited, and it exits at a break only. If a worker has not exited while
  `stop()` joins, the first such worker has a sentinel to come, from `stop()` or from
  the worker before it (`SentinelSent`). The first worker is `LeastNumber`.
: `ImplementsOrderedPipelineHolds`, action by action (`OrderedStep`): a push to an
  inner queue and a pop are stutters; an accepted item finds the queues open;
  `Located` says that a frame that fails is inside; the drain delivers the item whose
  turn it is because the item it pops is the k-th submitted one (`DrainDelivers`), and
  ends at a break. After a restart the queues are closed: nothing is accepted.
: `QueuesAreFifo`, for every queue: in terms of `log`, `head` and `closed` each action
  leaves the queue alone or is one push, one pop or the close (`OneOperation`).
: When the comments of findings 1 and 2 are right. `HealthyFramesDeliveredWithoutFailure`
  follows from `Ended`: a drain that is over met a break, and without a failed frame that
  is the sentinel, behind all frames. `StopIsFinalWithoutRace` and
  `HealthyFramesDeliveredWithoutBreak` assume `[]NoRace` or `[](NoRace /\ NoBreak)` of the
  behaviour, which a client can meet, and the second concludes `OnlySentinel` too.
  `StopIsFinalAlone` has one client thread, which meets `NoRace` by itself.
: `OnlyStagesAbortHolds`, from
  `Joined` (while there are threads to join, `stop()` has them still before it).

`RunBatchProofs`
: `BatchTypeCorrect` and `BatchImplements`: every step of a batch is one of
  `StagedPipeline` or a stutter, for which one has to know that the input to be
  submitted exists (`InputPending`). So all theorems about `StagedPipeline` hold
  for batches, `BatchResultsInOrder` for one.
: `ThrowsBeforeSubmittingHolds`, from `Refused`: `stopped_` is not set while a batch
  submits, so a batch that meets it has met it at its first input.
: `BatchCompleteHolds`, from `Served`: a batch that has submitted something is the one
  that stops the pipeline, finds nothing collected before, and returns an arrangement
  of all that was delivered; the rest is `DrainComplete` and `ResultsInOrder`.
: `AscendingIdsKeepOrderHolds`: with strictly ascending ids only one arrangement is
  sorted. The place of the k-th frame in it is a strictly ascending map of `1..n` into
  itself, and such a map is the identity (`AscendingIsIdentity`, by counting).

`ApplicationProofs`
: `TypeCorrect`, `HandlesStayUsableHolds`, `InitializedIsCompleteHolds` and
  `NothingLeaksHolds`, for any configurations, numbers of objects and clients. The
  invariant says who the owners are: `SessionOwners` and `EnvOwners` (an owner of a
  session is the entry that names it or a client that holds it, and conversely;
  a living session owns its environment), `BackendEntries` and `SessionEntries` (an
  entry is an object that lives), `HeldNative`. Leaks and dangling handles follow
  from these alone. Completeness needs `Progress`: while `initialize` is at its
  n-th step, all entries before it are from this attempt.

`DemoProofs`
: `OneSessionHolds`, for any registry: the property with the types is inductive.
  `LetterboxFits`: the resized image is no larger than the input of the model, the
  padding makes up the difference, and its two sides differ by one pixel at most. `NmsKeepsTheBestHolds`: the invariant
  `Loop` says what is kept and suppressed when the loop is at any index, for any
  threshold, any output and any order the sort allows. `BoxesComeBackHolds` is
  integer arithmetic: the lemmas before it bound the rounding of the resized side
  and carry it through clipping, for images and models of any size.

`BenchmarkRunnerProofs`
: `StatisticsDivideHolds`, for any number of runs and any latencies. The invariant,
  `BenchmarkInvariance`, says that the statistics are those of an ascending
  arrangement of the latencies. `Neighbours` shows that the guards of `percentile` keep
  the index inside and that the value is a weighted mean of two neighbours,
  `PercentileDivides` and `PercentileOrder` follow for the sorted samples, and
  `SortedCounts` carries the counts over to the samples in the order of the calls.

`ThreadPoolProofs`
: `TypeCorrect`, `TaskInOnePlaceHolds`, `NoLostWakeupHolds`,
  `StopReachesWorkersHolds`, `DestroyDrainsHolds`, `WaitForAllConsumesHolds` and
  `NeverStuckHolds`, for any finite number of workers and any clients and tasks. `Place` is
  `TaskInOnePlace` without cardinalities. `Order`: while a task that was
  submitted before a `waitForAll` is queued, every empty task this call has submitted
  so far is queued behind it. `Passed`: once an empty task of a `waitForAll` has been
  taken, all earlier tasks have been, and some worker runs none of them; the witness is
  the worker that took the empty task, and nobody can take an earlier task again. With
  one worker this is `WaitForAllCompletesAlone`. `Ending`: once the
  destructor has begun no client is in a call, and a worker that has exited left an
  empty queue in a stopped pool. `Counting` says that only finitely many clients have
  a notification pending, so that the sum in `NoLostWakeup` is defined. `NeverStuck`
  follows without more: when nobody can go on all workers sleep or have exited and no
  notification is pending, so `NoLostWakeup` empties the queue, `Place` finishes what
  is in no worker's hands, and with that the empty tasks of every `waitForAll`.

`ThreadPoolPipelineProofs`
: `PipelineImplementsPool`: every step is one of `ThreadPool` or a stutter, so all
  theorems about the pool, and its invariant, hold for the pool of a pipeline. Above
  them `PipelineTypeCorrect`, `BatchMatchesInputsHolds`, `BatchThrowsFirstHolds` and
  `PipelineOutlivesRunsHolds`, for any numbers of workers, clients, frames and stages.
  `Futures`: a run has in its hands what its task will return, and a ready future holds
  that or an exception; it needs the pool's `Place`, since a task that ran on two
  workers could fail on one of them only. `Collected`: `runBatch` has taken the results
  of its inputs in their order. `Lifetime`: the pipeline goes after the pool, which
  has joined its workers. `BatchOpen`: the pool is open to a client in `runBatch`, and
  the only call of the pool it is in is `submit`. With it and the pool's `NeverStuck`,
  `PipelineNeverStuckHolds`: when no worker, no call and no batch can go on, no client is
  inside `runBatch` and every submitted frame has its result or exception. No run
  checks `PipelineNeverStuck`: `BatchReturns` says more there, under fairness.

Model-checked only: all liveness properties, and the liveness halves of
`ImplementsLiveQueue` and `ImplementsThreadPool`. What fairness cannot be used for
here, that a wait ends, is proved as far as it is safety: `NeverStuck`.

TLAPS does neither liveness under fairness nor, with the provers used, induction: the
theorems of the library about it have an operator as parameter. Where a proof needs
one, it takes the least counterexample instead, for which the library's theorem speaks
of sets (`LeastNumber`).

## Not modelled

* *Vendored code*: `json.hpp` and the headers of ONNX Runtime are more than four
  fifths of the C++ lines. They are libraries; what the program takes from them is
  in the modules that use them.
* *Pixels, tensors and floating point*: colour conversion, normalisation, layouts,
  softmax and top-k compute values that no property here tells apart. Geometry and
  percentiles are exact numbers; the `1e-6` in the divisor of `computeIoU` matters
  for boxes without area only, which never overlap here either.
* *Profiling*: timestamps and `TimingStage`. They change no control, but reading
  `profiling_enabled_` while tasks run is a data race (see the hazards).
* *The inside of ONNX Runtime, OpenCV and TensorRT*: an inference is any answer or an
  exception; the `TensorRT` classes of OML are placeholders that throw, and that is
  how they are modelled.
* *Parsing*: `ConfigManager`, `ModelLoader`, `ModelRegistry` read files into structs;
  a configuration here is what they may contain.
* *The demo's `Inference`*: `syncTensorShape` and `fixInputShape` prepare data that
  only ONNX Runtime interprets.
* *`oml_demo`*: a command line around `Application` and a pipeline.
* *The demo's benchmark and logger*: the former is `BenchmarkRunner` without its
  guards, the latter is used by one thread.
* *Language demonstrations* (`Modern-CPP`, `LinuxDemo`, the placeholders of
  `Cpp-lab`): no system behind them.

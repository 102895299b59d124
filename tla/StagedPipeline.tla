--------------------------- MODULE StagedPipeline ---------------------------
(***************************************************************************)
(* oml::pipeline::StagedPipeline (include/pipeline/StagedPipeline.h,       *)
(* src/pipeline/StagedPipeline.cpp): one worker thread per stage, joined   *)
(* by FIFO queues that carry frames and nullptr sentinels.                 *)
(*                                                                         *)
(* Queue i (queues_[i-1] in the code) feeds stage i; queue workers+1 is    *)
(* the output.  Its operations are the atomic ones of FifoQueue, which     *)
(* BlockingQueue implements.  A queue is kept with its history: log[i] is  *)
(* everything ever pushed and head[i] counts the pops, so its content is   *)
(* the part of log[i] after head[i].                                       *)
(*                                                                         *)
(* The owner builds, stops and destroys the pipeline; one other thread may *)
(* submit and collect beside it once the pipeline has been started.        *)
(***************************************************************************)
EXTENDS Naturals, Sequences

CONSTANTS
  Frames,      \* the frames clients own; each is submitted at most once
  NoFrame,     \* nullptr: the sentinel, and the result of a failed stage
  MaxStages,   \* bound on addStage calls
  Owner,
  Submitters,
  Outcomes     \* what stage->process may do: "frame", "null", "throw"

ASSUME ClientAssumption ==
  /\ Owner \notin Submitters
  /\ \A a, b \in Submitters : a = b

ASSUME FrameAssumption == NoFrame \notin Frames

ASSUME StagesAssumption == MaxStages \in Nat

ASSUME OutcomesAssumption == Outcomes \subseteq {"frame", "null", "throw"}

Clients == {Owner} \union Submitters
Items == Frames \union {NoFrame}
Stage == 1..MaxStages
Queue == 1..(MaxStages + 1)

VARIABLES
  stages,              \* stages_.size()
  workers,             \* workers of the last start(), or 0
  starts,              \* history: start() calls that built workers
  running_, stopped_,
  log, head, closed,   \* the queues: pushed, pop count, stop_
  wpc,                 \* worker i: "none", "pop", "process", "exited", "threw"
  joinable,            \* the workers not joined yet
  results_,
  collected,           \* history: what collectResults() handed out so far
  failed,              \* history: frames some stage returned nullptr for
  cpc, carg,           \* each client: location, and argument of its submit
  aborted              \* std::terminate was called

build   == <<stages, workers, starts, joinable>>
flags   == <<running_, stopped_, aborted>>
queues  == <<log, head, closed>>
results == <<results_, collected>>
clients == <<cpc, carg>>
vars == <<build, flags, queues, wpc, results, failed, clients>>

Init ==
  /\ stages = 0 /\ workers = 0 /\ starts = 0 /\ joinable = {}
  /\ running_ = FALSE /\ stopped_ = FALSE /\ aborted = FALSE
  /\ log = [i \in Queue |-> <<>>]
  /\ head = [i \in Queue |-> 0]
  /\ closed = [i \in Queue |-> FALSE]
  /\ wpc = [i \in Stage |-> "none"]
  /\ results_ = <<>> /\ collected = <<>> /\ failed = {}
  /\ cpc = [c \in Clients |-> "idle"]
  /\ carg = [c \in Clients |-> NoFrame]

-----------------------------------------------------------------------------
(***************************************************************************)
(* Queues                                                                  *)
(***************************************************************************)
Empty(i) == head[i] = Len(log[i])
Front(i) == log[i][head[i] + 1]

\* A push into a stopped queue is dropped.
Push(i, x) == log' = IF closed[i] THEN log ELSE [log EXCEPT ![i] = Append(@, x)]

Pop(i) == ~Empty(i) /\ head' = [head EXCEPT ![i] = @ + 1]

\* pop() returned the sentinel, or nullopt because the queue is stopped.
PopEnd(i) ==
  \/ Pop(i) /\ Front(i) = NoFrame
  \/ Empty(i) /\ closed[i] /\ UNCHANGED head

\* The output queue, queues_.back().
Output == workers + 1

-----------------------------------------------------------------------------
(***************************************************************************)
(* The loop of worker i                                                    *)
(***************************************************************************)
WorkerGoes(i, from, to) ==
  /\ ~aborted
  /\ wpc[i] = from
  /\ wpc' = [wpc EXCEPT ![i] = to]

\* The frame worker i is processing.
InHand(i) == log[i][head[i]]

\* Mutation: a worker that hands a frame on before it processes it.
PopAndForward(i) ==
  /\ WorkerGoes(i, "pop", "process")
  /\ Pop(i) /\ Front(i) # NoFrame
  /\ Push(i + 1, Front(i))
  /\ UNCHANGED <<build, flags, closed, results, failed, clients>>

WorkerPop(i) ==
  /\ WorkerGoes(i, "pop", "process")
  /\ Pop(i) /\ Front(i) # NoFrame
  /\ UNCHANGED <<build, flags, log, closed, results, failed, clients>>

\* Mutation: a worker that leaves without passing the sentinel on.
ExitSilently(i) ==
  /\ WorkerGoes(i, "pop", "exited")
  /\ PopEnd(i)
  /\ UNCHANGED <<build, flags, log, closed, results, failed, clients>>

\* Mutation: a worker that ends when it sees stopped_, not at the sentinel.
ExitOnStopped(i) ==
  /\ WorkerGoes(i, "pop", "exited")
  /\ stopped_
  /\ Push(i + 1, NoFrame)
  /\ UNCHANGED <<build, flags, head, closed, results, failed, clients>>

\* A sentinel, or nullopt, ends the worker, which passes a sentinel on.
WorkerExit(i) ==
  /\ WorkerGoes(i, "pop", "exited")
  /\ PopEnd(i)
  /\ Push(i + 1, NoFrame)
  /\ UNCHANGED <<build, flags, closed, results, failed, clients>>

\* Mutation: a push that gives up when the next queue is not empty.
ReturnOrDrop(i) ==
  /\ "frame" \in Outcomes
  /\ WorkerGoes(i, "process", "pop")
  /\ IF Empty(i + 1) THEN Push(i + 1, InHand(i)) ELSE UNCHANGED log
  /\ UNCHANGED <<build, flags, head, closed, results, failed, clients>>

\* Stages update the frame in place and return it.
StageReturns(i) ==
  /\ "frame" \in Outcomes
  /\ WorkerGoes(i, "process", "pop")
  /\ Push(i + 1, InHand(i))
  /\ UNCHANGED <<build, flags, head, closed, results, failed, clients>>

\* Mutation: a worker that drops a failed frame instead of pushing nullptr.
FailureDropped(i) ==
  /\ "null" \in Outcomes
  /\ WorkerGoes(i, "process", "pop")
  /\ failed' = failed \union {InHand(i)}
  /\ UNCHANGED <<build, flags, queues, results, clients>>

\* A stage that fails for this frame returns nullptr, which is pushed like a
\* result; the worker goes on with its next frame.
StageFails(i) ==
  /\ "null" \in Outcomes
  /\ WorkerGoes(i, "process", "pop")
  /\ Push(i + 1, NoFrame)
  /\ failed' = failed \union {InHand(i)}
  /\ UNCHANGED <<build, flags, head, closed, results, clients>>

\* Nothing catches an exception on a worker thread: std::terminate.
StageThrows(i) ==
  /\ "throw" \in Outcomes
  /\ WorkerGoes(i, "process", "threw")
  /\ aborted' = TRUE
  /\ UNCHANGED <<build, running_, stopped_, queues, results, failed, clients>>

WorkerStep(i) ==
  \/ WorkerPop(i) \/ WorkerExit(i)
  \/ StageReturns(i) \/ StageFails(i) \/ StageThrows(i)

-----------------------------------------------------------------------------
(***************************************************************************)
(* addStage, submit, start                                                 *)
(***************************************************************************)
At(c, loc) == cpc[c] = loc

\* Client c takes a step from loc; nothing runs after std::terminate.
Runs(c, loc) == ~aborted /\ At(c, loc)
Goes(c, from, to) == Runs(c, from) /\ cpc' = [cpc EXCEPT ![c] = to]

\* addStage throws while running_; after stop() it is accepted again.
AddStage ==
  /\ Runs(Owner, "idle")
  /\ ~running_
  /\ stages < MaxStages
  /\ stages' = stages + 1
  /\ UNCHANGED <<workers, starts, joinable, flags, queues, wpc, results, failed,
                 clients>>

\* The caller's part: a frame is not submitted twice.  (The same bound keeps
\* the number of submitted nullptrs finite.)
Fresh(f) ==
  /\ \A k \in 1..Len(log[1]) : log[1][k] # f
  /\ \A c \in Clients : At(c, "push") => carg[c] # f

\* submit(f) found stopped_ unset.  (When it is set, submit throws and
\* changes nothing.)  The caller added a stage; the owner submits first.
SubmitCheck(c, f) ==
  /\ Goes(c, "idle", "push")
  /\ ~At(Owner, "destroyed")
  /\ ~stopped_
  /\ stages > 0 /\ Fresh(f) /\ (c = Owner \/ starts > 0)
  /\ carg' = [carg EXCEPT ![c] = f]
  /\ UNCHANGED <<build, flags, queues, wpc, results, failed>>

\* start() makes queues and workers for all stages.  Called once more it
\* appends its queues behind the old ones, and its workers use the old ones.
Start ==
  /\ running_' = TRUE
  /\ workers' = stages
  /\ starts' = starts + 1
  /\ joinable' = joinable \union (1..stages)
  /\ wpc' = [i \in Stage |-> IF i <= stages THEN "pop" ELSE wpc[i]]

\* The rest of submit: start() if running_ is false, then the push.  One
\* step, because no other thread acts between the two in a way that matters:
\* running_ is only reset by the step that stops the queues.
SubmitPush(c) ==
  /\ Goes(c, "push", "idle")
  /\ IF running_ THEN UNCHANGED <<running_, workers, starts, joinable, wpc>>
                 ELSE Start
  /\ Push(1, carg[c])
  /\ UNCHANGED <<stages, stopped_, aborted, head, closed, results, failed, carg>>

-----------------------------------------------------------------------------
(***************************************************************************)
(* stop, collectResults and the destructor                                 *)
(***************************************************************************)

\* stop() returns at once when the pipeline is not running or was stopped.
\* Otherwise it sets stopped_ and pushes the sentinel.  (A push by another
\* client between the two is a push before both.)
StopBegin ==
  /\ Goes(Owner, "idle", "join")
  /\ running_ /\ ~stopped_
  /\ stopped_' = TRUE
  /\ Push(1, NoFrame)
  /\ UNCHANGED <<build, running_, aborted, head, closed, wpc, results, failed,
                 carg>>

\* Mutation: a stop() that drains once the first worker is done.
JoinFirstOnly ==
  /\ Goes(Owner, "join", "drain")
  /\ wpc[1] = "exited"
  /\ joinable' = joinable \ {1}
  /\ UNCHANGED <<stages, workers, starts, flags, queues, wpc, results, failed,
                 carg>>

StopJoin ==
  /\ Goes(Owner, "join", "drain")
  /\ \A i \in joinable : wpc[i] = "exited"
  /\ joinable' = {}
  /\ UNCHANGED <<stages, workers, starts, flags, queues, wpc, results, failed,
                 carg>>

\* Mutation: a drain loop that does not test for nullptr.
DrainAny ==
  /\ Runs(Owner, "drain")
  /\ Pop(Output)
  /\ results_' = Append(results_, Front(Output))
  /\ UNCHANGED <<build, flags, log, closed, wpc, collected, failed, clients>>

\* The drain loop keeps every frame ...
DrainFrame ==
  /\ Runs(Owner, "drain")
  /\ Pop(Output) /\ Front(Output) # NoFrame
  /\ results_' = Append(results_, Front(Output))
  /\ UNCHANGED <<build, flags, log, closed, wpc, collected, failed, clients>>

\* ... up to the first nullptr.
DrainEnd ==
  /\ Goes(Owner, "drain", "finish")
  /\ PopEnd(Output)
  /\ UNCHANGED <<build, flags, log, closed, wpc, results, failed, carg>>

\* stop() stops every queue and resets running_.
StopFinish ==
  /\ Goes(Owner, "finish", "idle")
  /\ closed' = [i \in Queue |-> closed[i] \/ i <= Output]
  /\ running_' = FALSE
  /\ UNCHANGED <<build, stopped_, aborted, log, head, wpc, results, failed, carg>>

StopStep == StopJoin \/ DrainFrame \/ DrainEnd \/ StopFinish

\* Mutation: handing out the results without clearing them.
CollectCopy(c) ==
  /\ Runs(c, "idle") /\ ~At(Owner, "destroyed")
  /\ collected' = collected \o results_
  /\ UNCHANGED <<build, flags, queues, wpc, results_, failed, clients>>

\* collectResults() moves results_ out under results_mutex_, at any time.
CollectResults(c) ==
  /\ Runs(c, "idle") /\ ~At(Owner, "destroyed")
  /\ collected' = collected \o results_
  /\ results_' = <<>>
  /\ UNCHANGED <<build, flags, queues, wpc, failed, clients>>

\* Mutation: a destructor that does not call stop().
DestroyWithoutStop ==
  /\ Goes(Owner, "idle", "destroyed")
  /\ \A c \in Submitters : At(c, "idle")
  /\ aborted' = (joinable # {})
  /\ UNCHANGED <<build, running_, stopped_, queues, wpc, results, failed, carg>>

\* The destructor, once its stop() has nothing (more) to do: destroying a
\* worker thread that was not joined is std::terminate.  Nobody else may be
\* using the object.
Destroy ==
  /\ Goes(Owner, "idle", "destroyed")
  /\ running_ => stopped_
  /\ \A c \in Submitters : At(c, "idle")
  /\ aborted' = (joinable # {})
  /\ UNCHANGED <<build, running_, stopped_, queues, wpc, results, failed, carg>>

-----------------------------------------------------------------------------
ClientStep(c) ==
  \/ \E f \in Items : SubmitCheck(c, f)
  \/ SubmitPush(c) \/ CollectResults(c)

OwnerStep == AddStage \/ StopBegin \/ StopStep \/ Destroy

Next ==
  \/ \E c \in Clients : ClientStep(c)
  \/ OwnerStep
  \/ \E i \in Stage : WorkerStep(i)

Spec == Init /\ [][Next]_vars

\* Threads keep running: a worker takes its next step, and a client finishes
\* the call it is in.  Nobody has to submit, stop, collect or destroy.
Fairness ==
  /\ \A i \in Stage : WF_vars(WorkerStep(i))
  /\ \A c \in Clients : WF_vars(SubmitPush(c))
  /\ WF_vars(StopStep)

FairSpec == Spec /\ Fairness

-----------------------------------------------------------------------------
(***************************************************************************)
(* Properties                                                              *)
(***************************************************************************)

TypeOK ==
  /\ stages \in 0..MaxStages /\ workers \in 0..MaxStages /\ starts \in Nat
  /\ joinable \subseteq Stage
  /\ running_ \in BOOLEAN /\ stopped_ \in BOOLEAN /\ aborted \in BOOLEAN
  /\ log \in [Queue -> Seq(Items)]
  /\ head \in [Queue -> Nat]
  /\ \A i \in Queue : head[i] <= Len(log[i])
  /\ closed \in [Queue -> BOOLEAN]
  /\ wpc \in [Stage -> {"none", "pop", "process", "exited", "threw"}]
  /\ \A i \in Stage : wpc[i] = "process" => head[i] > 0
  /\ results_ \in Seq(Frames) /\ collected \in Seq(Frames)
  /\ failed \subseteq Items
  /\ cpc \in [Clients -> {"idle", "push", "join", "drain", "finish", "destroyed"}]
  /\ carg \in [Clients -> Items]

\* Every frame the client got or can get, in the order it gets them.
Delivered == collected \o results_

\* The k-th submitted item ends what the pipeline delivers: it is nullptr, or
\* a frame that some stage failed.
Breaks(k) == log[1][k] = NoFrame \/ log[1][k] \in failed

\* stop() is in the past and nothing restarted the pipeline.
StopReturned == stopped_ /\ ~running_

\* The k-th result is the k-th submitted frame: frames are neither reordered,
\* skipped nor duplicated on their way through the workers, stop()'s drain and
\* any number of concurrent collectResults() calls.
ResultsInOrder ==
  /\ Len(Delivered) <= Len(log[1])
  /\ \A k \in 1..Len(Delivered) : Delivered[k] = log[1][k]

\* When stop() has returned, the results are exactly the frames submitted
\* before the first break.
DrainComplete ==
  StopReturned =>
    /\ Len(Delivered) < Len(log[1])
    /\ Breaks(Len(Delivered) + 1)
    /\ \A k \in 1..Len(Delivered) : ~Breaks(k)

\* stop()'s drain loop always finds the sentinel or a frame: it never blocks
\* on an output queue that nobody will push to any more.
DrainNeverBlocks == At(Owner, "drain") => ~Empty(Output)

\* Worker i processes a frame or has an item to pop.
CanGoOn(i) == wpc[i] = "process" \/ (wpc[i] = "pop" /\ ~Empty(i))

\* Nothing gets stuck.  When no worker can go on, every frame that was submitted,
\* down to the first break, has come out of the last stage; stop(), if it is
\* joining the workers, finds that all have exited; and its drain does not block.
\* (Unless a stage threw, or a submit that raced with stop() restarted the pipeline.)
NeverStuck ==
  /\ DrainNeverBlocks
  /\ ~aborted /\ starts <= 1 /\ (\A i \in 1..workers : ~CanGoOn(i)) =>
       /\ \A k \in 1..Len(log[1]) :
            Len(log[Output]) >= k \/ \E j \in 1..k : Breaks(j)
       /\ At(Owner, "join") => \A i \in joinable : wpc[i] = "exited"

\* The pipeline does what OrderedPipeline promises: whatever workers, queues and
\* sentinels do in between, a client sees frames accepted, failed, delivered one
\* after the other and collected; a restart changes nothing it can see.
Ordered == INSTANCE OrderedPipeline WITH
  accepted <- log[1], delivered <- Delivered, taken <- Len(collected),
  stopped <- stopped_, ended <- closed[1]

ImplementsOrderedPipeline == Ordered!Spec

\* Queue i is the queue that BlockingQueue implements, with one consumer.  (It gets
\* nullopt after a restart only; here that changes nothing.)
QueueOf(i) == INSTANCE FifoQueue WITH
  Values <- Items, Consumers <- {i},
  items <- SubSeq(log[i], head[i] + 1, Len(log[i])), closed <- closed[i],
  received <- [c \in {i} |-> SubSeq(log[i], 1, head[i])], finished <- {}

\* A frame is in the hands of one thread: no two stages process it at once,
\* and no stage still processes a frame the client can already read.
ExclusiveFrame ==
  \A i \in Stage : wpc[i] = "process" =>
    /\ \A j \in Stage : wpc[j] = "process" /\ j # i => InHand(j) # InHand(i)
    /\ \A k \in 1..Len(Delivered) : Delivered[k] # InHand(i)

\* The process ends abnormally only because a stage threw, or because a submit
\* that raced with stop() restarted the pipeline: otherwise the destructor never
\* meets a worker that was not joined.
OnlyStagesAbort ==
  aborted => starts > 1 \/ \E i \in Stage : wpc[i] = "threw"

\* stop() returns, whatever the frames and the failures on the way, unless a
\* stage throws and the process ends.
StopTerminates == At(Owner, "join") ~> At(Owner, "idle") \/ aborted

\* Every submitted frame comes out of the last stage, or a break before it
\* does, without waiting for stop(), unless a stage throws or a submit that
\* raced with stop() restarted the pipeline.  (Again and again nothing is left
\* inside: here clients have only finitely many frames to submit.)
FramesFlow ==
  []<>(\/ aborted \/ starts > 1
       \/ \A k \in 1..Len(log[1]) :
            Len(log[Output]) >= k \/ \E j \in 1..k : Breaks(j))

\* Clients submit frames only, and none after stop(): the one nullptr in the first
\* queue is the sentinel stop() put at its end.
OnlySentinel ==
  \A k \in 1..Len(log[1]) : log[1][k] = NoFrame => stopped_ /\ k = Len(log[1])

\* include/pipeline/IPipelineStage.h:16 says that a stage that returns nullptr
\* signals a fatal error "for this frame": then every other frame comes out, if
\* clients submit frames only, and none after stop().
HealthyFramesDelivered ==
  StopReturned /\ OnlySentinel =>
    \A k \in 1..Len(log[1]) :
      ~Breaks(k) => \E j \in 1..Len(Delivered) : Delivered[j] = log[1][k]

\* include/pipeline/StagedPipeline.h:31-32 says that after stop() "workers
\* drain remaining frames and stop": a stopped pipeline does not run again.
StopIsFinal == [][StopReturned => ~running_']_vars

=============================================================================

--------------------------- MODULE RunBatchProofs ---------------------------
(***************************************************************************)
(* runBatch only makes the calls of a client of StagedPipeline, so it      *)
(* inherits what StagedPipelineProofs proves.  On top of that: what it     *)
(* returns when it returns, and what it has done when it throws.           *)
(***************************************************************************)
EXTENDS RunBatch, StagedPipelineProofs, FiniteSetTheorems

LEMMA OwnerIsClient == Owner \in Clients
  BY DEF Clients

\* Every step of a batch is a step of the pipeline or leaves it alone.
LEMMA BatchSteps ==
  ASSUME BatchTypeOK, [BatchNext]_batchVars
  PROVE  [Next]_vars
<1>1. ASSUME NEW b \in Batches, Begin(b)
      PROVE  UNCHANGED vars
  BY <1>1 DEF Begin
<1>2. CASE SubmitInput
  <2>1. next \in 1..Len(inputs) /\ inputs \in Seq(Items)
    <3>1. /\ next <= Len(inputs) /\ next \in 1..(Len(inputs) + 1)
          /\ inputs \in Seq(Items)
      BY <1>2 DEF SubmitInput, BatchTypeOK
    <3>2. Len(inputs) \in Nat
      BY <3>1, LenProperties
    <3>3. QED
      BY <3>1, <3>2
  <2>2. inputs[next] \in Items
    BY <2>1, ElementOfSeq
  <2>3. QED
    BY <1>2, <2>2, OwnerIsClient DEF SubmitInput, Next, ClientStep
<1>3. CASE SubmitRefused
  BY <1>3 DEF SubmitRefused
<1>4. CASE InputSubmitted
  BY <1>4, OwnerIsClient DEF InputSubmitted, Next, ClientStep
<1>5. CASE BatchStop
  BY <1>5 DEF BatchStop, Next, OwnerStep
<1>6. CASE BatchStopping
  BY <1>6 DEF BatchStopping, Next, OwnerStep
<1>7. CASE BatchReturn
  BY <1>7, OwnerIsClient DEF BatchReturn, Next, ClientStep
<1>8. CASE OtherCall
  BY <1>8, OwnerIsClient DEF OtherCall, Next
<1>9. CASE (\E i \in Stage : WorkerStep(i)) /\ UNCHANGED batch
  BY <1>9 DEF Next
<1>10. CASE UNCHANGED batchVars
  BY <1>10 DEF batchVars
<1>11. QED
  BY <1>1, <1>2, <1>3, <1>4, <1>5, <1>6, <1>7, <1>8, <1>9, <1>10
     DEF BatchNext, BatchStep

\* The owner pushes an input only after SubmitInput chose one.
InputPending ==
  phase = "submit" /\ At(Owner, "push") => next <= Len(inputs)

BatchInv == BatchTypeOK /\ InputPending

LEMMA InputPendingStep ==
  ASSUME TypeOK, BatchInv, [BatchNext]_batchVars
  PROVE  InputPending'
<1>0. InputPending /\ cpc \in [Clients -> {"idle", "push", "join", "drain",
                                           "finish", "destroyed"}]
  BY DEF BatchInv, TypeOK
<1>1. ASSUME NEW b \in Batches, Begin(b)
      PROVE  InputPending'
  BY <1>1 DEF Begin, Runs, At, InputPending, vars, clients
<1>2. CASE SubmitInput
  BY <1>2 DEF SubmitInput, InputPending, batch
<1>3. CASE InputSubmitted
  <2>1. ~At(Owner, "push")'
    BY <1>0, <1>3, OwnerIsClient DEF InputSubmitted, SubmitPush, Goes, At
  <2>2. QED
    BY <2>1 DEF InputPending
<1>4. CASE phase' # "submit"
  BY <1>4 DEF InputPending
<1>5. CASE (\E i \in Stage : WorkerStep(i)) /\ UNCHANGED batch
  <2>1. UNCHANGED cpc
    BY <1>5 DEF WorkerStep, WorkerPop, WorkerExit, StageReturns, StageFails,
                StageThrows, clients
  <2>2. QED
    BY <1>0, <1>5, <2>1 DEF InputPending, At, batch
<1>6. CASE UNCHANGED batchVars
  BY <1>0, <1>6 DEF InputPending, At, batchVars, batch, vars, clients
<1>7. QED
  <2>1. /\ SubmitRefused => phase' # "submit"
        /\ BatchStop => phase' # "submit"
        /\ BatchStopping => phase' # "submit"
        /\ BatchReturn => phase' # "submit"
        /\ OtherCall => phase' # "submit"
    BY DEF SubmitRefused, BatchStop, BatchStopping, BatchReturn, OtherCall,
           InBatch, Between, batch
  <2>2. QED
    BY <1>1, <1>2, <1>3, <1>4, <1>5, <1>6, <2>1 DEF BatchNext, BatchStep

\* A function on the first positions is a sequence.
LEMMA FunIsSeq ==
  ASSUME NEW S, NEW n \in Nat, NEW f \in [1..n -> S]
  PROVE  f \in Seq(S)
<1>1. \A i \in 1..n : f[i] \in S
  OBVIOUS
<1>2. /\ DOMAIN f = 1..n
      /\ f = [i \in 1..n |-> f[i]]
  OBVIOUS
<1>3. [i \in 1..n |-> f[i]] \in Seq(S)
  BY <1>1
<1>4. QED
  BY <1>2, <1>3

LEMMA BatchTypeStep ==
  ASSUME TypeOK, BatchInv, [BatchNext]_batchVars
  PROVE  BatchTypeOK'
<1>0. /\ inputs \in Seq(Items) /\ next \in 1..(Len(inputs) + 1)
      /\ Len(inputs) \in Nat /\ next \in Nat
      /\ results_ \in Seq(Frames) /\ Len(results_) \in Nat
  <2>1. /\ inputs \in Seq(Items) /\ next \in 1..(Len(inputs) + 1)
        /\ results_ \in Seq(Frames)
    BY DEF BatchInv, BatchTypeOK, TypeOK
  <2>2. Len(inputs) \in Nat /\ Len(results_) \in Nat
    BY <2>1, LenProperties
  <2>3. QED
    BY <2>1, <2>2
<1>1. ASSUME NEW b \in Batches, Begin(b)
      PROVE  BatchTypeOK'
  <2>1. b \in Seq(Items) /\ Len(b) \in Nat
    BY BatchAssumption, LenProperties
  <2>2. /\ UNCHANGED frame_id /\ phase' = "submit" /\ inputs' = b /\ next' = 1
        /\ returned' = <<>>
    BY <1>1 DEF Begin
  <2>3. <<>> \in Seq(Frames)
    OBVIOUS
  <2>4. QED
    BY <2>1, <2>2, <2>3 DEF BatchInv, BatchTypeOK
<1>2. CASE UNCHANGED batch
  BY <1>2 DEF BatchInv, BatchTypeOK, batch
<1>3. CASE SubmitRefused
  BY <1>3 DEF SubmitRefused, Between, BatchInv, BatchTypeOK
<1>4. CASE InputSubmitted
  <2>1. /\ UNCHANGED <<frame_id, phase, inputs, returned>> /\ next' = next + 1
    BY <1>4 DEF InputSubmitted
  <2>2. next <= Len(inputs)
    BY <1>4 DEF InputSubmitted, SubmitPush, Goes, Runs, BatchInv, InputPending
  <2>3. next' \in 1..(Len(inputs) + 1)
    BY <1>0, <2>1, <2>2
  <2>4. QED
    BY <2>1, <2>3 DEF BatchInv, BatchTypeOK
<1>5. CASE BatchStop
  BY <1>5 DEF BatchStop, Between, BatchInv, BatchTypeOK
<1>6. CASE BatchReturn
  <2>1. /\ UNCHANGED <<frame_id, inputs, next>> /\ phase' = "returned"
        /\ returned' \in Sorted(results_)
    BY <1>6 DEF BatchReturn, Between
  <2>2. returned' \in Seq({results_[k] : k \in 1..Len(results_)})
    <3>1. returned' \in [1..Len(results_) -> {results_[k] : k \in 1..Len(results_)}]
      BY <2>1 DEF Sorted
    <3>2. PICK n \in Nat : n = Len(results_)
      BY <1>0
    <3>3. PICK S : S = {results_[k] : k \in 1..Len(results_)}
      OBVIOUS
    <3>4. returned' \in [1..n -> S]
      BY <3>1, <3>2, <3>3
    <3>5. returned' \in Seq(S)
      BY <3>4, FunIsSeq
    <3>6. QED
      BY <3>3, <3>5
  <2>3. {results_[k] : k \in 1..Len(results_)} \subseteq Frames
    BY <1>0, ElementOfSeq
  <2>4. returned' \in Seq(Frames)
    BY <2>2, <2>3
  <2>5. QED
    BY <2>1, <2>4 DEF BatchInv, BatchTypeOK
<1>7. QED
  BY <1>1, <1>2, <1>3, <1>4, <1>5, <1>6
     DEF BatchNext, BatchStep, batchVars, SubmitInput, BatchStopping, OtherCall

\* The types of the batch and of the pipeline below it.
THEOREM BatchTypeCorrect == BatchSpec => []BatchTypeOK
<1>1. BatchInit => TypeOK /\ BatchInv
  <2>1. ASSUME BatchInit
        PROVE  TypeOK /\ BatchTypeOK /\ InputPending
    <3>1. Init
      BY <2>1 DEF BatchInit
    <3>2. inputs \in Seq(Items) /\ returned \in Seq(Frames) /\ Len(inputs) = 0
      BY <2>1 DEF BatchInit
    <3>3. BatchTypeOK /\ InputPending
      BY <2>1, <3>2 DEF BatchInit, BatchTypeOK, InputPending
    <3>4. QED
      BY <3>1, <3>3, TypeInit
  <2>2. QED
    BY <2>1 DEF BatchInv
<1>2. TypeOK /\ BatchInv /\ [BatchNext]_batchVars => (TypeOK /\ BatchInv)'
  BY BatchSteps, TypeStep, BatchTypeStep, InputPendingStep DEF BatchInv
<1>3. BatchInv => BatchTypeOK
  BY DEF BatchInv
<1>4. QED
  BY <1>1, <1>2, <1>3, PTL DEF BatchSpec

\* runBatch makes no call that a client of StagedPipeline could not make ...
THEOREM BatchImplements == BatchSpec => ImplementsStagedPipeline
<1>1. BatchInit => Init
  BY DEF BatchInit
<1>2. BatchTypeOK /\ [BatchNext]_batchVars => [Next]_vars
  BY BatchSteps
<1>3. QED
  BY <1>1, <1>2, BatchTypeCorrect, PTL
     DEF BatchSpec, ImplementsStagedPipeline, Spec

\* ... so its frames come through in order before they are sorted.
THEOREM BatchResultsInOrder == BatchSpec => []ResultsInOrder
  BY BatchImplements, ResultsInOrderHolds DEF ImplementsStagedPipeline

-----------------------------------------------------------------------------
(***************************************************************************)
(* What a batch does to the pipeline                                       *)
(***************************************************************************)
Parked == cpc[Owner] \in {"idle", "destroyed"}

\* A batch that is refused has submitted nothing.
Refused ==
  /\ phase = "threw" => stopped_
  /\ phase \in {"submit", "threw"} /\ stopped_ =>
       Parked /\ \A k \in 1..Len(inputs) : Fresh(inputs[k])

\* A batch that has submitted something keeps the pipeline running, stops it and
\* collects all it delivered.
Served ==
  /\ phase = "submit" /\ next > 1 => running_ /\ ~stopped_
  /\ phase = "stop" /\ inputs # <<>> =>
       stopped_ /\ collected = <<>> /\ (Stopping \/ (At(Owner, "idle") /\ ~running_))
  /\ phase = "returned" /\ inputs # <<>> =>
       StopReturned /\ Parked /\ returned \in Sorted(Delivered)

\* Workers leave the flags, the clients and the first queue's history alone.
LEMMA WorkersAside ==
  ASSUME TypeOK, NEW i \in Stage, WorkerStep(i)
  PROVE  /\ UNCHANGED <<running_, stopped_, results, clients>>
         /\ log'[1] = log[1]
<1>1. i \in Nat /\ i + 1 # 1 /\ 1 \in Queue
  BY StagesAssumption DEF Stage, Queue
<1>2. \A x : Push(i + 1, x) => log'[1] = log[1]
  BY <1>1 DEF Push, TypeOK
<1>3. CASE WorkerPop(i)
  BY <1>3 DEF WorkerPop, flags
<1>4. CASE WorkerExit(i)
  BY <1>2, <1>4 DEF WorkerExit, flags
<1>5. CASE StageReturns(i)
  BY <1>2, <1>5 DEF StageReturns, flags
<1>6. CASE StageFails(i)
  BY <1>2, <1>6 DEF StageFails, flags
<1>7. CASE StageThrows(i)
  BY <1>7 DEF StageThrows, queues
<1>8. QED
  BY <1>3, <1>4, <1>5, <1>6, <1>7 DEF WorkerStep

\* Nothing that the owner can do after its stop() changes what was delivered.
LEMMA AfterStop ==
  ASSUME TypeOK, stopped_, Parked, ClientStep(Owner) \/ OwnerStep
  PROVE  /\ UNCHANGED <<stopped_, running_, log>>
         /\ Parked' /\ Delivered' = Delivered
         /\ cpc' = cpc \/ cpc' = [cpc EXCEPT ![Owner] = "destroyed"]
<1>1. cpc \in [Clients -> {"idle", "push", "join", "drain", "finish", "destroyed"}]
      /\ Owner \in Clients /\ results_ \in Seq(Frames) /\ collected \in Seq(Frames)
  BY OwnerIsClient DEF TypeOK
<1>2. CASE CollectResults(Owner)
  <2>1. collected' = collected \o results_ /\ results_' = <<>>
        /\ UNCHANGED <<stopped_, running_, log, cpc>>
    BY <1>2 DEF CollectResults, flags, queues, clients
  <2>2. (collected \o results_) \o <<>> = collected \o results_
    BY <1>1
  <2>3. QED
    BY <2>1, <2>2 DEF Delivered, Parked
<1>3. CASE AddStage
  BY <1>3 DEF AddStage, flags, queues, clients, results, Parked, Delivered
<1>4. CASE Destroy
  BY <1>1, <1>4 DEF Destroy, Goes, queues, results, Parked, Delivered
<1>5. ~(\E f \in Items : SubmitCheck(Owner, f)) /\ ~SubmitPush(Owner) /\ ~StopBegin /\ ~StopStep
  BY DEF SubmitCheck, SubmitPush, StopBegin, StopStep, StopJoin, DrainFrame, DrainEnd,
     StopFinish, Goes, Runs, At, Parked
<1>6. QED
  BY <1>2, <1>3, <1>4, <1>5 DEF ClientStep, OwnerStep

\* What was fresh remains so while nobody pushes.
LEMMA FreshStays ==
  ASSUME TypeOK, Parked, log'[1] = log[1],
         cpc' = cpc \/ cpc' = [cpc EXCEPT ![Owner] = "destroyed"],
         NEW f, Fresh(f)
  PROVE  Fresh(f)'
<1>1. Clients = {Owner}
  BY BatchAssumption DEF Clients
<1>2. cpc'[Owner] # "push"
  BY <1>1 DEF Parked, TypeOK
<1>3. QED
  BY <1>1, <1>2 DEF Fresh, At

LEMMA RefusedStep ==
  ASSUME TypeOK, BatchInv, Refused, [BatchNext]_batchVars
  PROVE  Refused'
<1>1. ASSUME NEW b \in Batches, Begin(b) PROVE Refused'
  BY <1>1 DEF Begin, Refused, Parked, Runs, At, Fresh, vars, flags, queues, clients
<1>2. ASSUME UNCHANGED <<phase, inputs, stopped_>>, log'[1] = log[1],
             Parked => Parked',
             Parked => cpc' = cpc \/ cpc' = [cpc EXCEPT ![Owner] = "destroyed"]
      PROVE  Refused'
  BY <1>2, FreshStays DEF Refused
<1>3. CASE SubmitInput
  BY <1>3 DEF SubmitInput, SubmitCheck, Refused, flags, batch
<1>4. CASE SubmitRefused
  BY <1>4 DEF SubmitRefused, Between, Refused, Parked, Fresh, At, vars, flags, queues, clients
<1>5. CASE InputSubmitted
  <2>1. phase = "submit" /\ phase' = "submit" /\ stopped_' = stopped_ /\ ~Parked
    BY <1>5 DEF InputSubmitted, SubmitPush, Goes, Runs, At, Parked
  <2>2. QED
    BY <2>1 DEF Refused
<1>6. CASE BatchStop \/ BatchStopping \/ BatchReturn
  <2>1. phase' \in {"stop", "returned"}
    BY <1>6 DEF BatchStop, BatchStopping, BatchReturn, Between, batch
  <2>2. QED
    BY <2>1 DEF Refused
<1>7. CASE OtherCall
  <2>1. ~InBatch /\ (ClientStep(Owner) \/ OwnerStep) /\ UNCHANGED <<phase, inputs>>
    BY <1>7 DEF OtherCall, batch
  <2>2. CASE phase = "threw"
    <3>1. stopped_ /\ Parked
      BY <2>2 DEF Refused
    <3>2. QED
      BY <2>1, <3>1, AfterStop, <1>2
  <2>3. CASE phase # "threw"
    BY <2>1, <2>3 DEF Refused, InBatch
  <2>4. QED
    BY <2>2, <2>3
<1>8. ASSUME NEW i \in Stage, WorkerStep(i), UNCHANGED batch PROVE Refused'
  BY <1>2, <1>8, WorkersAside DEF batch, clients, Parked
<1>9. CASE UNCHANGED batchVars
  BY <1>2, <1>9 DEF batchVars, batch, vars, clients, queues, flags, Parked
<1>10. QED
  BY <1>1, <1>3, <1>4, <1>5, <1>6, <1>7, <1>8, <1>9 DEF BatchNext, BatchStep

LEMMA ServedStep ==
  ASSUME TypeOK, BatchInv, Inv, Refused, Served, [BatchNext]_batchVars
  PROVE  Served'
<1>0. Len(inputs) \in Nat /\ next \in Nat /\ (inputs # <<>> => Len(inputs) > 0)
      /\ cpc \in [Clients -> {"idle", "push", "join", "drain", "finish", "destroyed"}]
      /\ Owner \in Clients /\ results_ \in Seq(Frames) /\ collected \in Seq(Frames)
  <2>1. inputs \in Seq(Items) /\ next \in 1..(Len(inputs) + 1)
    BY DEF BatchInv, BatchTypeOK
  <2>2. Len(inputs) \in Nat /\ (inputs # <<>> => Len(inputs) > 0)
    BY <2>1
  <2>3. QED
    BY <2>1, <2>2, OwnerIsClient DEF TypeOK
<1>1. ASSUME NEW b \in Batches, Begin(b) PROVE Served'
  BY <1>1 DEF Begin, Served
<1>2. CASE SubmitInput
  BY <1>2 DEF SubmitInput, SubmitCheck, Served, flags, batch
<1>3. CASE SubmitRefused
  BY <1>3 DEF SubmitRefused, Between, Served
<1>4. CASE InputSubmitted
  <2>1. phase' = "submit" /\ stopped_' = stopped_ /\ running_' /\ ~Parked /\ phase = "submit"
    BY <1>4 DEF InputSubmitted, SubmitPush, Start, Goes, Runs, At, Parked, TypeOK
  <2>2. QED
    BY <2>1 DEF Served, Refused
<1>5. CASE BatchStop
  <2>1. CASE inputs = <<>>
    BY <1>5, <2>1 DEF BatchStop, Between, Served
  <2>2. CASE inputs # <<>>
    <3>1. running_ /\ ~stopped_ /\ StopBegin /\ phase' = "stop"
      BY <1>0, <1>5, <2>2 DEF BatchStop, Between, Served
    <3>2. Delivered = <<>>
      BY <3>1 DEF Inv, Drained
    <3>3. collected = <<>>
      BY <1>0, <3>2 DEF Delivered
    <3>4. cpc'[Owner] = "join" /\ stopped_' /\ collected' = collected
      BY <1>0, <3>1 DEF StopBegin, Goes, results
    <3>5. QED
      BY <3>1, <3>3, <3>4 DEF Served, Stopping, At
  <2>3. QED
    BY <2>1, <2>2
<1>6. CASE BatchStopping
  <2>1. phase = "stop" /\ StopStep /\ UNCHANGED batch
    BY <1>6 DEF BatchStopping
  <2>2. /\ UNCHANGED <<stopped_, collected>>
        /\ Stopping' \/ (cpc'[Owner] = "idle" /\ ~running_')
    <3>1. CASE StopJoin
      BY <1>0, <3>1 DEF StopJoin, Goes, Stopping, flags, results
    <3>2. CASE DrainFrame
      BY <1>0, <3>2 DEF DrainFrame, Runs, At, Stopping, flags, clients
    <3>3. CASE DrainEnd
      BY <1>0, <3>3 DEF DrainEnd, Goes, Stopping, flags, results
    <3>4. CASE StopFinish
      BY <1>0, <3>4 DEF StopFinish, Goes, results
    <3>5. QED
      BY <2>1, <3>1, <3>2, <3>3, <3>4 DEF StopStep
  <2>3. QED
    BY <2>1, <2>2 DEF Served, At, batch
<1>7. CASE BatchReturn
  <2>1. CASE inputs = <<>>
    BY <1>7, <2>1 DEF BatchReturn, Between, Served
  <2>2. CASE inputs # <<>>
    <3>1. /\ phase = "stop" /\ phase' = "returned" /\ cpc[Owner] = "idle"
          /\ collected' = collected \o results_ /\ results_' = <<>>
          /\ UNCHANGED <<stopped_, running_, cpc, frame_id>>
          /\ returned' \in Sorted(results_)
      BY <1>7 DEF BatchReturn, Between, CollectResults, Runs, At, flags, clients
    <3>2. stopped_ /\ ~running_ /\ collected = <<>>
      BY <2>2, <3>1 DEF Served, Stopping
    <3>3. (<<>> \o results_) \o <<>> = results_
      BY <1>0
    <3>4. Delivered' = results_
      BY <3>1, <3>2, <3>3 DEF Delivered
    <3>5. Sorted(Delivered)' = Sorted(results_)
      BY <3>1, <3>4 DEF Sorted, Arranged
    <3>6. QED
      BY <3>1, <3>2, <3>5 DEF Served, StopReturned, Parked
  <2>3. QED
    BY <2>1, <2>2
<1>8. CASE OtherCall
  <2>1. ~InBatch /\ (ClientStep(Owner) \/ OwnerStep) /\ UNCHANGED batch
    BY <1>8 DEF OtherCall
  <2>2. CASE phase = "returned" /\ inputs # <<>>
    <3>1. stopped_ /\ Parked /\ ~running_ /\ returned \in Sorted(Delivered)
      BY <2>2 DEF Served, StopReturned
    <3>2. /\ UNCHANGED <<stopped_, running_, log>>
          /\ Parked' /\ Delivered' = Delivered
      BY <2>1, <3>1, AfterStop
    <3>3. Sorted(Delivered)' = Sorted(Delivered)
      BY <2>1, <3>2 DEF Sorted, Arranged, batch
    <3>4. QED
      BY <2>1, <2>2, <3>1, <3>2, <3>3 DEF Served, StopReturned, batch
  <2>3. QED
    BY <2>1, <2>2 DEF Served, InBatch, batch
<1>9. ASSUME UNCHANGED <<running_, stopped_, results, clients, batch>> PROVE Served'
  <2>1. Delivered' = Delivered /\ Parked' = Parked /\ Stopping' = Stopping
        /\ StopReturned' = StopReturned /\ At(Owner, "idle")' = At(Owner, "idle")
    BY <1>9 DEF Delivered, Parked, Stopping, StopReturned, At, results, clients
  <2>2. Sorted(Delivered)' = Sorted(Delivered)
    BY <1>9, <2>1 DEF Sorted, Arranged, batch
  <2>3. QED
    BY <1>9, <2>1, <2>2 DEF Served, batch, results
<1>10. ASSUME NEW i \in Stage, WorkerStep(i), UNCHANGED batch PROVE Served'
  BY <1>9, <1>10, WorkersAside
<1>11. CASE UNCHANGED batchVars
  BY <1>9, <1>11 DEF batchVars, vars, flags
<1>12. QED
  BY <1>1, <1>2, <1>3, <1>4, <1>5, <1>6, <1>7, <1>8, <1>10, <1>11 DEF BatchNext, BatchStep

\* Batch, its pipeline and the two invariants above.
BatchCourse == BatchInv /\ Inv /\ Refused /\ Served

LEMMA Course == BatchSpec => []BatchCourse
<1>1. BatchInit => Refused /\ Served
  BY DEF BatchInit, Refused, Served
<1>2. BatchSpec => [](TypeOK /\ Inv)
  BY BatchImplements, Invariance, TypeCorrect, PTL DEF ImplementsStagedPipeline
<1>3. BatchInit => InputPending
  BY DEF BatchInit, Init, InputPending, At
<1>4. TypeOK /\ BatchTypeOK /\ InputPending /\ [BatchNext]_batchVars => InputPending'
  BY InputPendingStep DEF BatchInv
<1>5. TypeOK /\ BatchInv /\ Inv /\ Refused /\ Served /\ [BatchNext]_batchVars =>
        Refused' /\ Served'
  BY RefusedStep, ServedStep
<1>6. BatchInv <=> BatchTypeOK /\ InputPending
  BY DEF BatchInv
<1>7. BatchCourse <=> BatchInv /\ Inv /\ Refused /\ Served
  BY DEF BatchCourse
<1>8. QED
  BY <1>1, <1>2, <1>3, <1>4, <1>5, <1>6, <1>7, BatchTypeCorrect, PTL DEF BatchSpec

\* A batch that throws has submitted nothing, whatever happened before.
THEOREM ThrowsBeforeSubmittingHolds == BatchSpec => []ThrowsBeforeSubmitting
<1>1. BatchCourse => ThrowsBeforeSubmitting
  BY DEF BatchCourse, Refused, ThrowsBeforeSubmitting
<1>2. QED
  BY <1>1, Course, PTL

\* Every frame before the first break is returned, and the ids ascend.
THEOREM BatchCompleteHolds == BatchSpec => []BatchComplete
<1>1. ASSUME BatchCourse, ResultsInOrder, DrainComplete, phase = "returned", inputs # <<>>
      PROVE  LET n == Len(returned) IN
             /\ n < Len(log[1]) /\ Breaks(n + 1)
             /\ \A k \in 1..n :
                  /\ ~Breaks(k)
                  /\ \E j \in 1..n : returned[j] = log[1][k]
                  /\ k > 1 => frame_id[returned[k - 1]] <= frame_id[returned[k]]
  <2>1. StopReturned /\ returned \in Sorted(Delivered)
    BY <1>1 DEF BatchCourse, Served
  <2>2. Delivered \in Seq(Frames) /\ Len(Delivered) \in Nat
    BY <1>1 DEF BatchCourse, Inv, TypeOK, Delivered
  <2>3. returned \in [1..Len(Delivered) -> {Delivered[k] : k \in 1..Len(Delivered)}]
        /\ Arranged(Delivered, returned)
        /\ \A j, k \in 1..Len(Delivered) : j < k => frame_id[returned[j]] <= frame_id[returned[k]]
    BY <2>1 DEF Sorted
  <2>4. Len(returned) = Len(Delivered)
    <3>1. returned \in Seq(Frames)
      BY <1>1 DEF BatchCourse, BatchInv, BatchTypeOK
    <3>2. DOMAIN returned = 1..Len(returned) /\ Len(returned) \in Nat
      BY <3>1, LenProperties
    <3>3. DOMAIN returned = 1..Len(Delivered)
      BY <2>3
    <3>4. QED
      BY <2>2, <3>2, <3>3
  <2>5. \A k \in 1..Len(Delivered) : \E j \in 1..Len(Delivered) : returned[j] = log[1][k]
    BY <1>1, <2>3 DEF Arranged, ResultsInOrder
  <2>6. \A k \in 1..Len(Delivered) :
          k > 1 => k - 1 \in 1..Len(Delivered) /\ k - 1 < k
    BY <2>2
  <2>7. QED
    BY <1>1, <2>1, <2>3, <2>4, <2>5, <2>6 DEF DrainComplete
<1>2. BatchCourse /\ ResultsInOrder /\ DrainComplete => BatchComplete
  BY <1>1 DEF BatchComplete
<1>3. BatchSpec => [](ResultsInOrder /\ DrainComplete)
  BY BatchImplements, ResultsInOrderHolds, DrainCompleteHolds, PTL
  DEF ImplementsStagedPipeline
<1>4. QED
  BY <1>2, <1>3, Course, PTL

\* An ascending map of 1..n into itself leaves every number where it is: it would
\* have to crowd the numbers below k, or those above, into too small an interval.
LEMMA AscendingIsIdentity ==
  ASSUME NEW n \in Nat, NEW g \in [1..n -> 1..n],
         \A i, j \in 1..n : i < j => g[i] < g[j],
         NEW k \in 1..n
  PROVE  g[k] = k
<1>1. ASSUME NEW a \in Int, NEW b \in Int, NEW c \in Int, NEW d \in Int,
             NEW f \in [a..b -> c..d],
             \A i, j \in a..b : i < j => f[i] < f[j], a <= b
      PROVE  b - a <= d - c
  <2>1. SUFFICES ASSUME b - a > d - c PROVE FALSE
    OBVIOUS
  <2>2. /\ IsFiniteSet(a..b) /\ Cardinality(a..b) = b - a + 1
        /\ IsFiniteSet(c..d) /\ Cardinality(c..d) = IF c > d THEN 0 ELSE d - c + 1
    BY <1>1, FS_Interval
  <2>3. Cardinality(c..d) < Cardinality(a..b)
    BY <1>1, <2>1, <2>2
  <2>4. \E i, j \in a..b : i # j /\ f[i] = f[j]
    BY <2>2, <2>3, FS_PigeonHole
  <2>5. QED
    BY <1>1, <2>4
<1>2. k <= g[k]
  <2> DEFINE f == [i \in 1..k |-> g[i]]
  <2>1. \A i \in 1..k : i \in 1..n /\ g[i] \in 1..n /\ (i < k => g[i] < g[k])
    OBVIOUS
  <2>2. ASSUME NEW i \in 1..k PROVE g[i] \in 1..g[k]
    <3>1. CASE i < k
      BY <2>1, <3>1
    <3>2. CASE i = k
      BY <2>1, <3>2
    <3>3. QED
      BY <3>1, <3>2
  <2>3. f \in [1..k -> 1..g[k]]
    BY <2>2
  <2>4. \A i, j \in 1..k : i < j => f[i] < f[j]
    BY <2>1
  <2> HIDE DEF f
  <2>5. 1 \in Int /\ k \in Int /\ g[k] \in Int /\ 1 <= k
    OBVIOUS
  <2>6. k - 1 <= g[k] - 1
    BY <1>1, <2>3, <2>4, <2>5
  <2>7. QED
    BY <2>5, <2>6
<1>3. g[k] <= k
  <2> DEFINE f == [i \in k..n |-> g[i]]
  <2>1. \A i \in k..n : i \in 1..n /\ g[i] \in 1..n /\ (k < i => g[k] < g[i])
    OBVIOUS
  <2>2. ASSUME NEW i \in k..n PROVE g[i] \in g[k]..n
    <3>1. CASE k < i
      BY <2>1, <3>1
    <3>2. CASE k = i
      BY <2>1, <3>2
    <3>3. QED
      BY <3>1, <3>2
  <2>3. f \in [k..n -> g[k]..n]
    BY <2>2
  <2>4. \A i, j \in k..n : i < j => f[i] < f[j]
    BY <2>1
  <2> HIDE DEF f
  <2>5. n \in Int /\ k \in Int /\ g[k] \in Int /\ k <= n
    OBVIOUS
  <2>6. n - k <= n - g[k]
    BY <1>1, <2>3, <2>4, <2>5
  <2>7. QED
    BY <2>5, <2>6
<1>4. QED
  BY <1>2, <1>3

\* With strictly ascending ids there is one arrangement only.
LEMMA SortedUnique ==
  ASSUME NEW s \in Seq(Frames), NEW t \in Sorted(s),
         frame_id \in [Frames -> Ids],
         \A j, k \in 1..Len(s) : j < k => frame_id[s[j]] < frame_id[s[k]],
         NEW k \in 1..Len(s)
  PROVE  t[k] = s[k]
<1> DEFINE n == Len(s)
           g == [m \in 1..n |-> CHOOSE j \in 1..n : t[j] = s[m]]
<1>1. n \in Nat /\ \A m \in 1..n : s[m] \in Frames
  BY ElementOfSeq
<1>2. \A m \in 1..n : \E j \in 1..n : t[j] = s[m]
  BY DEF Sorted, Arranged
<1>3. \A m \in 1..n : g[m] \in 1..n /\ t[g[m]] = s[m]
  BY <1>2
<1>4. g \in [1..n -> 1..n]
  BY <1>3
<1> HIDE DEF g
<1>5. ASSUME NEW i \in 1..n, NEW j \in 1..n, i < j PROVE g[i] < g[j]
  <2>1. frame_id[s[i]] < frame_id[s[j]] /\ frame_id[s[i]] \in Nat /\ frame_id[s[j]] \in Nat
    BY <1>1, <1>5, BatchAssumption
  <2>2. g[j] < g[i] => frame_id[t[g[j]]] <= frame_id[t[g[i]]]
    BY <1>4 DEF Sorted
  <2>3. ~(g[j] < g[i]) /\ g[i] # g[j]
    BY <1>3, <2>1, <2>2
  <2>4. QED
    BY <1>1, <1>4, <2>3
<1>6. g[k] = k
  BY <1>1, <1>4, <1>5, AscendingIsIdentity
<1>7. QED
  BY <1>3, <1>6

\* When ids ascend strictly in the order of submission, runBatch returns frames in
\* that order.
THEOREM AscendingIdsKeepOrderHolds == BatchSpec => []AscendingIdsKeepOrder
<1>1. ASSUME BatchCourse, ResultsInOrder, phase = "returned", inputs # <<>>,
             \A j, k \in 1..Len(returned) : j < k => frame_id[log[1][j]] < frame_id[log[1][k]],
             NEW k \in 1..Len(returned)
      PROVE  returned[k] = log[1][k]
  <2>1. returned \in Sorted(Delivered)
    BY <1>1 DEF BatchCourse, Served
  <2>2. Delivered \in Seq(Frames) /\ Len(Delivered) \in Nat
    BY <1>1 DEF BatchCourse, Inv, TypeOK, Delivered
  <2>3. Len(returned) = Len(Delivered)
    <3>1. returned \in Seq(Frames) /\ returned \in [1..Len(Delivered) -> Frames]
      <4>1. \A i \in 1..Len(Delivered) : Delivered[i] \in Frames
        BY <2>2, ElementOfSeq
      <4>2. QED
        BY <1>1, <2>1, <4>1 DEF BatchCourse, BatchInv, BatchTypeOK, Sorted
    <3>2. DOMAIN returned = 1..Len(returned) /\ Len(returned) \in Nat
      BY <3>1, LenProperties
    <3>3. QED
      BY <2>2, <3>1, <3>2
  <2>4. \A j \in 1..Len(Delivered) : Delivered[j] = log[1][j]
    BY <1>1 DEF ResultsInOrder
  <2>5. frame_id \in [Frames -> Ids]
    BY <1>1 DEF BatchCourse, BatchInv, BatchTypeOK
  <2>6. returned[k] = Delivered[k]
    BY <1>1, <2>1, <2>2, <2>3, <2>4, <2>5, SortedUnique
  <2>7. QED
    BY <1>1, <2>3, <2>4, <2>6
<1>2. BatchCourse /\ ResultsInOrder => AscendingIdsKeepOrder
  BY <1>1 DEF AscendingIdsKeepOrder
<1>3. QED
  BY <1>2, BatchResultsInOrder, Course, PTL

=============================================================================

------------------------ MODULE StagedPipelineProofs ------------------------
(***************************************************************************)
(* Proofs about StagedPipeline, for any set of frames, any bound on the    *)
(* number of stages and any outcomes of the stages.                        *)
(***************************************************************************)
EXTENDS StagedPipeline, SequenceTheorems, WellFoundedInduction, TLAPS

-----------------------------------------------------------------------------
(***************************************************************************)
(* Types                                                                   *)
(***************************************************************************)

\* The part of TypeOK about the queues.
QueuesOK ==
  /\ log \in [Queue -> Seq(Items)]
  /\ head \in [Queue -> Nat]
  /\ \A i \in Queue : head[i] <= Len(log[i])

\* What is in a queue stays where it is when log grows.
Grows ==
  /\ \A j \in Queue : Len(log[j]) \in Nat /\ Len(log'[j]) \in Nat
  /\ \A j \in Queue : Len(log[j]) <= Len(log'[j])
  /\ \A j \in Queue : \A k \in 1..Len(log[j]) : log'[j][k] = log[j][k]

\* A push keeps the type of the queues and moves nothing.
LEMMA PushGrows ==
  ASSUME QueuesOK, NEW i \in Queue, NEW x \in Items, Push(i, x)
  PROVE  log' \in [Queue -> Seq(Items)] /\ Grows
<1>0. \A j \in Queue : log[j] \in Seq(Items) /\ Len(log[j]) \in Nat
  BY LenProperties DEF QueuesOK
<1>1. CASE closed[i]
  BY <1>0, <1>1 DEF QueuesOK, Push, Grows
<1>2. CASE ~closed[i]
  <2>1. /\ Append(log[i], x) \in Seq(Items)
        /\ Len(Append(log[i], x)) = Len(log[i]) + 1
        /\ \A k \in 1..Len(log[i]) : Append(log[i], x)[k] = log[i][k]
    BY <1>0, AppendProperties
  <2>2. log' = [log EXCEPT ![i] = Append(log[i], x)]
    BY <1>2 DEF Push
  <2>3. QED
    BY <1>0, <2>1, <2>2 DEF QueuesOK, Grows
<1>3. QED
  BY <1>1, <1>2

\* A queue that grows holds at least what was popped from it before.
LEMMA GrowsHead ==
  ASSUME QueuesOK, log' \in [Queue -> Seq(Items)], Grows, UNCHANGED head
  PROVE  QueuesOK'
<1>1. ASSUME NEW j \in Queue
      PROVE  head[j] <= Len(log'[j])
  <2>1. head[j] \in Nat /\ head[j] <= Len(log[j]) /\ Len(log[j]) <= Len(log'[j])
    BY DEF QueuesOK, Grows
  <2>2. QED
    BY <2>1 DEF Grows
<1>2. QED
  BY <1>1 DEF QueuesOK

\* A pop from a queue that is not empty.
LEMMA PopHead ==
  ASSUME QueuesOK, NEW i \in Queue, Pop(i)
  PROVE  /\ head[i] + 1 \in 1..Len(log[i])
         /\ head' \in [Queue -> Nat]
         /\ \A j \in Queue : head'[j] = IF j = i THEN head[j] + 1 ELSE head[j]
         /\ \A j \in Queue : head'[j] <= Len(log[j])
<1>1. head[i] \in Nat /\ Len(log[i]) \in Nat /\ head[i] # Len(log[i])
  BY LenProperties DEF QueuesOK, Pop, Empty
<1>2. head[i] + 1 \in 1..Len(log[i])
  BY <1>1 DEF QueuesOK
<1>3. head' = [head EXCEPT ![i] = head[i] + 1]
  BY DEF Pop
<1>4. head' \in [Queue -> Nat]
  BY <1>1, <1>3 DEF QueuesOK
<1>5. \A j \in Queue : head'[j] = IF j = i THEN head[j] + 1 ELSE head[j]
  BY <1>3 DEF QueuesOK
<1>6. QED
  BY <1>2, <1>4, <1>5 DEF QueuesOK

LEMMA WorkerQueuesOK ==
  ASSUME QueuesOK, NEW i \in Stage, WorkerStep(i),
         wpc[i] = "process" => head[i] > 0
  PROVE  QueuesOK'
<1>0. i \in Queue /\ i + 1 \in Queue /\ NoFrame \in Items
  BY StagesAssumption DEF Queue, Stage, Items
<1>1. CASE WorkerPop(i)
  <2>1. Pop(i) /\ UNCHANGED log
    BY <1>1 DEF WorkerPop
  <2>2. QED
    BY <1>0, <2>1, PopHead DEF QueuesOK
<1>2. CASE WorkerExit(i)
  <2>1. log' \in [Queue -> Seq(Items)] /\ Grows
    BY <1>0, <1>2, PushGrows DEF WorkerExit
  <2>2. CASE UNCHANGED head
    BY <2>1, <2>2, GrowsHead
  <2>3. CASE Pop(i)
    <3>1. /\ head' \in [Queue -> Nat]
          /\ \A j \in Queue : head'[j] <= Len(log[j])
      BY <1>0, <2>3, PopHead
    <3>2. ASSUME NEW j \in Queue
          PROVE  head'[j] <= Len(log'[j])
      <4>1. /\ head'[j] \in Nat /\ Len(log[j]) \in Nat /\ Len(log'[j]) \in Nat
            /\ head'[j] <= Len(log[j]) /\ Len(log[j]) <= Len(log'[j])
        BY <2>1, <3>1 DEF Grows
      <4>2. QED
        BY <4>1
    <3>3. QED
      BY <2>1, <3>1, <3>2 DEF QueuesOK
  <2>4. QED
    BY <1>2, <2>2, <2>3 DEF WorkerExit, PopEnd
<1>3. CASE StageReturns(i) \/ StageFails(i)
  <2>1. InHand(i) \in Items
    <3>1. head[i] \in 1..Len(log[i]) /\ log[i] \in Seq(Items)
      BY <1>0, <1>3, LenProperties
      DEF QueuesOK, StageReturns, StageFails, WorkerGoes
    <3>2. QED
      BY <3>1, ElementOfSeq DEF InHand
  <2>2. log' \in [Queue -> Seq(Items)] /\ Grows
    BY <1>0, <1>3, <2>1, PushGrows DEF StageReturns, StageFails
  <2>3. QED
    BY <1>3, <2>2, GrowsHead DEF StageReturns, StageFails
<1>4. CASE StageThrows(i)
  BY <1>4 DEF QueuesOK, StageThrows, queues
<1>5. QED
  BY <1>1, <1>2, <1>3, <1>4 DEF WorkerStep


-----------------------------------------------------------------------------
(***************************************************************************)
(* TypeOK in the groups of variables that the actions change together      *)
(***************************************************************************)
BuildOK ==
  /\ stages \in 0..MaxStages /\ workers \in 0..MaxStages /\ starts \in Nat
  /\ joinable \subseteq Stage

FlagsOK ==
  /\ running_ \in BOOLEAN /\ stopped_ \in BOOLEAN /\ aborted \in BOOLEAN
  /\ closed \in [Queue -> BOOLEAN]

WorkersOK ==
  /\ wpc \in [Stage -> {"none", "pop", "process", "exited", "threw"}]
  /\ \A i \in Stage : wpc[i] = "process" => head[i] > 0

ResultsOK ==
  /\ results_ \in Seq(Frames) /\ collected \in Seq(Frames)
  /\ failed \subseteq Items

ClientsOK ==
  /\ cpc \in [Clients -> {"idle", "push", "join", "drain", "finish", "destroyed"}]
  /\ carg \in [Clients -> Items]

LEMMA TypeParts ==
  TypeOK <=> BuildOK /\ FlagsOK /\ QueuesOK /\ WorkersOK /\ ResultsOK /\ ClientsOK
BY DEF TypeOK, BuildOK, FlagsOK, QueuesOK, WorkersOK, ResultsOK, ClientsOK

LEMMA TypePartsNext ==
  BuildOK' /\ FlagsOK' /\ QueuesOK' /\ WorkersOK' /\ ResultsOK' /\ ClientsOK' => TypeOK'
BY DEF TypeOK, BuildOK, FlagsOK, QueuesOK, WorkersOK, ResultsOK, ClientsOK

LEMMA TypeInit == Init => TypeOK
<1> SUFFICES ASSUME Init PROVE TypeOK
  OBVIOUS
<1>1. BuildOK
  BY StagesAssumption DEF Init, BuildOK
<1>2. FlagsOK
  BY DEF Init, FlagsOK
<1>3. QueuesOK
  BY EmptySeq DEF Init, QueuesOK
<1>4. WorkersOK
  BY DEF Init, WorkersOK
<1>5. ResultsOK
  BY EmptySeq DEF Init, ResultsOK
<1>6. ClientsOK
  BY DEF Init, ClientsOK, Items
<1>7. QED
  BY <1>1, <1>2, <1>3, <1>4, <1>5, <1>6, TypeParts

\* A step of a worker keeps the types.
LEMMA TypeWorker ==
  ASSUME TypeOK, NEW i \in Stage, WorkerStep(i)
  PROVE  TypeOK'
<1>0. BuildOK /\ FlagsOK /\ QueuesOK /\ WorkersOK /\ ResultsOK /\ ClientsOK
  BY TypeParts
<1>a. i \in Queue /\ i + 1 \in Queue
  BY StagesAssumption DEF Queue, Stage
<1>1. QueuesOK'
  BY <1>0, WorkerQueuesOK DEF WorkersOK
<1>2. BuildOK' /\ ClientsOK'
  BY <1>0 DEF BuildOK, ClientsOK, WorkerStep, WorkerPop, WorkerExit,
              StageReturns, StageFails, StageThrows, build, clients
<1>3. FlagsOK'
  BY <1>0 DEF FlagsOK, WorkerStep, WorkerPop, WorkerExit, StageReturns,
              StageFails, StageThrows, flags, queues
<1>4. ResultsOK'
  <2>1. CASE StageFails(i)
    <3>1. head[i] \in 1..Len(log[i]) /\ log[i] \in Seq(Items)
      BY <1>0, <1>a, <2>1, LenProperties
      DEF QueuesOK, WorkersOK, StageFails, WorkerGoes
    <3>2. InHand(i) \in Items
      BY <3>1, ElementOfSeq DEF InHand
    <3>3. QED
      BY <1>0, <2>1, <3>2 DEF ResultsOK, StageFails, results
  <2>2. CASE ~StageFails(i)
    BY <1>0, <2>2 DEF ResultsOK, WorkerStep, WorkerPop, WorkerExit,
                      StageReturns, StageThrows, results
  <2>3. QED
    BY <2>1, <2>2
<1>5. WorkersOK'
  <2>1. /\ wpc' \in [Stage -> {"none", "pop", "process", "exited", "threw"}]
        /\ \A j \in Stage : j # i => wpc'[j] = wpc[j]
    BY <1>0 DEF WorkersOK, WorkerStep, WorkerGoes, WorkerPop, WorkerExit,
                StageReturns, StageFails, StageThrows
  <2>2. UNCHANGED head \/ Pop(i)
    BY DEF WorkerStep, WorkerPop, WorkerExit, PopEnd, StageReturns,
           StageFails, StageThrows, queues
  <2>3. \A j \in Queue : head'[j] >= head[j] /\ head[j] \in Nat
    <3>1. CASE UNCHANGED head
      BY <1>0, <3>1 DEF QueuesOK
    <3>2. CASE Pop(i)
      <4>1. /\ \A j \in Queue : head[j] \in Nat
            /\ \A j \in Queue : head'[j] = IF j = i THEN head[j] + 1 ELSE head[j]
        BY <1>0, <1>a, <3>2, PopHead DEF QueuesOK
      <4>2. QED
        BY <4>1
    <3>3. QED
      BY <2>2, <3>1, <3>2
  <2>4. wpc'[i] = "process" => head'[i] > 0
    <3>1. CASE WorkerPop(i)
      BY <1>0, <1>a, <3>1, PopHead DEF QueuesOK, WorkerPop
    <3>2. CASE ~WorkerPop(i)
      BY <1>0, <3>2 DEF WorkersOK, WorkerStep, WorkerGoes, WorkerExit,
                        StageReturns, StageFails, StageThrows
    <3>3. QED
      BY <3>1, <3>2
  <2>5. \A j \in Stage : j \in Queue
    BY StagesAssumption DEF Queue, Stage
  <2>6. ASSUME NEW j \in Stage, wpc'[j] = "process"
        PROVE  head'[j] > 0
    <3>1. CASE j = i
      BY <2>4, <2>6, <3>1
    <3>2. CASE j # i
      <4>1. head[j] > 0
        BY <1>0, <2>1, <2>6, <3>2 DEF WorkersOK
      <4>2. head'[j] >= head[j] /\ head[j] \in Nat /\ head'[j] \in Nat
        BY <1>1, <2>3, <2>5 DEF QueuesOK
      <4>3. QED
        BY <4>1, <4>2
    <3>3. QED
      BY <3>1, <3>2
  <2>7. QED
    BY <2>1, <2>6 DEF WorkersOK
<1>6. QED
  BY <1>1, <1>2, <1>3, <1>4, <1>5, TypePartsNext


\* A step of a client that submits or collects keeps the types.
LEMMA TypeClient ==
  ASSUME TypeOK, NEW c \in Clients, ClientStep(c)
  PROVE  TypeOK'
<1>0. BuildOK /\ FlagsOK /\ QueuesOK /\ WorkersOK /\ ResultsOK /\ ClientsOK
  BY TypeParts
<1>1. ASSUME NEW f \in Items, SubmitCheck(c, f)
      PROVE  TypeOK'
  <2>1. ClientsOK'
    BY <1>0, <1>1 DEF ClientsOK, SubmitCheck, Goes
  <2>2. BuildOK' /\ FlagsOK' /\ QueuesOK' /\ WorkersOK' /\ ResultsOK'
    BY <1>0, <1>1 DEF BuildOK, FlagsOK, QueuesOK, WorkersOK, ResultsOK,
                      SubmitCheck, build, flags, queues, results
  <2>3. QED
    BY <2>1, <2>2, TypePartsNext
<1>2. CASE SubmitPush(c)
  <2>1. QueuesOK'
    <3>1. 1 \in Queue /\ carg[c] \in Items /\ Push(1, carg[c]) /\ UNCHANGED head
      BY <1>0, <1>2, StagesAssumption DEF ClientsOK, SubmitPush, Queue
    <3>2. QED
      BY <1>0, <3>1, PushGrows, GrowsHead
  <2>2. ClientsOK'
    BY <1>0, <1>2 DEF ClientsOK, SubmitPush, Goes
  <2>3. FlagsOK' /\ ResultsOK'
    BY <1>0, <1>2 DEF FlagsOK, ResultsOK, SubmitPush, Start, results
  <2>4. CASE running_
    <3>1. BuildOK' /\ WorkersOK'
      BY <1>0, <1>2, <2>4 DEF BuildOK, WorkersOK, SubmitPush
    <3>2. QED
      BY <2>1, <2>2, <2>3, <3>1, TypePartsNext
  <2>5. CASE ~running_
    <3>1. Start /\ UNCHANGED <<stages, head>>
      BY <1>2, <2>5 DEF SubmitPush
    <3>2. BuildOK'
      <4>1. 1..stages \subseteq Stage
        BY <1>0, StagesAssumption DEF BuildOK, Stage
      <4>2. QED
        BY <1>0, <3>1, <4>1 DEF BuildOK, Start
    <3>3. wpc' = [i \in Stage |-> IF i <= stages THEN "pop" ELSE wpc[i]]
      BY <3>1 DEF Start
    <3>4. wpc' \in [Stage -> {"none", "pop", "process", "exited", "threw"}]
      BY <1>0, <3>3 DEF WorkersOK
    <3>5. \A i \in Stage : wpc'[i] = "process" => wpc[i] = "process"
      BY <3>3
    <3>6. WorkersOK'
      BY <1>0, <3>1, <3>4, <3>5 DEF WorkersOK
    <3>7. QED
      BY <2>1, <2>2, <2>3, <3>2, <3>6, TypePartsNext
  <2>6. QED
    BY <2>4, <2>5
<1>3. CASE CollectResults(c)
  <2>1. collected \o results_ \in Seq(Frames)
    BY <1>0, ConcatProperties DEF ResultsOK
  <2>2. ResultsOK'
    BY <1>0, <1>3, <2>1, EmptySeq DEF ResultsOK, CollectResults
  <2>3. BuildOK' /\ FlagsOK' /\ QueuesOK' /\ WorkersOK' /\ ClientsOK'
    BY <1>0, <1>3 DEF BuildOK, FlagsOK, QueuesOK, WorkersOK, ClientsOK,
                      CollectResults, build, flags, queues, clients
  <2>4. QED
    BY <2>2, <2>3, TypePartsNext
<1>4. QED
  BY <1>1, <1>2, <1>3 DEF ClientStep

\* The output queue is one of the queues, the input queue another or the same.
LEMMA OutputIsQueue ==
  ASSUME BuildOK
  PROVE  Output \in Queue /\ 1 \in Queue
BY StagesAssumption DEF BuildOK, Output, Queue

LEMMA QueueNumbers ==
  \A w \in 1..MaxStages :
    w + 1 \in Queue /\ \A j \in 1..(w + 1) : j \in Queue /\ 1 \in Queue
BY StagesAssumption DEF Queue

\* A step of the owner that builds, stops or destroys keeps the types.
LEMMA TypeOwner ==
  ASSUME TypeOK, OwnerStep
  PROVE  TypeOK'
<1>0. BuildOK /\ FlagsOK /\ QueuesOK /\ WorkersOK /\ ResultsOK /\ ClientsOK
  BY TypeParts
<1>a. Output \in Queue /\ 1 \in Queue
  BY <1>0, OutputIsQueue
<1>1. CASE AddStage
  <2>1. BuildOK'
    BY <1>0, <1>1, StagesAssumption DEF BuildOK, AddStage
  <2>2. FlagsOK' /\ QueuesOK' /\ WorkersOK' /\ ResultsOK' /\ ClientsOK'
    BY <1>0, <1>1 DEF FlagsOK, QueuesOK, WorkersOK, ResultsOK, ClientsOK,
                      AddStage, flags, queues, results, clients
  <2>3. QED
    BY <2>1, <2>2, TypePartsNext
<1>2. CASE StopBegin
  <2>1. QueuesOK'
    <3>1. NoFrame \in Items /\ Push(1, NoFrame) /\ UNCHANGED head
      BY <1>2 DEF Items, StopBegin
    <3>2. QED
      BY <1>0, <1>a, <3>1, PushGrows, GrowsHead
  <2>2. ClientsOK'
    BY <1>0, <1>2 DEF ClientsOK, StopBegin, Goes
  <2>3. BuildOK' /\ FlagsOK' /\ WorkersOK' /\ ResultsOK'
    BY <1>0, <1>2 DEF BuildOK, FlagsOK, WorkersOK, ResultsOK, StopBegin, build,
                      results
  <2>4. QED
    BY <2>1, <2>2, <2>3, TypePartsNext
<1>3. CASE StopJoin
  <2>1. ClientsOK'
    BY <1>0, <1>3 DEF ClientsOK, StopJoin, Goes
  <2>2. BuildOK' /\ FlagsOK' /\ QueuesOK' /\ WorkersOK' /\ ResultsOK'
    BY <1>0, <1>3 DEF BuildOK, FlagsOK, QueuesOK, WorkersOK, ResultsOK, StopJoin,
                      flags, queues, results
  <2>3. QED
    BY <2>1, <2>2, TypePartsNext
<1>4. CASE DrainFrame
  <2>1. /\ head[Output] + 1 \in 1..Len(log[Output])
        /\ head' \in [Queue -> Nat]
        /\ \A j \in Queue : head'[j] = IF j = Output THEN head[j] + 1 ELSE head[j]
        /\ \A j \in Queue : head'[j] <= Len(log[j])
    BY <1>0, <1>a, <1>4, PopHead DEF DrainFrame
  <2>2. QueuesOK' /\ UNCHANGED wpc
    BY <1>0, <1>4, <2>1 DEF QueuesOK, DrainFrame
  <2>3. WorkersOK'
    <3>1. \A j \in Stage : j \in Queue
      BY StagesAssumption DEF Stage, Queue
    <3>2. \A j \in Stage : head[j] \in Nat /\ (head[j] > 0 => head'[j] > 0)
      BY <1>0, <2>1, <3>1 DEF QueuesOK
    <3>3. QED
      BY <1>0, <2>2, <3>2 DEF WorkersOK
  <2>4. ResultsOK'
    <3>1. Front(Output) \in Frames
      <4>1. log[Output] \in Seq(Items)
        BY <1>0, <1>a DEF QueuesOK
      <4>2. Front(Output) \in Items
        BY <2>1, <4>1, ElementOfSeq DEF Front
      <4>3. QED
        BY <1>4, <4>2 DEF DrainFrame, Items
    <3>2. Append(results_, Front(Output)) \in Seq(Frames)
      BY <1>0, <3>1, AppendProperties DEF ResultsOK
    <3>3. QED
      BY <1>0, <1>4, <3>2 DEF ResultsOK, DrainFrame
  <2>5. BuildOK' /\ FlagsOK' /\ ClientsOK'
    BY <1>0, <1>4 DEF BuildOK, FlagsOK, ClientsOK, DrainFrame, build, flags,
                      clients
  <2>6. QED
    BY <2>2, <2>3, <2>4, <2>5, TypePartsNext
<1>5. CASE DrainEnd
  <2>1. QueuesOK' /\ WorkersOK'
    <3>1. CASE UNCHANGED head
      BY <1>0, <1>5, <3>1 DEF QueuesOK, WorkersOK, DrainEnd
    <3>2. CASE Pop(Output)
      <4>1. /\ head' \in [Queue -> Nat]
            /\ \A j \in Queue : head'[j] = IF j = Output THEN head[j] + 1 ELSE head[j]
            /\ \A j \in Queue : head'[j] <= Len(log[j])
        BY <1>0, <1>a, <3>2, PopHead
      <4>2. QueuesOK' /\ UNCHANGED wpc
        BY <1>0, <1>5, <4>1 DEF QueuesOK, DrainEnd
      <4>3. \A j \in Stage : head[j] \in Nat /\ (head[j] > 0 => head'[j] > 0)
        <5>1. \A j \in Stage : j \in Queue
          BY StagesAssumption DEF Stage, Queue
        <5>2. QED
          BY <1>0, <4>1, <5>1 DEF QueuesOK
      <4>4. QED
        BY <1>0, <4>2, <4>3 DEF WorkersOK
    <3>3. QED
      BY <1>5, <3>1, <3>2 DEF DrainEnd, PopEnd
  <2>2. ClientsOK'
    BY <1>0, <1>5 DEF ClientsOK, DrainEnd, Goes
  <2>3. BuildOK' /\ FlagsOK' /\ ResultsOK'
    BY <1>0, <1>5 DEF BuildOK, FlagsOK, ResultsOK, DrainEnd, build, flags, results
  <2>4. QED
    BY <2>1, <2>2, <2>3, TypePartsNext
<1>6. CASE StopFinish
  <2>1. FlagsOK'
    BY <1>0, <1>6 DEF FlagsOK, StopFinish
  <2>2. ClientsOK'
    BY <1>0, <1>6 DEF ClientsOK, StopFinish, Goes
  <2>3. BuildOK' /\ QueuesOK' /\ WorkersOK' /\ ResultsOK'
    BY <1>0, <1>6 DEF BuildOK, QueuesOK, WorkersOK, ResultsOK, StopFinish, build,
                      results
  <2>4. QED
    BY <2>1, <2>2, <2>3, TypePartsNext
<1>7. CASE Destroy
  <2>1. FlagsOK'
    BY <1>0, <1>7 DEF FlagsOK, Destroy, queues
  <2>2. ClientsOK'
    BY <1>0, <1>7 DEF ClientsOK, Destroy, Goes
  <2>3. BuildOK' /\ QueuesOK' /\ WorkersOK' /\ ResultsOK'
    BY <1>0, <1>7 DEF BuildOK, QueuesOK, WorkersOK, ResultsOK, Destroy, build,
                      queues, results
  <2>4. QED
    BY <2>1, <2>2, <2>3, TypePartsNext
<1>8. QED
  BY <1>1, <1>2, <1>3, <1>4, <1>5, <1>6, <1>7 DEF OwnerStep, StopStep

LEMMA TypeStep == TypeOK /\ [Next]_vars => TypeOK'
<1>1. TypeOK /\ Next => TypeOK'
  BY TypeWorker, TypeClient, TypeOwner DEF Next
<1>2. TypeOK /\ UNCHANGED vars => TypeOK'
  BY DEF TypeOK, vars, build, flags, queues, results, clients
<1>3. QED
  BY <1>1, <1>2

\* Every variable keeps its type, whatever the stages do: a pop never runs past
\* what was pushed, and the results hold frames, never nullptr.
THEOREM TypeCorrect == Spec => []TypeOK
<1>1. QED
  BY TypeInit, TypeStep, PTL DEF Spec


-----------------------------------------------------------------------------
(***************************************************************************)
(* The inductive invariant of ResultsInOrder and the drain.  A             *)
(* submit() that races with stop() may start workers a second time; by     *)
(* then stop() is over, so only the first run of the workers matters.      *)
(***************************************************************************)
Stopping == cpc[Owner] \in {"join", "drain", "finish"}

\* start() and stop() act once each, in this order, before any restart.
Lifecycle ==
  /\ Stopping => running_ /\ stopped_ /\ starts = 1
  /\ ~stopped_ => starts = IF running_ THEN 1 ELSE 0
  /\ stopped_ => starts > 0
  /\ starts = 0 =>
       /\ workers = 0
       /\ \A j \in Queue : log[j] = <<>> /\ head[j] = 0 /\ ~closed[j]
  /\ starts > 0 => workers > 0
  /\ \A c \in Clients : At(c, "push") => stages > 0

AllExited == \A i \in 1..workers : wpc[i] = "exited"

\* The workers of the first run: stop() joins all of them, and closes no queue
\* before they are gone.
Staff ==
  starts <= 1 =>
    /\ \A i \in Stage : i > workers => wpc[i] = "none"
    /\ ~stopped_ \/ At(Owner, "join") => 1..workers \subseteq joinable
    /\ At(Owner, "drain") \/ At(Owner, "finish") => AllExited
    /\ \A j \in Queue : closed[j] => AllExited

InFlight(i) == IF wpc[i] \in {"process", "threw"} THEN 1 ELSE 0

\* Worker i has pushed as many items as it has popped, but for the one in its
\* hands, and the k-th item of every queue is the k-th that was submitted, or
\* nullptr in its place.
Balance ==
  starts <= 1 => \A i \in 1..workers : head[i] = Len(log[i + 1]) + InFlight(i)

Conveyor ==
  starts <= 1 =>
    \A j \in 1..Output :
      /\ Len(log[j]) <= Len(log[1])
      /\ \A k \in 1..Len(log[j]) : log[j][k] \in {log[1][k], NoFrame}

\* What a worker pushes last is the sentinel.
Sentinels ==
  starts <= 1 =>
    \A i \in 1..workers :
      wpc[i] = "exited" =>
        /\ Len(log[i + 1]) > 0
        /\ log[i + 1][Len(log[i + 1])] = NoFrame

\* Nothing is delivered before the drain, which delivers what it pops.
Drained ==
  /\ ~stopped_ \/ At(Owner, "join") => Delivered = <<>> /\ head[Output] = 0
  /\ At(Owner, "drain") =>
       /\ Len(Delivered) = head[Output]
       /\ \A k \in 1..head[Output] : log[Output][k] # NoFrame

Inv ==
  /\ TypeOK /\ Lifecycle /\ Staff /\ Balance /\ Conveyor /\ Sentinels /\ Drained
  /\ ResultsInOrder

\* The types that the steps below need.
LEMMA Kinds ==
  ASSUME TypeOK
  PROVE  /\ stages \in Nat /\ workers \in Nat /\ starts \in Nat
         /\ workers <= MaxStages /\ stages <= MaxStages
         /\ running_ \in BOOLEAN /\ stopped_ \in BOOLEAN
         /\ Owner \in Clients
         /\ DOMAIN cpc = Clients /\ DOMAIN wpc = Stage
         /\ cpc \in [Clients -> {"idle", "push", "join", "drain", "finish", "destroyed"}]
         /\ wpc \in [Stage -> {"none", "pop", "process", "exited", "threw"}]
BY StagesAssumption DEF TypeOK, Clients

\* A client's step moves that client only.
LEMMA GoesMoves ==
  ASSUME TypeOK, NEW c \in Clients, NEW from, NEW to, Goes(c, from, to)
  PROVE  /\ cpc[c] = from /\ cpc'[c] = to
         /\ \A d \in Clients : d # c => cpc'[d] = cpc[d]
BY Kinds DEF Goes, Runs, At

\* Only the workers of the first run take steps in it.
LEMMA OnlyStaffWorks ==
  ASSUME TypeOK, Lifecycle, Staff, NEW i \in Stage, WorkerStep(i)
  PROVE  /\ starts > 0
         /\ starts <= 1 => i \in 1..workers
<1>1. wpc[i] # "none"
  BY DEF WorkerStep, WorkerGoes, WorkerPop, WorkerExit, StageReturns,
         StageFails, StageThrows
<1>2. starts \in Nat /\ workers \in Nat /\ i \in Nat /\ i >= 1
  BY Kinds, StagesAssumption DEF Stage
<1>3. starts <= 1 => i <= workers
  BY <1>1, <1>2 DEF Staff
<1>4. QED
  BY <1>2, <1>3 DEF Lifecycle

LEMMA LifecycleStep ==
  ASSUME TypeOK, Lifecycle, Staff, Next
  PROVE  Lifecycle'
<1>0. /\ stages \in Nat /\ workers \in Nat /\ starts \in Nat
      /\ running_ \in BOOLEAN /\ stopped_ \in BOOLEAN /\ Owner \in Clients
  BY Kinds
<1>1. ASSUME NEW i \in Stage, WorkerStep(i)
      PROVE  Lifecycle'
  <2>1. starts > 0
    BY <1>1, OnlyStaffWorks
  <2>2. UNCHANGED <<stages, workers, starts, running_, stopped_, cpc>>
    BY <1>1 DEF WorkerStep, WorkerPop, WorkerExit, StageReturns, StageFails,
                StageThrows, build, flags, clients
  <2>3. QED
    BY <1>0, <2>1, <2>2 DEF Lifecycle, Stopping, At
<1>2. ASSUME NEW c \in Clients, NEW f \in Items, SubmitCheck(c, f)
      PROVE  Lifecycle'
  <2>1. /\ cpc[c] = "idle" /\ cpc'[c] = "push"
        /\ \A d \in Clients : d # c => cpc'[d] = cpc[d]
    BY <1>2, GoesMoves DEF SubmitCheck
  <2>2. UNCHANGED <<stages, workers, starts, running_, stopped_, log, head, closed>>
    BY <1>2 DEF SubmitCheck, build, flags, queues
  <2>3. stages > 0
    BY <1>2 DEF SubmitCheck
  <2>4. Stopping' => Stopping
    BY <1>0, <2>1 DEF Stopping
  <2>5. QED
    BY <1>0, <2>2, <2>3, <2>4 DEF Lifecycle
<1>3. ASSUME NEW c \in Clients, SubmitPush(c)
      PROVE  Lifecycle'
  <2>1. /\ cpc[c] = "push" /\ cpc'[c] = "idle"
        /\ \A d \in Clients : d # c => cpc'[d] = cpc[d]
    BY <1>3, GoesMoves DEF SubmitPush
  <2>2. Stopping' => Stopping
    BY <1>0, <2>1 DEF Stopping
  <2>3. UNCHANGED <<stages, stopped_>>
    BY <1>3 DEF SubmitPush
  <2>4. \A d \in Clients : cpc'[d] = "push" => cpc[d] = "push"
    BY <2>1
  <2>5. stages > 0
    BY <2>1 DEF Lifecycle, At
  <2>6. CASE running_
    <3>1. starts > 0 /\ UNCHANGED <<running_, workers, starts>>
      BY <1>0, <1>3, <2>6 DEF SubmitPush, Lifecycle
    <3>2. QED
      BY <1>0, <2>2, <2>3, <2>4, <3>1 DEF Lifecycle, At
  <2>7. CASE ~running_
    <3>1. running_' /\ workers' = stages /\ starts' = starts + 1
      BY <1>3, <2>7 DEF SubmitPush, Start
    <3>2. ~Stopping
      BY <2>7 DEF Lifecycle
    <3>3. QED
      BY <1>0, <2>2, <2>3, <2>4, <2>5, <2>7, <3>1, <3>2 DEF Lifecycle, At
  <2>8. QED
    BY <2>6, <2>7
<1>4. ASSUME NEW c \in Clients, CollectResults(c)
      PROVE  Lifecycle'
  BY <1>4 DEF CollectResults, Lifecycle, Stopping, At, build, flags, queues, clients
<1>5. CASE AddStage
  BY <1>0, <1>5 DEF AddStage, Lifecycle, Stopping, At, flags, queues, clients
<1>6. CASE StopBegin
  <2>1. /\ cpc'[Owner] = "join"
        /\ \A d \in Clients : d # Owner => cpc'[d] = cpc[d]
    BY <1>0, <1>6, GoesMoves DEF StopBegin
  <2>2. running_ /\ stopped_' /\ starts = 1
    BY <1>6 DEF StopBegin, Lifecycle
  <2>3. UNCHANGED <<stages, workers, starts, running_>>
    BY <1>6 DEF StopBegin, build
  <2>4. QED
    BY <1>0, <2>1, <2>2, <2>3 DEF Lifecycle, At
<1>7. CASE StopJoin \/ DrainFrame \/ DrainEnd
  <2>1. Stopping
    BY <1>7 DEF StopJoin, DrainFrame, DrainEnd, Stopping, Goes, Runs, At
  <2>2. UNCHANGED <<stages, workers, starts, running_, stopped_>>
    BY <1>7 DEF StopJoin, DrainFrame, DrainEnd, build, flags
  <2>3. \A d \in Clients : cpc'[d] = "push" => cpc[d] = "push"
    BY <1>0, <1>7, GoesMoves DEF StopJoin, DrainFrame, DrainEnd, clients
  <2>4. QED
    BY <1>0, <2>1, <2>2, <2>3 DEF Lifecycle, At
<1>8. CASE StopFinish
  <2>1. /\ cpc[Owner] = "finish" /\ cpc'[Owner] = "idle"
        /\ \A d \in Clients : d # Owner => cpc'[d] = cpc[d]
    BY <1>0, <1>8, GoesMoves DEF StopFinish
  <2>2. stopped_ /\ starts = 1
    BY <2>1 DEF Stopping, Lifecycle
  <2>3. UNCHANGED <<stages, workers, starts, stopped_>>
    BY <1>8 DEF StopFinish, build
  <2>4. QED
    BY <1>0, <2>1, <2>2, <2>3 DEF Lifecycle, Stopping, At
<1>9. CASE Destroy
  <2>1. /\ cpc'[Owner] = "destroyed"
        /\ \A d \in Clients : d # Owner => cpc'[d] = cpc[d]
    BY <1>0, <1>9, GoesMoves DEF Destroy
  <2>2. UNCHANGED <<stages, workers, starts, running_, stopped_, log, head, closed>>
    BY <1>9 DEF Destroy, build, queues
  <2>3. QED
    BY <1>0, <2>1, <2>2 DEF Lifecycle, Stopping, At
<1>10. QED
  BY <1>1, <1>2, <1>3, <1>4, <1>5, <1>6, <1>7, <1>8, <1>9
  DEF Next, ClientStep, OwnerStep, StopStep


-----------------------------------------------------------------------------
(***************************************************************************)
(* What a worker's step does to its two queues during the first run        *)
(***************************************************************************)

\* A push into an open queue.
LEMMA PushAppends ==
  ASSUME QueuesOK, NEW i \in Queue, NEW x \in Items, Push(i, x), ~closed[i]
  PROVE  /\ Len(log[i]) \in Nat
         /\ Len(log'[i]) = Len(log[i]) + 1
         /\ log'[i][Len(log[i]) + 1] = x
         /\ \A k \in 1..Len(log[i]) : log'[i][k] = log[i][k]
         /\ \A j \in Queue : j # i => log'[j] = log[j]
<1>1. /\ Len(Append(log[i], x)) = Len(log[i]) + 1
      /\ Append(log[i], x)[Len(log[i]) + 1] = x
      /\ \A k \in 1..Len(log[i]) : Append(log[i], x)[k] = log[i][k]
  BY AppendProperties DEF QueuesOK
<1>2. log' = [log EXCEPT ![i] = Append(log[i], x)]
  BY DEF Push
<1>3. QED
  BY <1>1, <1>2, LenProperties DEF QueuesOK

\* Worker i takes an item into its hands, or throws.
Keeps(i) ==
  /\ UNCHANGED log
  /\ wpc'[i] # "exited"
  /\ head'[i] = Len(log[i + 1]) + InFlight(i)'

\* Worker i pushes x for the item it popped last.
Emits(i, x) ==
  /\ Len(log'[i + 1]) = Len(log[i + 1]) + 1
  /\ \A k \in 1..Len(log[i + 1]) : log'[i + 1][k] = log[i + 1][k]
  /\ log'[i + 1][Len(log'[i + 1])] = x
  /\ head'[i] = Len(log'[i + 1])
  /\ head'[i] \in 1..Len(log[i])
  /\ InFlight(i)' = 0
  /\ x \in {log[i][head'[i]], NoFrame}
  /\ wpc'[i] = "exited" => x = NoFrame

LEMMA WorkerOnConveyor ==
  ASSUME TypeOK, Lifecycle, Staff, Balance, starts <= 1,
         NEW i \in Stage, WorkerStep(i)
  PROVE  /\ i \in 1..workers
         /\ \A j \in Stage : j # i => wpc'[j] = wpc[j]
         /\ \A j \in Queue : j # i => head'[j] = head[j]
         /\ \A j \in Queue : j # i + 1 => log'[j] = log[j]
         /\ Keeps(i) \/ \E x \in Items : Emits(i, x)
<1>0. /\ QueuesOK /\ i \in Queue /\ i + 1 \in Queue /\ i + 1 # i
      /\ NoFrame \in Items
  BY TypeParts, StagesAssumption DEF Queue, Stage, Items
<1>1. i \in 1..workers
  BY OnlyStaffWorks
<1>2. ~closed[i] /\ ~closed[i + 1]
  <2>1. wpc[i] # "exited"
    BY DEF WorkerStep, WorkerGoes, WorkerPop, WorkerExit, StageReturns,
           StageFails, StageThrows
  <2>2. QED
    BY <1>0, <1>1, <2>1 DEF Staff, AllExited
<1>3. \A j \in Stage : j # i => wpc'[j] = wpc[j]
  BY Kinds DEF WorkerStep, WorkerGoes, WorkerPop, WorkerExit, StageReturns,
               StageFails, StageThrows
<1>4. /\ head[i] = Len(log[i + 1]) + InFlight(i)
      /\ head[i] \in Nat /\ Len(log[i + 1]) \in Nat /\ Len(log[i]) \in Nat
      /\ head[i] <= Len(log[i]) /\ wpc'[i] = wpc'[i]
  BY <1>0, <1>1, LenProperties DEF Balance, QueuesOK
<1>5. CASE WorkerPop(i)
  <2>1. /\ head'[i] = head[i] + 1
        /\ \A j \in Queue : j # i => head'[j] = head[j]
    BY <1>0, <1>5, PopHead DEF WorkerPop
  <2>2. wpc[i] = "pop" /\ wpc'[i] = "process" /\ UNCHANGED log
    BY <1>5, Kinds DEF WorkerPop, WorkerGoes
  <2>3. Keeps(i)
    BY <1>4, <2>1, <2>2 DEF Keeps, InFlight
  <2>4. QED
    BY <1>1, <1>3, <2>1, <2>2, <2>3
<1>6. CASE WorkerExit(i)
  <2>1. Pop(i) /\ Front(i) = NoFrame
    BY <1>2, <1>6 DEF WorkerExit, PopEnd
  <2>2. /\ head'[i] = head[i] + 1
        /\ \A j \in Queue : j # i => head'[j] = head[j]
        /\ head[i] + 1 \in 1..Len(log[i])
    BY <1>0, <2>1, PopHead
  <2>3. /\ Len(log'[i + 1]) = Len(log[i + 1]) + 1
        /\ log'[i + 1][Len(log[i + 1]) + 1] = NoFrame
        /\ \A k \in 1..Len(log[i + 1]) : log'[i + 1][k] = log[i + 1][k]
        /\ \A j \in Queue : j # i + 1 => log'[j] = log[j]
    BY <1>0, <1>2, <1>6, PushAppends DEF WorkerExit
  <2>4. wpc[i] = "pop" /\ wpc'[i] = "exited"
    BY <1>6, Kinds DEF WorkerExit, WorkerGoes
  <2>5. Emits(i, NoFrame)
    BY <1>4, <2>2, <2>3, <2>4 DEF Emits, InFlight
  <2>6. QED
    BY <1>0, <1>1, <1>3, <2>2, <2>3, <2>5
<1>7. CASE StageReturns(i) \/ StageFails(i)
  <2>1. wpc[i] = "process" /\ wpc'[i] = "pop" /\ UNCHANGED head
    BY <1>7, Kinds DEF StageReturns, StageFails, WorkerGoes
  <2>2. head[i] = Len(log[i + 1]) + 1 /\ head[i] \in 1..Len(log[i])
    BY <1>4, <2>1 DEF InFlight
  <2>3. InHand(i) \in Items
    BY <1>0, <2>2, ElementOfSeq DEF QueuesOK, InHand
  <2>4. PICK x \in Items : x \in {InHand(i), NoFrame} /\ Push(i + 1, x)
    BY <1>0, <1>7, <2>3 DEF StageReturns, StageFails
  <2>5. /\ Len(log'[i + 1]) = Len(log[i + 1]) + 1
        /\ log'[i + 1][Len(log[i + 1]) + 1] = x
        /\ \A k \in 1..Len(log[i + 1]) : log'[i + 1][k] = log[i + 1][k]
        /\ \A j \in Queue : j # i + 1 => log'[j] = log[j]
    BY <1>0, <1>2, <2>4, PushAppends
  <2>6. Emits(i, x)
    BY <1>4, <2>1, <2>2, <2>4, <2>5 DEF Emits, InFlight, InHand
  <2>7. QED
    BY <1>1, <1>3, <2>1, <2>5, <2>6
<1>8. CASE StageThrows(i)
  <2>1. wpc[i] = "process" /\ wpc'[i] = "threw" /\ UNCHANGED <<head, log>>
    BY <1>8, Kinds DEF StageThrows, WorkerGoes, queues
  <2>2. Keeps(i)
    BY <1>4, <2>1 DEF Keeps, InFlight
  <2>3. QED
    BY <1>1, <1>3, <2>1, <2>2
<1>9. QED
  BY <1>5, <1>6, <1>7, <1>8 DEF WorkerStep


-----------------------------------------------------------------------------
(***************************************************************************)
(* What the steps of the clients do to the queues                          *)
(***************************************************************************)

\* The workers of the first run start, with empty queues.
Opens ==
  /\ starts = 0 /\ starts' = 1
  /\ workers' \in 1..MaxStages
  /\ 1..workers' \subseteq joinable'
  /\ \A i \in Stage : wpc'[i] = IF i <= workers' THEN "pop" ELSE "none"
  /\ \A j \in Queue : head'[j] = 0 /\ ~closed'[j]
  /\ \A j \in Queue : j # 1 => Len(log'[j]) = 0
  /\ ~stopped_ /\ ~Stopping' /\ UNCHANGED results

\* Any other step but a restart adds at most to the input queue, and removes at
\* most from the output queue.
Quiet ==
  /\ UNCHANGED <<workers, starts, wpc>>
  /\ \A j \in Queue : j # 1 => log'[j] = log[j]
  /\ \A j \in Queue : j # Output => head'[j] = head[j]

LEMMA InputGrows ==
  ASSUME TypeOK, Next
  PROVE  Grows
<1>0. QueuesOK /\ BuildOK /\ ClientsOK /\ WorkersOK
  BY TypeParts
<1>a. \A j \in Queue : Len(log[j]) \in Nat
  BY <1>0, LenProperties DEF QueuesOK
<1>b. ASSUME UNCHANGED log PROVE Grows
  BY <1>a, <1>b DEF Grows
<1>c. 1 \in Queue /\ NoFrame \in Items
  BY StagesAssumption DEF Queue, Items
<1>1. ASSUME NEW i \in Stage, WorkerStep(i) PROVE Grows
  <2>0. i \in Queue /\ i + 1 \in Queue
    BY StagesAssumption DEF Queue, Stage
  <2>1. CASE WorkerPop(i) \/ StageThrows(i)
    BY <1>b, <2>1 DEF WorkerPop, StageThrows, queues
  <2>2. CASE WorkerExit(i)
    BY <1>0, <1>c, <2>0, <2>2, PushGrows DEF WorkerExit
  <2>3. CASE StageReturns(i) \/ StageFails(i)
    <3>1. head[i] \in 1..Len(log[i]) /\ log[i] \in Seq(Items)
      BY <1>0, <1>a, <2>0, <2>3
      DEF QueuesOK, WorkersOK, StageReturns, StageFails, WorkerGoes
    <3>2. InHand(i) \in Items
      BY <3>1, ElementOfSeq DEF InHand
    <3>3. QED
      BY <1>0, <1>c, <2>0, <2>3, <3>2, PushGrows DEF StageReturns, StageFails
  <2>4. QED
    BY <1>1, <2>1, <2>2, <2>3 DEF WorkerStep
<1>2. ASSUME NEW c \in Clients, SubmitPush(c) PROVE Grows
  BY <1>0, <1>2, <1>c, PushGrows DEF SubmitPush, ClientsOK
<1>3. CASE StopBegin
  BY <1>0, <1>3, <1>c, PushGrows DEF StopBegin
<1>4. CASE AddStage \/ StopStep \/ Destroy
  BY <1>4, <1>b DEF AddStage, StopStep, StopJoin, DrainFrame, DrainEnd,
                    StopFinish, Destroy, queues
<1>5. ASSUME NEW c \in Clients,
             CollectResults(c) \/ \E f \in Items : SubmitCheck(c, f)
      PROVE  Grows
  BY <1>5, <1>b DEF CollectResults, SubmitCheck, queues
<1>6. QED
  BY <1>1, <1>2, <1>3, <1>4, <1>5 DEF Next, ClientStep, OwnerStep

LEMMA ClientsOnConveyor ==
  ASSUME TypeOK, Lifecycle, Staff, Next, starts' <= 1
  PROVE  (\E i \in Stage : WorkerStep(i)) \/ Opens \/ Quiet
<1>0. /\ QueuesOK /\ BuildOK /\ ClientsOK
      /\ 1 \in Queue /\ NoFrame \in Items /\ Output \in Queue
      /\ starts \in Nat /\ Owner \in Clients /\ workers \in Nat /\ stages \in Nat
  BY TypeParts, OutputIsQueue, Kinds DEF Items
<1>1. ASSUME NEW x \in Items, Push(1, x)
      PROVE  \A j \in Queue : j # 1 => log'[j] = log[j]
  BY <1>0, <1>1 DEF Push, QueuesOK
<1>2. ASSUME NEW c \in Clients, SubmitPush(c), running_
      PROVE  Quiet
  BY <1>0, <1>1, <1>2 DEF SubmitPush, ClientsOK, Quiet
<1>3. ASSUME NEW c \in Clients, SubmitPush(c), ~running_
      PROVE  Opens
  <2>1. /\ workers' = stages /\ starts' = starts + 1
        /\ joinable' = joinable \union (1..stages)
        /\ wpc' = [i \in Stage |-> IF i <= stages THEN "pop" ELSE wpc[i]]
        /\ UNCHANGED <<stopped_, head, closed, results>>
    BY <1>3 DEF SubmitPush, Start
  <2>2. starts = 0 /\ starts' = 1
    BY <1>0, <2>1
  <2>3. ~stopped_ /\ ~Stopping /\ workers = 0
    BY <1>3, <2>2 DEF Lifecycle
  <2>4. cpc[c] = "push" /\ cpc'[c] = "idle" /\ (c # Owner => cpc'[Owner] = cpc[Owner])
    BY <1>0, <1>3, GoesMoves DEF SubmitPush
  <2>5. stages \in 1..MaxStages
    BY <1>0, <2>4, Kinds DEF Lifecycle, At
  <2>6. \A j \in Queue : log[j] = <<>> /\ head[j] = 0 /\ ~closed[j]
    BY <2>2 DEF Lifecycle
  <2>7. \A j \in Queue : j # 1 => log'[j] = <<>>
    BY <1>0, <1>1, <1>3, <2>6 DEF SubmitPush, ClientsOK
  <2>8. \A i \in Stage : wpc[i] = "none"
    BY <2>2, <2>3, StagesAssumption DEF Staff, Stage
  <2>9. ~Stopping'
    BY <2>3, <2>4 DEF Stopping
  <2>10. QED
    BY <2>1, <2>2, <2>3, <2>5, <2>6, <2>7, <2>8, <2>9, EmptySeq DEF Opens, results
<1>4. CASE StopBegin
  BY <1>0, <1>1, <1>4 DEF StopBegin, build, Quiet
<1>5. CASE DrainFrame \/ DrainEnd
  <2>1. UNCHANGED <<workers, starts, wpc, log>>
    BY <1>5 DEF DrainFrame, DrainEnd, build
  <2>2. UNCHANGED head \/ Pop(Output)
    BY <1>5 DEF DrainFrame, DrainEnd, PopEnd
  <2>3. \A j \in Queue : j # Output => head'[j] = head[j]
    BY <1>0, <2>2, PopHead
  <2>4. QED
    BY <2>1, <2>3 DEF Quiet
<1>6. CASE AddStage \/ StopJoin \/ StopFinish \/ Destroy
  BY <1>6 DEF AddStage, StopJoin, StopFinish, Destroy, build, queues, Quiet
<1>7. ASSUME NEW c \in Clients,
             CollectResults(c) \/ \E f \in Items : SubmitCheck(c, f)
      PROVE  Quiet
  BY <1>7 DEF CollectResults, SubmitCheck, build, queues, Quiet
<1>8. QED
  BY <1>2, <1>3, <1>4, <1>5, <1>6, <1>7
  DEF Next, ClientStep, OwnerStep, StopStep


-----------------------------------------------------------------------------
(***************************************************************************)
(* Each part of the invariant is preserved                                 *)
(***************************************************************************)

\* start() is the only step that counts up starts.
LEMMA StartsGrow ==
  ASSUME TypeOK, Next
  PROVE  starts \in Nat /\ starts' \in Nat /\ starts <= starts'
<1>1. starts \in Nat
  BY Kinds
<1>2. starts' \in {starts, starts + 1}
  BY DEF Next, ClientStep, OwnerStep, StopStep, WorkerStep, WorkerPop, WorkerExit,
         StageReturns, StageFails, StageThrows, AddStage, SubmitCheck, SubmitPush,
         Start, StopBegin, StopJoin, DrainFrame, DrainEnd, StopFinish,
         CollectResults, Destroy, build
<1>3. QED
  BY <1>1, <1>2

LEMMA StaffStep ==
  ASSUME TypeOK, Lifecycle, Staff, Balance, Next
  PROVE  Staff'
<1> SUFFICES ASSUME starts' <= 1 PROVE Staff'
  BY DEF Staff
<1>0. /\ starts \in Nat /\ starts <= 1 /\ workers \in Nat
      /\ Owner \in Clients
  BY StartsGrow, Kinds
<1>1. ASSUME NEW i \in Stage, WorkerStep(i)
      PROVE  Staff'
  <2>1. /\ i \in 1..workers
        /\ \A j \in Stage : j # i => wpc'[j] = wpc[j]
    BY <1>0, <1>1, WorkerOnConveyor
  <2>2. UNCHANGED <<workers, joinable, stopped_, cpc, closed>>
    BY <1>1 DEF WorkerStep, WorkerPop, WorkerExit, StageReturns, StageFails,
                StageThrows, build, flags, queues, clients
  <2>3. ~AllExited
    BY <1>1, <2>1 DEF AllExited, WorkerStep, WorkerPop, WorkerExit, StageReturns,
                      StageFails, StageThrows, WorkerGoes
  <2>4. QED
    BY <1>0, <2>1, <2>2, <2>3 DEF Staff, At
<1>2. CASE Opens
  <2>1. \A i \in Stage : i > workers' => wpc'[i] = "none"
    BY <1>2, StagesAssumption DEF Opens, Stage
  <2>2. QED
    BY <1>2, <2>1 DEF Opens, Staff, Stopping, At
<1>3. CASE Quiet
  <2>0. /\ UNCHANGED <<workers, wpc>>
        /\ AllExited => AllExited'
    BY <1>3 DEF Quiet, AllExited
  <2>a. \A j \in Stage : j > workers => wpc[j] = "none"
    BY <1>0 DEF Staff
  <2>1. ASSUME NEW c \in Clients,
               \/ \E f \in Items : SubmitCheck(c, f)
               \/ SubmitPush(c) /\ UNCHANGED joinable
               \/ CollectResults(c)
               \/ AddStage
               \/ Destroy
        PROVE  Staff'
    <3>1. UNCHANGED <<joinable, stopped_, closed>>
      BY <2>1 DEF SubmitCheck, SubmitPush, CollectResults, AddStage, Destroy, build,
                  flags, queues
    <3>2. Stopping' => cpc'[Owner] = cpc[Owner]
      BY <1>0, <2>1, GoesMoves
      DEF SubmitCheck, SubmitPush, CollectResults, AddStage, Destroy, clients, Stopping
    <3>3. QED
      BY <1>0, <2>0, <2>a, <3>1, <3>2 DEF Staff, Stopping, At
  <2>2. ASSUME NEW c \in Clients, SubmitPush(c)
        PROVE  UNCHANGED joinable
    <3>1. running_ \/ starts' = starts + 1
      BY <2>2 DEF SubmitPush, Start
    <3>2. running_
      BY <1>0, <1>3, <3>1 DEF Quiet
    <3>3. QED
      BY <2>2, <3>2 DEF SubmitPush
  <2>3. CASE StopBegin
    <3>1. ~stopped_ /\ UNCHANGED <<joinable, closed>> /\ cpc'[Owner] = "join"
      BY <1>0, <2>3, GoesMoves DEF StopBegin, build
    <3>2. QED
      BY <1>0, <2>0, <2>a, <3>1 DEF Staff, At
  <2>4. CASE StopJoin
    <3>1. /\ cpc[Owner] = "join" /\ cpc'[Owner] = "drain"
          /\ UNCHANGED <<stopped_, closed>>
          /\ \A i \in joinable : wpc[i] = "exited"
      BY <1>0, <2>4, GoesMoves DEF StopJoin, flags, queues
    <3>2. AllExited /\ stopped_
      BY <1>0, <3>1 DEF Staff, At, AllExited, Lifecycle, Stopping
    <3>3. QED
      BY <2>0, <2>a, <3>1, <3>2 DEF Staff, At
  <2>5. CASE DrainFrame \/ DrainEnd \/ StopFinish
    <3>1. /\ cpc[Owner] \in {"drain", "finish"} /\ cpc'[Owner] # "join"
          /\ UNCHANGED stopped_
      BY <1>0, <2>5, GoesMoves
      DEF DrainFrame, DrainEnd, StopFinish, Runs, At, flags, clients
    <3>2. AllExited /\ stopped_
      BY <1>0, <3>1 DEF Staff, At, Lifecycle, Stopping
    <3>3. QED
      BY <2>0, <2>a, <3>1, <3>2 DEF Staff, At
  <2>6. ASSUME ~(\E i \in Stage : WorkerStep(i))
        PROVE  Staff'
    BY <1>0, <2>1, <2>2, <2>3, <2>4, <2>5, <2>6
    DEF Next, ClientStep, OwnerStep, StopStep
  <2>7. QED
    BY <1>1, <2>6
<1>4. QED
  BY <1>1, <1>2, <1>3, ClientsOnConveyor

LEMMA BalanceStep ==
  ASSUME TypeOK, Lifecycle, Staff, Balance, Next
  PROVE  Balance'
<1> SUFFICES ASSUME starts' <= 1, NEW j \in 1..workers'
             PROVE  (head[j] = Len(log[j + 1]) + InFlight(j))'
  BY DEF Balance
<1>0. /\ starts \in Nat /\ starts <= 1 /\ workers \in Nat /\ workers <= MaxStages
      /\ BuildOK
  BY StartsGrow, Kinds, TypeParts
<1>1. ASSUME NEW i \in Stage, WorkerStep(i)
      PROVE  (head[j] = Len(log[j + 1]) + InFlight(j))'
  <2>1. UNCHANGED workers
    BY <1>1 DEF WorkerStep, WorkerPop, WorkerExit, StageReturns, StageFails,
                StageThrows, build
  <2>2. j \in Stage /\ j \in Queue /\ j + 1 \in Queue
    BY <1>0, <2>1, StagesAssumption DEF Stage, Queue
  <2>3. CASE j # i
    <3>1. wpc'[j] = wpc[j] /\ head'[j] = head[j] /\ log'[j + 1] = log[j + 1]
      BY <1>0, <1>1, <2>2, <2>3, WorkerOnConveyor DEF Stage
    <3>2. QED
      BY <1>0, <2>1, <3>1 DEF Balance, InFlight
  <2>4. CASE j = i
    <3>1. CASE Keeps(i)
      BY <2>4, <3>1 DEF Keeps
    <3>2. CASE \E x \in Items : Emits(i, x)
      <4>1. head'[i] = Len(log'[i + 1]) /\ InFlight(i)' = 0
        BY <3>2 DEF Emits
      <4>2. Len(log'[i + 1]) \in Nat
        BY <1>0, <2>2, <2>4, InputGrows DEF Grows
      <4>3. QED
        BY <2>4, <4>1, <4>2
    <3>3. QED
      BY <1>0, <1>1, <3>1, <3>2, WorkerOnConveyor
  <2>5. QED
    BY <2>3, <2>4
<1>2. CASE Opens
  <2>1. j \in Stage /\ j \in Queue /\ j + 1 \in Queue /\ j + 1 # 1
    BY <1>2, StagesAssumption DEF Opens, Stage, Queue
  <2>2. head'[j] = 0 /\ Len(log'[j + 1]) = 0 /\ wpc'[j] = "pop"
    BY <1>2, <2>1 DEF Opens
  <2>3. QED
    BY <2>2 DEF InFlight
<1>3. CASE Quiet
  <2>1. j \in Queue /\ j + 1 \in Queue /\ j + 1 # 1 /\ j # Output
    BY <1>0, <1>3, StagesAssumption DEF Quiet, Queue, Output
  <2>2. UNCHANGED <<workers, wpc>> /\ head'[j] = head[j] /\ log'[j + 1] = log[j + 1]
    BY <1>3, <2>1 DEF Quiet
  <2>3. QED
    BY <1>0, <2>2 DEF Balance, InFlight
<1>4. QED
  BY <1>1, <1>2, <1>3, ClientsOnConveyor


LEMMA ConveyorStep ==
  ASSUME TypeOK, Lifecycle, Staff, Balance, Conveyor, Next
  PROVE  Conveyor'
<1> DEFINE Follows(j) ==
      /\ Len(log[j]) <= Len(log[1])
      /\ \A k \in 1..Len(log[j]) : log[j][k] \in {log[1][k], NoFrame}
<1> SUFFICES ASSUME starts' <= 1, NEW j \in 1..Output'
             PROVE  Follows(j)'
  BY DEF Conveyor
<1>0. /\ starts \in Nat /\ starts <= 1 /\ workers \in Nat /\ workers <= MaxStages
      /\ Grows
  BY StartsGrow, Kinds, InputGrows
<1>a. \A i \in 1..Output : Follows(i)
  BY <1>0 DEF Conveyor
<1>1. ASSUME NEW i \in Stage, WorkerStep(i)
      PROVE  Follows(j)'
  <2>0. UNCHANGED workers
    BY <1>1 DEF WorkerStep, WorkerPop, WorkerExit, StageReturns, StageFails,
                StageThrows, build
  <2>1. i \in 1..workers /\ i \in 1..Output /\ j \in 1..Output
    BY <1>0, <1>1, <2>0, WorkerOnConveyor DEF Output
  <2>2. j \in Queue /\ i \in Queue /\ i + 1 \in Queue /\ 1 \in Queue /\ i + 1 # 1
    BY <1>0, <2>1, StagesAssumption DEF Queue, Output
  <2>3. log'[1] = log[1]
    BY <1>0, <1>1, <2>2, WorkerOnConveyor
  <2>4. CASE log'[j] = log[j]
    BY <1>a, <2>1, <2>3, <2>4
  <2>5. CASE log'[j] # log[j]
    <3>1. j = i + 1
      BY <1>0, <1>1, <2>2, <2>5, WorkerOnConveyor
    <3>2. PICK x \in Items : Emits(i, x)
      BY <1>0, <1>1, <2>5, WorkerOnConveyor DEF Keeps
    <3>3. /\ Len(log'[j]) = Len(log[j]) + 1
          /\ Len(log'[j]) \in 1..Len(log[i])
          /\ \A k \in 1..Len(log[j]) : log'[j][k] = log[j][k]
          /\ log'[j][Len(log'[j])] \in {log[i][Len(log'[j])], NoFrame}
      BY <3>1, <3>2 DEF Emits
    <3>4. Len(log[j]) \in Nat /\ Len(log[i]) \in Nat /\ Len(log[1]) \in Nat
      BY <1>0, <2>2 DEF Grows
    <3>5. Follows(i) /\ Follows(j)
      BY <1>a, <2>1
    <3>6. Len(log'[j]) <= Len(log[1])
      BY <3>3, <3>4, <3>5
    <3>7. ASSUME NEW k \in 1..Len(log'[j])
          PROVE  log'[j][k] \in {log[1][k], NoFrame}
      <4>1. CASE k \in 1..Len(log[j])
        BY <3>3, <3>5, <4>1
      <4>2. CASE k = Len(log'[j])
        BY <3>3, <3>5, <4>2
      <4>3. QED
        BY <3>3, <3>4, <4>1, <4>2
    <3>8. QED
      BY <2>3, <3>6, <3>7
  <2>6. QED
    BY <2>4, <2>5
<1>2. CASE Opens
  <2>0. workers' \in 1..MaxStages
    BY <1>2 DEF Opens
  <2>1. 1 \in Queue /\ j \in Queue
    BY <2>0, QueueNumbers DEF Output
  <2>2. Len(log'[1]) \in Nat
    BY <1>0, <2>1 DEF Grows
  <2>3. CASE j = 1
    BY <2>2, <2>3
  <2>4. CASE j # 1
    <3>1. Len(log'[j]) = 0
      BY <1>2, <2>1, <2>4 DEF Opens
    <3>2. QED
      BY <2>2, <3>1
  <2>5. QED
    BY <2>3, <2>4
<1>3. CASE Quiet
  <2>1. j \in 1..Output /\ j \in Queue /\ 1 \in Queue
    BY <1>0, <1>3, StagesAssumption DEF Quiet, Queue, Output
  <2>2. /\ Len(log[1]) \in Nat /\ Len(log'[1]) \in Nat /\ Len(log[j]) \in Nat
        /\ Len(log[1]) <= Len(log'[1])
        /\ \A k \in 1..Len(log[1]) : log'[1][k] = log[1][k]
    BY <1>0, <2>1 DEF Grows
  <2>3. CASE j = 1
    BY <2>2, <2>3
  <2>4. CASE j # 1
    <3>1. log'[j] = log[j]
      BY <1>3, <2>1, <2>4 DEF Quiet
    <3>2. Follows(j)
      BY <1>a, <2>1
    <3>3. \A k \in 1..Len(log[j]) : k \in 1..Len(log[1])
      BY <2>2, <3>2
    <3>4. QED
      BY <2>2, <3>1, <3>2, <3>3
  <2>5. QED
    BY <2>3, <2>4
<1>4. QED
  BY <1>1, <1>2, <1>3, ClientsOnConveyor

LEMMA SentinelsStep ==
  ASSUME TypeOK, Lifecycle, Staff, Balance, Sentinels, Next
  PROVE  Sentinels'
<1> DEFINE Ends(j) ==
      wpc[j] = "exited" =>
        /\ Len(log[j + 1]) > 0
        /\ log[j + 1][Len(log[j + 1])] = NoFrame
<1> SUFFICES ASSUME starts' <= 1, NEW j \in 1..workers'
             PROVE  Ends(j)'
  BY DEF Sentinels
<1>0. /\ starts \in Nat /\ starts <= 1 /\ workers \in Nat /\ workers <= MaxStages
      /\ Grows
  BY StartsGrow, Kinds, InputGrows
<1>1. ASSUME NEW i \in Stage, WorkerStep(i)
      PROVE  Ends(j)'
  <2>0. UNCHANGED workers
    BY <1>1 DEF WorkerStep, WorkerPop, WorkerExit, StageReturns, StageFails,
                StageThrows, build
  <2>1. j \in Stage /\ j + 1 \in Queue
    BY <1>0, <2>0, StagesAssumption DEF Stage, Queue
  <2>2. CASE j # i
    <3>1. wpc'[j] = wpc[j] /\ log'[j + 1] = log[j + 1]
      BY <1>0, <1>1, <2>1, <2>2, WorkerOnConveyor DEF Stage
    <3>2. QED
      BY <1>0, <2>0, <3>1 DEF Sentinels
  <2>3. CASE j = i
    <3>1. CASE Keeps(i)
      BY <2>3, <3>1 DEF Keeps
    <3>2. CASE \E x \in Items : Emits(i, x)
      <4>1. PICK x \in Items : Emits(i, x)
        BY <3>2
      <4>2. Len(log'[j + 1]) > 0
        BY <1>0, <2>1, <2>3, <4>1 DEF Emits, Grows
      <4>3. wpc'[j] = "exited" => log'[j + 1][Len(log'[j + 1])] = NoFrame
        BY <2>3, <4>1 DEF Emits
      <4>4. QED
        BY <4>2, <4>3
    <3>3. QED
      BY <1>0, <1>1, <3>1, <3>2, WorkerOnConveyor
  <2>4. QED
    BY <2>2, <2>3
<1>2. CASE Opens
  <2>1. j \in Stage /\ wpc'[j] = "pop"
    BY <1>2, StagesAssumption DEF Opens, Stage
  <2>2. QED
    BY <2>1
<1>3. CASE Quiet
  <2>1. j + 1 \in Queue /\ j + 1 # 1
    BY <1>0, <1>3, StagesAssumption DEF Quiet, Queue
  <2>2. UNCHANGED <<workers, wpc>> /\ log'[j + 1] = log[j + 1]
    BY <1>3, <2>1 DEF Quiet
  <2>3. QED
    BY <1>0, <2>2 DEF Sentinels
<1>4. QED
  BY <1>1, <1>2, <1>3, ClientsOnConveyor


\* What has been delivered only grows, by what the drain takes.
LEMMA Deliveries ==
  ASSUME TypeOK, Next
  PROVE  /\ Delivered \in Seq(Frames)
         /\ ~DrainFrame => Delivered' = Delivered
         /\ DrainFrame =>
              /\ Len(Delivered') = Len(Delivered) + 1
              /\ Delivered'[Len(Delivered) + 1] = Front(Output)
              /\ \A k \in 1..Len(Delivered) : Delivered'[k] = Delivered[k]
<1>0. results_ \in Seq(Frames) /\ collected \in Seq(Frames)
  BY DEF TypeOK
<1>1. Delivered \in Seq(Frames) /\ Len(Delivered) \in Nat
  BY <1>0, ConcatProperties, LenProperties DEF Delivered
<1>2. ASSUME UNCHANGED results
      PROVE  Delivered' = Delivered
  BY <1>2 DEF results, Delivered
<1>3. ASSUME NEW c \in Clients, CollectResults(c)
      PROVE  Delivered' = Delivered
  <2>1. Delivered' = (collected \o results_) \o <<>>
    BY <1>3 DEF CollectResults, Delivered
  <2>2. QED
    BY <1>1, <2>1, ConcatEmptySeq DEF Delivered
<1>4. CASE DrainFrame
  <2>1. TypeOK'
    BY <1>4, TypeOwner DEF OwnerStep, StopStep
  <2>2. /\ Front(Output) \in Frames
        /\ results_' = Append(results_, Front(Output)) /\ collected' = collected
    <3>1. Output \in Queue /\ QueuesOK
      BY TypeParts, OutputIsQueue
    <3>2. head[Output] + 1 \in 1..Len(log[Output]) /\ log[Output] \in Seq(Items)
      BY <1>4, <3>1, PopHead DEF DrainFrame, QueuesOK
    <3>3. Front(Output) \in Items
      BY <3>2, ElementOfSeq DEF Front
    <3>4. QED
      BY <1>4, <3>3 DEF DrainFrame, Items
  <2>3. /\ Append(results_, Front(Output)) \in Seq(Frames)
        /\ Len(Append(results_, Front(Output))) = Len(results_) + 1
        /\ Append(results_, Front(Output))[Len(results_) + 1] = Front(Output)
        /\ \A k \in 1..Len(results_) :
             Append(results_, Front(Output))[k] = results_[k]
    BY <1>0, <2>2, AppendProperties
  <2>4. /\ Len(Delivered) = Len(collected) + Len(results_)
        /\ \A k \in 1..Len(collected) + Len(results_) :
             Delivered[k] = IF k <= Len(collected) THEN collected[k]
                            ELSE results_[k - Len(collected)]
    BY <1>0, ConcatProperties DEF Delivered
  <2>5. /\ Len(Delivered') = Len(collected) + Len(results_')
        /\ \A k \in 1..Len(collected) + Len(results_') :
             Delivered'[k] = IF k <= Len(collected) THEN collected[k]
                             ELSE results_'[k - Len(collected)]
    BY <1>0, <2>2, <2>3, ConcatProperties DEF Delivered
  <2>6. Len(collected) \in Nat /\ Len(results_) \in Nat
    BY <1>0, LenProperties
  <2>7. Len(Delivered') = Len(Delivered) + 1
    BY <2>2, <2>3, <2>4, <2>5, <2>6
  <2>8. Delivered'[Len(Delivered) + 1] = Front(Output)
    <3>1. Len(Delivered) + 1 \in 1..Len(collected) + Len(results_')
      BY <2>2, <2>3, <2>4, <2>6
    <3>2. /\ ~(Len(Delivered) + 1 <= Len(collected))
          /\ Len(Delivered) + 1 - Len(collected) = Len(results_) + 1
      BY <2>4, <2>6
    <3>3. QED
      BY <2>2, <2>3, <2>5, <3>1, <3>2
  <2>9. ASSUME NEW k \in 1..Len(Delivered)
        PROVE  Delivered'[k] = Delivered[k]
    BY <2>2, <2>3, <2>4, <2>5, <2>6
  <2>10. QED
    BY <1>1, <1>4, <2>7, <2>8, <2>9
<1>5. ASSUME ~DrainFrame
      PROVE  Delivered' = Delivered
  <2>1. UNCHANGED results \/ \E c \in Clients : CollectResults(c)
    BY <1>5 DEF Next, ClientStep, OwnerStep, StopStep, WorkerStep, WorkerPop,
                WorkerExit, StageReturns, StageFails, StageThrows, AddStage,
                SubmitCheck, SubmitPush, StopBegin, StopJoin, DrainEnd, StopFinish,
                Destroy
  <2>2. QED
    BY <1>2, <1>3, <2>1
<1>6. QED
  BY <1>1, <1>4, <1>5

LEMMA DrainedStep ==
  ASSUME TypeOK, Lifecycle, Staff, Balance, Drained, Next
  PROVE  Drained'
<1>0. /\ starts \in Nat /\ starts' \in Nat /\ starts <= starts'
      /\ workers \in Nat /\ workers <= MaxStages /\ Owner \in Clients
      /\ QueuesOK /\ Output \in Queue /\ 1 \in Queue
  BY StartsGrow, Kinds, TypeParts, OutputIsQueue
<1>1. CASE DrainFrame
  <2>1. cpc[Owner] = "drain" /\ stopped_ /\ UNCHANGED <<workers, stopped_, cpc, log>>
    BY <1>1 DEF DrainFrame, Runs, At, Lifecycle, Stopping, build, flags, clients
  <2>2. /\ head'[Output] = head[Output] + 1 /\ head[Output] \in Nat
        /\ Front(Output) # NoFrame
    BY <1>0, <1>1, PopHead DEF DrainFrame, QueuesOK
  <2>3. Len(Delivered') = Len(Delivered) + 1
    BY <1>1, Deliveries
  <2>4. Output' = Output
    BY <2>1 DEF Output
  <2>5. \A k \in 1..head'[Output] : log[Output][k] # NoFrame
    BY <2>1, <2>2 DEF Drained, At, Front
  <2>6. QED
    BY <2>1, <2>2, <2>3, <2>4, <2>5 DEF Drained, At
<1>2. CASE StopJoin
  <2>1. /\ cpc[Owner] = "join" /\ cpc'[Owner] = "drain" /\ stopped_
        /\ UNCHANGED <<workers, stopped_, log, head>>
    BY <1>0, <1>2, GoesMoves DEF StopJoin, flags, queues, Lifecycle, Stopping
  <2>2. Delivered' = Delivered
    BY <2>1, Deliveries DEF DrainFrame, Runs, At
  <2>3. Delivered = <<>> /\ head[Output] = 0
    BY <2>1 DEF Drained, At
  <2>4. Output' = Output
    BY <2>1 DEF Output
  <2>5. QED
    BY <2>1, <2>2, <2>3, <2>4, EmptySeq DEF Drained, At
<1>3. CASE DrainEnd \/ StopFinish
  <2>1. stopped_' /\ cpc'[Owner] \in {"finish", "idle"}
    BY <1>0, <1>3, GoesMoves DEF DrainEnd, StopFinish, flags, Lifecycle, Stopping
  <2>2. QED
    BY <2>1 DEF Drained, At
<1>4. ASSUME ~DrainFrame, ~StopJoin, ~DrainEnd, ~StopFinish
      PROVE  Drained'
  <2>1. Delivered' = Delivered
    BY <1>4, Deliveries
  <2>2. ~At(Owner, "drain")' \/ At(Owner, "drain")
    BY <1>0, <1>4, GoesMoves
    DEF Next, ClientStep, OwnerStep, StopStep, WorkerStep, WorkerPop, WorkerExit,
        StageReturns, StageFails, StageThrows, AddStage, SubmitCheck, SubmitPush,
        StopBegin, CollectResults, Destroy, clients, At
  <2>3. (~stopped_ \/ At(Owner, "join"))' => ~stopped_ \/ At(Owner, "join")
    BY <1>0, <1>4, GoesMoves
    DEF Next, ClientStep, OwnerStep, StopStep, WorkerStep, WorkerPop, WorkerExit,
        StageReturns, StageFails, StageThrows, AddStage, SubmitCheck, SubmitPush,
        StopBegin, CollectResults, Destroy, clients, flags, At
  <2>4. CASE starts' > 1
    <3>1. stopped_' /\ ~Stopping'
      BY <1>0, <2>4, LifecycleStep DEF Lifecycle
    <3>2. QED
      BY <3>1 DEF Drained, Stopping, At
  <2>5. CASE Opens
    <3>1. ~stopped_ /\ ~At(Owner, "drain")'
      BY <2>5 DEF Opens, Stopping, At
    <3>2. Output' \in Queue
      <4>1. workers' \in 1..MaxStages
        BY <2>5 DEF Opens
      <4>2. QED
        BY <4>1, QueueNumbers DEF Output
    <3>3. head'[Output'] = 0
      BY <2>5, <3>2 DEF Opens
    <3>4. QED
      BY <2>1, <3>1, <3>3 DEF Drained
  <2>6. ASSUME starts' <= 1, ~Opens
        PROVE  /\ Output' = Output /\ head'[Output] = head[Output]
               /\ \A k \in 1..head[Output] : log'[Output][k] = log[Output][k]
    <3>0. head[Output] \in Nat /\ head[Output] <= Len(log[Output])
      BY <1>0 DEF QueuesOK
    <3>1. \A k \in 1..head[Output] : log'[Output][k] = log[Output][k]
      <4>1. /\ Len(log[Output]) \in Nat
            /\ \A k \in 1..Len(log[Output]) : log'[Output][k] = log[Output][k]
        BY <1>0, InputGrows DEF Grows
      <4>2. QED
        BY <3>0, <4>1
    <3>2. (\E i \in Stage : WorkerStep(i)) =>
            (Output' = Output /\ head'[Output] = head[Output])
      <4>0. SUFFICES ASSUME NEW i \in Stage, WorkerStep(i)
                     PROVE  Output' = Output /\ head'[Output] = head[Output]
        OBVIOUS
      <4>1. UNCHANGED workers
        BY <4>0 DEF WorkerStep, WorkerPop, WorkerExit, StageReturns, StageFails,
                    StageThrows, build
      <4>2. i \in 1..workers /\ \A j \in Queue : j # i => head'[j] = head[j]
        BY <1>0, <2>6, <4>0, WorkerOnConveyor
      <4>3. Output # i
        BY <1>0, <4>2 DEF Output
      <4>4. QED
        BY <1>0, <4>1, <4>2, <4>3 DEF Output
    <3>3. CASE Quiet
      <4>1. Output' = Output
        BY <3>3 DEF Quiet, Output
      <4>2. UNCHANGED head \/ \E i \in Stage : WorkerStep(i)
        BY <1>4 DEF Next, ClientStep, OwnerStep, StopStep, AddStage, SubmitCheck,
                    SubmitPush, StopBegin, CollectResults, Destroy, queues
      <4>3. UNCHANGED head => head'[Output] = head[Output]
        OBVIOUS
      <4>4. QED
        BY <3>1, <3>2, <4>1, <4>2, <4>3
    <3>4. QED
      BY <2>6, <3>1, <3>2, <3>3, ClientsOnConveyor
  <2>7. CASE starts' <= 1 /\ ~Opens
    BY <2>1, <2>2, <2>3, <2>6, <2>7 DEF Drained
  <2>8. QED
    BY <1>0, <2>4, <2>5, <2>7
<1>5. QED
  BY <1>1, <1>2, <1>3, <1>4


LEMMA ResultsInOrderStep ==
  ASSUME TypeOK, Lifecycle, Conveyor, Drained, ResultsInOrder, Next
  PROVE  ResultsInOrder'
<1>0. /\ QueuesOK /\ 1 \in Queue /\ Output \in Queue
      /\ Delivered \in Seq(Frames)
      /\ workers \in Nat /\ starts \in Nat
  BY TypeParts, OutputIsQueue, Deliveries, Kinds
<1>1. /\ Len(log[1]) \in Nat /\ Len(log'[1]) \in Nat /\ Len(Delivered) \in Nat
      /\ Len(log[1]) <= Len(log'[1])
      /\ \A k \in 1..Len(log[1]) : log'[1][k] = log[1][k]
  BY <1>0, InputGrows, LenProperties DEF Grows
<1>2. \A k \in 1..Len(Delivered) : k \in 1..Len(log[1])
  BY <1>1 DEF ResultsInOrder
<1>3. CASE ~DrainFrame
  <2>1. Delivered' = Delivered
    BY <1>3, Deliveries
  <2>2. QED
    BY <1>1, <1>2, <2>1 DEF ResultsInOrder
<1>4. CASE DrainFrame
  <2>1. /\ Len(Delivered') = Len(Delivered) + 1
        /\ Delivered'[Len(Delivered) + 1] = Front(Output)
        /\ \A k \in 1..Len(Delivered) : Delivered'[k] = Delivered[k]
        /\ Front(Output) # NoFrame /\ Pop(Output)
    BY <1>4, Deliveries DEF DrainFrame
  <2>2. Len(Delivered) = head[Output] /\ starts = 1
    BY <1>4 DEF DrainFrame, Runs, At, Drained, Lifecycle, Stopping
  <2>3. head[Output] + 1 \in 1..Len(log[Output])
    BY <1>0, <2>1, PopHead
  <2>4. /\ Len(log[Output]) <= Len(log[1])
        /\ \A k \in 1..Len(log[Output]) : log[Output][k] \in {log[1][k], NoFrame}
    <3>1. Output \in 1..Output
      BY <1>0 DEF Output
    <3>2. QED
      BY <2>2, <3>1 DEF Conveyor
  <2>5. Len(log[Output]) \in Nat
    BY <1>0, LenProperties DEF QueuesOK
  <2>6. /\ Len(Delivered) + 1 \in 1..Len(log[1])
        /\ Front(Output) = log[1][Len(Delivered) + 1]
    BY <1>1, <2>1, <2>2, <2>3, <2>4, <2>5 DEF Front
  <2>7. Len(Delivered') <= Len(log'[1])
    BY <1>1, <2>1, <2>6
  <2>8. ASSUME NEW k \in 1..Len(Delivered')
        PROVE  Delivered'[k] = log'[1][k]
    <3>1. CASE k \in 1..Len(Delivered)
      BY <1>1, <1>2, <2>1, <3>1 DEF ResultsInOrder
    <3>2. CASE k = Len(Delivered) + 1
      BY <1>1, <2>1, <2>6, <3>2
    <3>3. QED
      BY <1>1, <2>1, <3>1, <3>2
  <2>9. QED
    BY <2>7, <2>8 DEF ResultsInOrder
<1>5. QED
  BY <1>3, <1>4

-----------------------------------------------------------------------------
LEMMA InvInit == Init => Inv
<1> SUFFICES ASSUME Init PROVE Inv
  OBVIOUS
<1>0. TypeOK /\ Owner \in Clients
  BY TypeInit DEF Clients
<1>1. /\ \A c \in Clients : cpc[c] = "idle"
      /\ starts = 0 /\ workers = 0 /\ ~running_ /\ ~stopped_
      /\ \A j \in Queue : log[j] = <<>> /\ head[j] = 0 /\ ~closed[j]
      /\ \A i \in Stage : wpc[i] = "none"
      /\ results_ = <<>> /\ collected = <<>>
  BY DEF Init
<1>2. 1 \in Queue /\ Output = 1
  BY <1>1, StagesAssumption DEF Queue, Output
<1>3. Delivered = <<>> /\ Len(Delivered) = 0
  BY <1>1, EmptySeq, ConcatEmptySeq DEF Delivered
<1>4. log[1] = <<>> /\ Len(log[1]) = 0 /\ head[1] = 0
  BY <1>1, <1>2, EmptySeq
<1>5. Lifecycle
  BY <1>0, <1>1 DEF Lifecycle, Stopping, At
<1>6. Staff
  BY <1>0, <1>1 DEF Staff, At
<1>7. Balance /\ Sentinels
  BY <1>1 DEF Balance, Sentinels
<1>8. Conveyor
  BY <1>2, <1>4 DEF Conveyor
<1>9. Drained
  BY <1>0, <1>1, <1>2, <1>3, <1>4 DEF Drained, At
<1>10. ResultsInOrder
  BY <1>3, <1>4 DEF ResultsInOrder
<1>11. QED
  BY <1>0, <1>5, <1>6, <1>7, <1>8, <1>9, <1>10 DEF Inv

LEMMA InvStep == Inv /\ [Next]_vars => Inv'
<1>1. ASSUME Inv, Next
      PROVE  Inv'
  <2>1. /\ TypeOK /\ Lifecycle /\ Staff /\ Balance /\ Conveyor /\ Sentinels
        /\ Drained /\ ResultsInOrder
    BY <1>1 DEF Inv
  <2>2. TypeOK'
    BY <1>1, <2>1, TypeStep
  <2>3. Lifecycle' /\ Staff' /\ Balance' /\ Conveyor' /\ Sentinels'
    BY <1>1, <2>1, LifecycleStep, StaffStep, BalanceStep, ConveyorStep,
       SentinelsStep
  <2>4. Drained' /\ ResultsInOrder'
    BY <1>1, <2>1, DrainedStep, ResultsInOrderStep
  <2>5. QED
    BY <2>2, <2>3, <2>4 DEF Inv
<1>2. ASSUME Inv, UNCHANGED vars
      PROVE  Inv'
  <2>1. /\ TypeOK /\ Lifecycle /\ Staff /\ Balance /\ Conveyor /\ Sentinels
        /\ Drained /\ ResultsInOrder
    BY <1>2 DEF Inv
  <2>2. /\ UNCHANGED <<stages, workers, starts, joinable, running_, stopped_, aborted>>
        /\ UNCHANGED <<log, head, closed, wpc, results_, collected, failed, cpc, carg>>
    BY <1>2 DEF vars, build, flags, queues, results, clients
  <2>3. Output' = Output /\ Delivered' = Delivered /\ Stopping' = Stopping
    BY <2>2 DEF Output, Delivered, Stopping, At
  <2>4. TypeOK'
    BY <1>2, <2>1, TypeStep
  <2>5. Lifecycle'
    BY <2>1, <2>2, <2>3 DEF Lifecycle, At
  <2>6. Staff'
    BY <2>1, <2>2, <2>3 DEF Staff, AllExited, At
  <2>7. Balance'
    BY <2>1, <2>2, <2>3 DEF Balance, InFlight
  <2>8. Conveyor'
    BY <2>1, <2>2, <2>3 DEF Conveyor
  <2>9. Sentinels'
    BY <2>1, <2>2, <2>3 DEF Sentinels
  <2>10. Drained'
    BY <2>1, <2>2, <2>3 DEF Drained, At
  <2>11. ResultsInOrder'
    BY <2>1, <2>2, <2>3 DEF ResultsInOrder
  <2>12. QED
    BY <2>4, <2>5, <2>6, <2>7, <2>8, <2>9, <2>10, <2>11 DEF Inv
<1>3. QED
  BY <1>1, <1>2

\* The invariant holds throughout, restarts included.
THEOREM Invariance == Spec => []Inv
<1>1. QED
  BY InvInit, InvStep, PTL DEF Spec

\* For any number of stages and frames, and any failures of the stages: the k-th
\* result is the k-th frame that was submitted.
THEOREM ResultsInOrderHolds == Spec => []ResultsInOrder
<1>1. Inv => ResultsInOrder
  BY DEF Inv
<1>2. QED
  BY <1>1, Invariance, PTL

\* The workers have exited when the drain begins, and the last one left a sentinel
\* that the drain has not popped.
LEMMA InvDrains == Inv => DrainNeverBlocks
<1>1. ASSUME Inv, At(Owner, "drain")
      PROVE  ~Empty(Output)
  <2>0. /\ TypeOK /\ Lifecycle /\ Staff /\ Sentinels /\ Drained /\ QueuesOK
        /\ Output \in Queue /\ workers \in Nat
    BY <1>1, TypeParts, OutputIsQueue, Kinds DEF Inv
  <2>1. starts = 1 /\ workers > 0 /\ AllExited
    BY <1>1, <2>0 DEF Lifecycle, Stopping, Staff, At
  <2>2. wpc[workers] = "exited" /\ workers \in 1..workers
    BY <2>0, <2>1 DEF AllExited
  <2>3. Len(log[Output]) > 0 /\ log[Output][Len(log[Output])] = NoFrame
    BY <2>0, <2>1, <2>2 DEF Sentinels, Output
  <2>4. Len(log[Output]) \in Nat /\ head[Output] \in Nat
    BY <2>0, LenProperties DEF QueuesOK
  <2>5. \A k \in 1..head[Output] : log[Output][k] # NoFrame
    BY <1>1, <2>0 DEF Drained
  <2>6. QED
    BY <2>3, <2>4, <2>5 DEF Empty
<1>2. QED
  BY <1>1 DEF DrainNeverBlocks

-----------------------------------------------------------------------------
(***************************************************************************)
(* Where a frame is: in a queue, in the hands of a worker, the argument of *)
(* a submit() under way, among the results, or failed.  A worker that      *)
(* threw has nothing in its hands any more: the process has ended.  The    *)
(* invariant of this section holds after a restart too.                    *)
(***************************************************************************)
Located(f, place, i, k) ==
  \/ place = "queue" /\ i \in Queue /\ k \in 1..Len(log[i]) /\ head[i] < k /\ log[i][k] = f
  \/ place = "hand" /\ i \in Stage /\ k = 0 /\ wpc[i] = "process" /\ InHand(i) = f
  \/ place = "argument" /\ i \in Clients /\ k = 0 /\ cpc[i] = "push" /\ carg[i] = f
  \/ place = "result" /\ i = 0 /\ k \in 1..Len(Delivered) /\ Delivered[k] = f
  \/ place = "failed" /\ i = 0 /\ k = 0 /\ f \in failed

OnePlace ==
  \A f \in Frames : \A p, i, k, q, j, l :
    Located(f, p, i, k) /\ Located(f, q, j, l) => p = q /\ i = j /\ k = l

\* Only what was submitted, or is being submitted, is anywhere.
Known(f) ==
  \/ \E k \in 1..Len(log[1]) : log[1][k] = f
  \/ \E c \in Clients : cpc[c] = "push" /\ carg[c] = f

AllKnown == \A f \in Frames : \A p, i, k : Located(f, p, i, k) => Known(f)

\* A worker never processes nullptr.
HandsFull ==
  \A i \in Stage : wpc[i] = "process" => InHand(i) # NoFrame

\* No frame comes to a new place, but x to the one given, if it has left another
\* one, or is the argument of a new submit().
Still == \A f \in Frames : \A p, i, k : Located(f, p, i, k)' => Located(f, p, i, k)

Moves(x, q, j, l) ==
  /\ \A f \in Frames : \A p, i, k : Located(f, p, i, k)' =>
       Located(f, p, i, k) \/ (f = x /\ p = q /\ i = j /\ k = l)
  /\ x \in Frames =>
       \/ q = "argument" /\ \A p, i, k : ~Located(x, p, i, k)
       \/ \E p, i, k : Located(x, p, i, k) /\ ~Located(x, p, i, k)'

LEMMA OnePlaceMoves ==
  ASSUME OnePlace, NEW x, NEW q, NEW j, NEW l, Moves(x, q, j, l)
  PROVE  OnePlace'
<1>1. ASSUME x \in Frames, NEW p, NEW i, NEW k, Located(x, p, i, k)'
      PROVE  p = q /\ i = j /\ k = l
  BY <1>1 DEF OnePlace, Moves
<1>2. QED
  BY <1>1 DEF OnePlace, Moves

LEMMA OnePlaceStill ==
  ASSUME OnePlace, Still
  PROVE  OnePlace'
BY DEF OnePlace, Still

\* What the queues and the other places are before and after a step, for a step
\* that pushes at most x, and only into queue j.
LEMMA PushPlaces ==
  ASSUME QueuesOK, NEW j \in Queue, NEW x \in Items, Push(j, x),
         head' \in [Queue -> Nat], \A i \in Queue : head'[i] >= head[i]
  PROVE  \A i \in Queue : \A k \in 1..Len(log'[i]) : head'[i] < k =>
           \/ k \in 1..Len(log[i]) /\ head[i] < k /\ log'[i][k] = log[i][k]
           \/ log'[i][k] = x /\ i = j /\ k = Len(log[j]) + 1
<1> SUFFICES ASSUME NEW i \in Queue, NEW k \in 1..Len(log'[i]), head'[i] < k
             PROVE  \/ k \in 1..Len(log[i]) /\ head[i] < k /\ log'[i][k] = log[i][k]
                    \/ log'[i][k] = x /\ i = j /\ k = Len(log[j]) + 1
  OBVIOUS
<1>0. Len(log[i]) \in Nat /\ head[i] \in Nat /\ head'[i] \in Nat /\ k \in Int
  BY LenProperties DEF QueuesOK
<1>1. head[i] < k
  BY <1>0
<1>2. CASE closed[j] \/ i # j
  <2>1. log'[i] = log[i]
    BY <1>2 DEF Push, QueuesOK
  <2>2. QED
    BY <1>1, <2>1
<1>3. CASE ~closed[j] /\ i = j
  <2>1. /\ Len(log'[j]) = Len(log[j]) + 1
        /\ log'[j][Len(log[j]) + 1] = x
        /\ \A n \in 1..Len(log[j]) : log'[j][n] = log[j][n]
    BY <1>3, PushAppends
  <2>2. k \in 1..Len(log[j]) \/ k = Len(log[j]) + 1
    BY <1>0, <1>3, <2>1
  <2>3. QED
    BY <1>1, <1>3, <2>1, <2>2
<1>4. QED
  BY <1>2, <1>3


\* What is in a queue was there before, or is x, which came to place l of queue j.
QueuesKeep(x, j, l) ==
  \A i \in Queue : \A k \in 1..Len(log'[i]) : head'[i] < k =>
    \/ k \in 1..Len(log[i]) /\ head[i] < k /\ log'[i][k] = log[i][k]
    \/ log'[i][k] = x /\ i = j /\ k = l

HandKeeps(i) == wpc'[i] = "process" => wpc[i] = "process" /\ InHand(i)' = InHand(i)

ArgumentKeeps(c) == cpc'[c] = "push" => cpc[c] = "push" /\ carg'[c] = carg[c]

LEMMA QueuesStay ==
  ASSUME QueuesOK, UNCHANGED log, head' \in [Queue -> Nat],
         \A i \in Queue : head'[i] >= head[i]
  PROVE  QueuesKeep(NoFrame, 1, 1)
<1> SUFFICES ASSUME NEW i \in Queue, NEW k \in 1..Len(log[i]), head'[i] < k
             PROVE  head[i] < k
  BY DEF QueuesKeep
<1>1. head[i] \in Nat /\ head'[i] \in Nat /\ k \in Int
  BY LenProperties DEF QueuesOK
<1>2. QED
  BY <1>1

\* A worker whose queue nobody pops has the same frame in its hands.
LEMMA HandStays ==
  ASSUME TypeOK, Grows, NEW i \in Stage, head'[i] = head[i],
         wpc'[i] = "process" => wpc[i] = "process"
  PROVE  HandKeeps(i)
<1> SUFFICES ASSUME wpc[i] = "process"
             PROVE  InHand(i)' = InHand(i)
  BY DEF HandKeeps
<1>1. i \in Queue
  BY StagesAssumption DEF Queue, Stage
<1>2. head[i] \in 1..Len(log[i])
  BY <1>1, LenProperties DEF TypeOK
<1>3. QED
  BY <1>1, <1>2 DEF Grows, InHand

\* A push is the only thing that happened to the frames.
LEMMA PushMoves ==
  ASSUME NEW x, NEW j \in Queue, NEW l, QueuesKeep(x, j, l),
         \A i \in Stage : HandKeeps(i), \A c \in Clients : ArgumentKeeps(c),
         Delivered' = Delivered, failed' = failed,
         NEW f \in Frames, NEW p, NEW i, NEW k, Located(f, p, i, k)'
  PROVE  Located(f, p, i, k) \/ (f = x /\ p = "queue" /\ i = j /\ k = l)
<1>1. CASE p = "queue"
  BY <1>1 DEF Located, QueuesKeep
<1>2. CASE p = "hand"
  BY <1>2 DEF Located, HandKeeps
<1>3. CASE p = "argument"
  BY <1>3 DEF Located, ArgumentKeeps
<1>4. CASE p = "result" \/ p = "failed"
  BY <1>4 DEF Located
<1>5. QED
  BY <1>1, <1>2, <1>3, <1>4 DEF Located

\* Nothing happened to them at all.
LEMMA NothingMoves ==
  ASSUME NEW j \in Queue, NEW l, QueuesKeep(NoFrame, j, l),
         \A i \in Stage : HandKeeps(i), \A c \in Clients : ArgumentKeeps(c),
         Delivered' = Delivered, failed' = failed
  PROVE  Still
<1> SUFFICES ASSUME NEW f \in Frames, NEW p, NEW i, NEW k, Located(f, p, i, k)'
             PROVE  Located(f, p, i, k)
  BY DEF Still
<1>1. f # NoFrame
  BY FrameAssumption
<1>2. QED
  BY <1>1, PushMoves

LEMMA WorkerMoves ==
  ASSUME TypeOK, NEW i \in Stage, WorkerStep(i)
  PROVE  Still \/ \E x, q, j, l : Moves(x, q, j, l)
<1>0. /\ QueuesOK /\ i \in Queue /\ i + 1 \in Queue /\ NoFrame \in Items
      /\ head[i] \in Nat /\ Len(log[i]) \in Nat /\ head[i] <= Len(log[i])
      /\ head \in [Queue -> Nat] /\ \A j \in Queue : head[j] >= head[j]
      /\ 1 \in Queue
  <2>1. i \in Queue /\ i + 1 \in Queue /\ 1 \in Queue
    BY StagesAssumption DEF Queue, Stage
  <2>2. QED
    BY <2>1, TypeParts, LenProperties DEF QueuesOK, Items
<1>1. Grows /\ Delivered' = Delivered
  <2>1. Next
    BY DEF Next
  <2>2. UNCHANGED results
    BY DEF WorkerStep, WorkerPop, WorkerExit, StageReturns, StageFails, StageThrows
  <2>3. QED
    BY <2>1, <2>2, InputGrows DEF results, Delivered
<1>2. \A j \in Stage : j # i => wpc'[j] = wpc[j]
  BY Kinds DEF WorkerStep, WorkerGoes, WorkerPop, WorkerExit, StageReturns,
               StageFails, StageThrows
<1>3. \A c \in Clients : ArgumentKeeps(c)
  BY DEF WorkerStep, WorkerPop, WorkerExit, StageReturns, StageFails, StageThrows,
         clients, ArgumentKeeps
<1>4. ASSUME \A j \in Queue : j # i => head'[j] = head[j]
      PROVE  \A j \in Stage : j # i => HandKeeps(j)
  <2>1. \A j \in Stage : j \in Queue
    BY StagesAssumption DEF Queue, Stage
  <2>2. QED
    BY <1>1, <1>2, <1>4, <2>1, HandStays
<1>5. CASE WorkerPop(i)
  <2>0. PICK x, n : x = Front(i) /\ n = head[i] + 1
    OBVIOUS
  <2>1. /\ wpc[i] = "pop" /\ wpc'[i] = "process"
        /\ UNCHANGED <<log, failed>> /\ Pop(i)
    BY <1>5, Kinds DEF WorkerPop, WorkerGoes
  <2>2. /\ head'[i] = head[i] + 1 /\ head[i] + 1 \in 1..Len(log[i])
        /\ head' \in [Queue -> Nat]
        /\ \A j \in Queue : j # i => head'[j] = head[j]
        /\ \A j \in Queue : head'[j] = IF j = i THEN head[j] + 1 ELSE head[j]
    BY <1>0, <2>1, PopHead
  <2>3. \A j \in Queue : head'[j] >= head[j]
    BY <1>0, <2>2
  <2>4. QueuesKeep(NoFrame, 1, 1)
    BY <1>0, <2>1, <2>2, <2>3, QueuesStay
  <2>5. InHand(i)' = x
    BY <2>0, <2>1, <2>2 DEF InHand, Front
  <2>6. \A j \in Stage : j # i => HandKeeps(j)
    BY <1>4, <2>2
  <2>7. ASSUME NEW f \in Frames, NEW p, NEW j, NEW k, Located(f, p, j, k)'
        PROVE  Located(f, p, j, k) \/ (f = x /\ p = "hand" /\ j = i /\ k = 0)
    <3>0. f # NoFrame
      BY FrameAssumption
    <3>1. CASE p = "queue"
      BY <2>4, <2>7, <3>0, <3>1 DEF Located, QueuesKeep
    <3>2. CASE p = "hand"
      BY <2>5, <2>6, <2>7, <3>2 DEF Located, HandKeeps
    <3>3. CASE p = "argument"
      BY <1>3, <2>7, <3>3 DEF Located, ArgumentKeeps
    <3>4. CASE p = "result" \/ p = "failed"
      BY <1>1, <2>1, <2>7, <3>4 DEF Located
    <3>5. QED
      BY <2>7, <3>1, <3>2, <3>3, <3>4 DEF Located
  <2>8. Located(x, "queue", i, n) /\ ~Located(x, "queue", i, n)'
    BY <1>0, <2>0, <2>2 DEF Located, Front
  <2>9. Moves(x, "hand", i, 0)
    BY <2>7, <2>8 DEF Moves
  <2>10. QED
    BY <2>9
<1>6. CASE WorkerExit(i)
  <2>1. wpc'[i] = "exited" /\ Push(i + 1, NoFrame) /\ UNCHANGED failed
    BY <1>6, Kinds DEF WorkerExit, WorkerGoes
  <2>2. UNCHANGED head \/ Pop(i)
    BY <1>6 DEF WorkerExit, PopEnd
  <2>3. /\ head' \in [Queue -> Nat]
        /\ \A j \in Queue : j # i => head'[j] = head[j]
        /\ \A j \in Queue : head'[j] >= head[j]
    <3>1. CASE UNCHANGED head
      BY <1>0, <3>1
    <3>2. CASE Pop(i)
      BY <1>0, <3>2, PopHead
    <3>3. QED
      BY <2>2, <3>1, <3>2
  <2>4. QueuesKeep(NoFrame, i + 1, Len(log[i + 1]) + 1)
    BY <1>0, <2>1, <2>3, PushPlaces DEF QueuesKeep
  <2>5. \A j \in Stage : HandKeeps(j)
    BY <1>4, <2>1, <2>3 DEF HandKeeps
  <2>6. QED
    BY <1>0, <1>1, <1>3, <2>1, <2>4, <2>5, NothingMoves
<1>7. ASSUME wpc'[i] # "process", UNCHANGED head
      PROVE  \A j \in Stage : HandKeeps(j)
  BY <1>4, <1>7 DEF HandKeeps
<1>8. CASE StageReturns(i) \/ StageFails(i)
  <2>0. PICK x, n : x = InHand(i) /\ n = Len(log[i + 1]) + 1
    OBVIOUS
  <2>1. wpc[i] = "process" /\ wpc'[i] = "pop" /\ UNCHANGED head
    BY <1>8, Kinds DEF StageReturns, StageFails, WorkerGoes
  <2>2. InHand(i) \in Items
    <3>1. head[i] \in 1..Len(log[i]) /\ log[i] \in Seq(Items)
      BY <1>0, <2>1 DEF TypeOK
    <3>2. QED
      BY <3>1, ElementOfSeq DEF InHand
  <2>3. \A j \in Stage : HandKeeps(j)
    BY <1>7, <2>1
  <2>4. Located(x, "hand", i, 0) /\ ~Located(x, "hand", i, 0)'
    BY <2>0, <2>1 DEF Located
  <2>5. CASE StageReturns(i)
    <3>1. Push(i + 1, InHand(i)) /\ UNCHANGED failed
      BY <2>5 DEF StageReturns
    <3>2. QueuesKeep(x, i + 1, n)
      BY <1>0, <2>0, <2>1, <2>2, <3>1, PushPlaces DEF QueuesKeep
    <3>3. \A f \in Frames : \A p, j, k : Located(f, p, j, k)' =>
            Located(f, p, j, k)
              \/ (f = x /\ p = "queue" /\ j = i + 1 /\ k = n)
      BY <1>0, <1>1, <1>3, <2>3, <3>1, <3>2, PushMoves
    <3>4. Moves(x, "queue", i + 1, n)
      BY <2>4, <3>3 DEF Moves
    <3>5. QED
      BY <3>4
  <2>6. CASE StageFails(i)
    <3>1. Push(i + 1, NoFrame) /\ failed' = failed \union {InHand(i)}
      BY <2>6 DEF StageFails
    <3>2. QueuesKeep(NoFrame, i + 1, Len(log[i + 1]) + 1)
      BY <1>0, <2>1, <3>1, PushPlaces DEF QueuesKeep
    <3>3. ASSUME NEW f \in Frames, NEW p, NEW j, NEW k, Located(f, p, j, k)'
          PROVE  Located(f, p, j, k) \/ (f = x /\ p = "failed" /\ j = 0 /\ k = 0)
      <4>0. f # NoFrame
        BY FrameAssumption
      <4>1. CASE p = "queue"
        BY <3>2, <3>3, <4>0, <4>1 DEF Located, QueuesKeep
      <4>2. CASE p = "hand"
        BY <2>3, <3>3, <4>2 DEF Located, HandKeeps
      <4>3. CASE p = "argument"
        BY <1>3, <3>3, <4>3 DEF Located, ArgumentKeeps
      <4>4. CASE p = "result" \/ p = "failed"
        BY <1>1, <2>0, <3>1, <3>3, <4>4 DEF Located
      <4>5. QED
        BY <3>3, <4>1, <4>2, <4>3, <4>4 DEF Located
    <3>4. Moves(x, "failed", 0, 0)
      BY <2>4, <3>3 DEF Moves
    <3>5. QED
      BY <3>4
  <2>7. QED
    BY <1>8, <2>5, <2>6
<1>9. CASE StageThrows(i)
  <2>1. wpc'[i] = "threw" /\ UNCHANGED <<log, head, failed>>
    BY <1>9, Kinds DEF StageThrows, WorkerGoes, queues
  <2>2. QueuesKeep(NoFrame, 1, 1)
    BY <1>0, <2>1, QueuesStay
  <2>3. \A j \in Stage : HandKeeps(j)
    BY <1>7, <2>1
  <2>4. QED
    BY <1>0, <1>1, <1>3, <2>1, <2>2, <2>3, NothingMoves
<1>10. QED
  BY <1>5, <1>6, <1>8, <1>9 DEF WorkerStep


\* The drain takes nothing out of a worker's hands.
LEMMA DrainHands ==
  ASSUME TypeOK, Lifecycle, Staff, Grows, At(Owner, "drain"), UNCHANGED wpc,
         \A j \in Queue : j # Output => head'[j] = head[j]
  PROVE  \A i \in Stage : HandKeeps(i)
<1> SUFFICES ASSUME NEW i \in Stage, wpc[i] = "process"
             PROVE  HandKeeps(i)
  BY DEF HandKeeps
<1>1. starts = 1
  BY DEF Lifecycle, Stopping, At
<1>2. workers \in Nat /\ i \in Queue /\ i \in Nat
  BY Kinds, StagesAssumption DEF Stage, Queue
<1>3. i # Output
  BY <1>1, <1>2 DEF Staff, Output
<1>4. QED
  BY <1>2, <1>3, HandStays

\* The steps of the clients, those of the owner included.
LEMMA ClientFrames ==
  ASSUME TypeOK, Lifecycle, Staff, AllKnown,
         (\E c \in Clients : ClientStep(c)) \/ OwnerStep
  PROVE  Still \/ \E x, q, j, l : Moves(x, q, j, l)
<1>0. /\ QueuesOK /\ BuildOK /\ ClientsOK /\ 1 \in Queue /\ Output \in Queue
      /\ NoFrame \in Items /\ Owner \in Clients
      /\ head \in [Queue -> Nat] /\ \A j \in Queue : head[j] >= head[j]
  BY TypeParts, OutputIsQueue, Kinds DEF QueuesOK, Items
<1>1. Grows
  BY InputGrows DEF Next
<1>2. ~DrainFrame => Delivered' = Delivered
  BY Deliveries DEF Next
<1>3. \A i \in Stage : i \in Queue
  BY StagesAssumption DEF Stage, Queue
<1>4. ASSUME NEW c \in Clients, NEW x \in Items, SubmitCheck(c, x)
      PROVE  Moves(x, "argument", c, 0)
  <2>1. /\ cpc[c] = "idle" /\ \A d \in Clients : d # c => cpc'[d] = cpc[d]
        /\ UNCHANGED <<log, head, wpc, failed>>
        /\ Fresh(x)
    BY <1>4, GoesMoves DEF SubmitCheck, queues
  <2>2. /\ carg'[c] = x /\ \A d \in Clients : d # c => carg'[d] = carg[d]
    BY <1>0, <1>4 DEF SubmitCheck, ClientsOK
  <2>3. ~DrainFrame
    BY <1>4, Kinds DEF SubmitCheck, DrainFrame, Goes, Runs, At, clients
  <2>4. \A f \in Frames : \A p, i, k : Located(f, p, i, k)' =>
          Located(f, p, i, k) \/ (f = x /\ p = "argument" /\ i = c /\ k = 0)
    <3>1. SUFFICES ASSUME NEW f \in Frames, NEW p, NEW i, NEW k, Located(f, p, i, k)'
                   PROVE  Located(f, p, i, k) \/ (f = x /\ p = "argument" /\ i = c /\ k = 0)
      OBVIOUS
    <3>2. CASE p = "argument"
      BY <2>1, <2>2, <3>1, <3>2 DEF Located
    <3>3. CASE p # "argument"
      BY <1>2, <2>1, <2>3, <3>1, <3>3 DEF Located, InHand
    <3>4. QED
      BY <3>2, <3>3
  <2>5. ASSUME x \in Frames, NEW p, NEW i, NEW k, Located(x, p, i, k)
        PROVE  FALSE
    <3>1. Known(x)
      BY <2>5 DEF AllKnown
    <3>2. QED
      BY <2>1, <3>1 DEF Known, Fresh, At
  <2>6. QED
    BY <2>4, <2>5 DEF Moves
<1>5. ASSUME NEW c \in Clients, SubmitPush(c)
      PROVE  \E x, q, j, l : Moves(x, q, j, l)
  <2>0. PICK x, n : x = carg[c] /\ n = Len(log[1]) + 1
    OBVIOUS
  <2>1. /\ cpc[c] = "push" /\ cpc'[c] = "idle"
        /\ \A d \in Clients : d # c => cpc'[d] = cpc[d]
        /\ UNCHANGED <<head, failed, carg>> /\ Push(1, x) /\ x \in Items
    BY <1>0, <1>5, <2>0, GoesMoves DEF SubmitPush, ClientsOK
  <2>2. \A i \in Stage : wpc'[i] = "process" => wpc[i] = "process"
    BY <1>5 DEF SubmitPush, Start
  <2>3. \A i \in Stage : HandKeeps(i)
    BY <1>1, <2>1, <2>2, HandStays
  <2>4. \A d \in Clients : ArgumentKeeps(d)
    BY <2>1 DEF ArgumentKeeps
  <2>5. ~DrainFrame
    BY <1>0, <2>1, Kinds DEF DrainFrame, clients
  <2>6. QueuesKeep(x, 1, n)
    BY <1>0, <2>0, <2>1, PushPlaces DEF QueuesKeep
  <2>7. \A f \in Frames : \A p, i, k : Located(f, p, i, k)' =>
          Located(f, p, i, k) \/ (f = x /\ p = "queue" /\ i = 1 /\ k = n)
    BY <1>0, <1>2, <2>1, <2>3, <2>4, <2>5, <2>6, PushMoves
  <2>8. Located(x, "argument", c, 0) /\ ~Located(x, "argument", c, 0)'
    BY <2>0, <2>1 DEF Located
  <2>9. Moves(x, "queue", 1, n)
    BY <2>7, <2>8 DEF Moves
  <2>10. QED
    BY <2>9
<1>6. CASE StopBegin
  <2>1. /\ cpc'[Owner] = "join" /\ cpc[Owner] = "idle"
        /\ \A d \in Clients : d # Owner => cpc'[d] = cpc[d]
        /\ UNCHANGED <<head, wpc, failed, carg>> /\ Push(1, NoFrame)
    BY <1>0, <1>6, GoesMoves DEF StopBegin
  <2>2. (\A i \in Stage : HandKeeps(i)) /\ \A d \in Clients : ArgumentKeeps(d)
    BY <1>1, <1>3, <2>1, HandStays DEF ArgumentKeeps
  <2>3. QueuesKeep(NoFrame, 1, Len(log[1]) + 1)
    BY <1>0, <2>1, PushPlaces DEF QueuesKeep
  <2>4. ~DrainFrame
    BY <2>1 DEF DrainFrame, Runs, At
  <2>5. QED
    BY <1>0, <1>2, <2>1, <2>2, <2>3, <2>4, NothingMoves
<1>7. CASE DrainFrame
  <2>0. PICK x, n, m :
          x = Front(Output) /\ n = head[Output] + 1 /\ m = Len(Delivered) + 1
    OBVIOUS
  <2>1. /\ At(Owner, "drain") /\ Pop(Output)
        /\ UNCHANGED <<log, wpc, failed, cpc, carg>>
    BY <1>7 DEF DrainFrame, Runs, clients
  <2>2. /\ head'[Output] = n /\ n \in 1..Len(log[Output])
        /\ head' \in [Queue -> Nat]
        /\ \A j \in Queue : j # Output => head'[j] = head[j]
        /\ \A j \in Queue : head'[j] = IF j = Output THEN head[j] + 1 ELSE head[j]
    BY <1>0, <2>0, <2>1, PopHead
  <2>3. head[Output] \in Nat /\ \A j \in Queue : head'[j] >= head[j]
    BY <1>0, <2>2
  <2>4. QueuesKeep(NoFrame, 1, 1)
    BY <1>0, <2>1, <2>2, <2>3, QueuesStay
  <2>5. (\A i \in Stage : HandKeeps(i)) /\ \A d \in Clients : ArgumentKeeps(d)
    BY <1>1, <2>1, <2>2, DrainHands DEF ArgumentKeeps
  <2>6. /\ Len(Delivered') = Len(Delivered) + 1 /\ Delivered'[m] = x
        /\ \A k \in 1..Len(Delivered) : Delivered'[k] = Delivered[k]
        /\ Len(Delivered) \in Nat
    BY <1>7, <2>0, Deliveries, LenProperties DEF Next, OwnerStep, StopStep
  <2>7. ASSUME NEW f \in Frames, NEW p, NEW i, NEW k, Located(f, p, i, k)'
        PROVE  Located(f, p, i, k) \/ (f = x /\ p = "result" /\ i = 0 /\ k = m)
    <3>0. f # NoFrame
      BY FrameAssumption
    <3>1. CASE p = "queue"
      BY <2>4, <2>7, <3>0, <3>1 DEF Located, QueuesKeep
    <3>2. CASE p = "hand"
      BY <2>5, <2>7, <3>2 DEF Located, HandKeeps
    <3>3. CASE p = "result"
      <4>1. i = 0 /\ k \in 1..Len(Delivered') /\ Delivered'[k] = f
        BY <2>7, <3>3 DEF Located
      <4>2. k \in 1..Len(Delivered) \/ k = m
        BY <2>0, <2>6, <4>1
      <4>3. QED
        BY <2>6, <3>3, <4>1, <4>2 DEF Located
    <3>4. CASE p = "argument" \/ p = "failed"
      BY <2>1, <2>7, <3>4 DEF Located
    <3>5. QED
      BY <2>7, <3>1, <3>2, <3>3, <3>4 DEF Located
  <2>8. Located(x, "queue", Output, n) /\ ~(n > head'[Output])
    BY <1>0, <2>0, <2>2, <2>3 DEF Located, Front
  <2>9. PICK o : o = Output
    OBVIOUS
  <2>10. Located(x, "queue", o, n) /\ ~Located(x, "queue", o, n)'
    BY <2>8, <2>9, <2>2, <2>3 DEF Located
  <2>11. Moves(x, "result", 0, m)
    BY <2>7, <2>10 DEF Moves
  <2>12. QED
    BY <2>11
<1>8. CASE DrainEnd
  <2>1. /\ cpc[Owner] = "drain" /\ cpc'[Owner] = "finish"
        /\ \A d \in Clients : d # Owner => cpc'[d] = cpc[d]
        /\ UNCHANGED <<log, wpc, failed, carg>>
        /\ UNCHANGED head \/ Pop(Output)
    BY <1>0, <1>8, GoesMoves DEF DrainEnd, PopEnd
  <2>2. /\ head' \in [Queue -> Nat]
        /\ \A j \in Queue : j # Output => head'[j] = head[j]
        /\ \A j \in Queue : head'[j] >= head[j]
    <3>1. CASE UNCHANGED head
      BY <1>0, <3>1
    <3>2. CASE Pop(Output)
      BY <1>0, <3>2, PopHead
    <3>3. QED
      BY <2>1, <3>1, <3>2
  <2>3. QueuesKeep(NoFrame, 1, 1)
    BY <1>0, <2>1, <2>2, QueuesStay
  <2>4. (\A i \in Stage : HandKeeps(i)) /\ \A d \in Clients : ArgumentKeeps(d)
    BY <1>1, <2>1, <2>2, DrainHands DEF ArgumentKeeps, At
  <2>5. ~DrainFrame
    BY <2>1 DEF DrainFrame, clients
  <2>6. QED
    BY <1>0, <1>2, <2>1, <2>3, <2>4, <2>5, NothingMoves
<1>9. ASSUME \/ AddStage \/ StopJoin \/ StopFinish \/ Destroy
             \/ \E c \in Clients : CollectResults(c)
      PROVE  Still
  <2>1. UNCHANGED <<log, head, wpc, failed, carg>>
    BY <1>9 DEF AddStage, StopJoin, StopFinish, Destroy, CollectResults, queues, clients
  <2>2. \A d \in Clients : cpc'[d] = "push" => cpc[d] = "push"
    BY <1>0, <1>9, Kinds DEF AddStage, StopJoin, StopFinish, Destroy, CollectResults,
                             clients, Goes
  <2>3. QueuesKeep(NoFrame, 1, 1)
    BY <1>0, <2>1, QueuesStay
  <2>4. (\A i \in Stage : HandKeeps(i)) /\ \A d \in Clients : ArgumentKeeps(d)
    BY <1>1, <1>3, <2>1, <2>2, HandStays DEF ArgumentKeeps
  <2>5. ~DrainFrame
    <3>1. DrainFrame => Len(Delivered') = Len(Delivered) + 1 /\ head # head'
      BY <1>0, Deliveries, PopHead DEF DrainFrame, Next, OwnerStep, StopStep, Pop, QueuesOK
    <3>2. QED
      BY <2>1, <3>1
  <2>6. QED
    BY <1>0, <1>2, <2>1, <2>3, <2>4, <2>5, NothingMoves
<1>10. QED
  BY <1>4, <1>5, <1>6, <1>7, <1>8, <1>9 DEF ClientStep, OwnerStep, StopStep


LEMMA FramesMove ==
  ASSUME TypeOK, Lifecycle, Staff, AllKnown, Next
  PROVE  Still \/ \E x, q, j, l : Moves(x, q, j, l)
BY WorkerMoves, ClientFrames DEF Next

LEMMA OnePlaceStep ==
  ASSUME TypeOK, Lifecycle, Staff, AllKnown, OnePlace, Next
  PROVE  OnePlace'
<1>1. CASE Still
  BY <1>1, OnePlaceStill
<1>2. ASSUME NEW x, NEW q, NEW j, NEW l, Moves(x, q, j, l)
      PROVE  OnePlace'
  BY <1>2, OnePlaceMoves
<1>3. QED
  BY <1>1, <1>2, FramesMove

\* A submit() under way stays as it is until it pushes.
LEMMA ArgumentStays ==
  ASSUME TypeOK, Next, NEW c \in Clients, cpc[c] = "push", ~SubmitPush(c)
  PROVE  cpc'[c] = "push" /\ carg'[c] = carg[c]
<1>0. DOMAIN carg = Clients /\ Owner \in Clients
  BY Kinds DEF TypeOK
<1>1. ASSUME NEW i \in Stage, WorkerStep(i)
      PROVE  UNCHANGED <<cpc, carg>>
  BY <1>1 DEF WorkerStep, WorkerPop, WorkerExit, StageReturns, StageFails,
              StageThrows, clients
<1>2. ASSUME NEW d \in Clients, NEW f \in Items, SubmitCheck(d, f)
      PROVE  cpc'[c] = "push" /\ carg'[c] = carg[c]
  BY <1>0, <1>2, GoesMoves DEF SubmitCheck, TypeOK
<1>3. ASSUME NEW d \in Clients, SubmitPush(d)
      PROVE  cpc'[c] = "push" /\ carg'[c] = carg[c]
  BY <1>0, <1>3, GoesMoves DEF SubmitPush
<1>4. ASSUME NEW d \in Clients, CollectResults(d)
      PROVE  UNCHANGED <<cpc, carg>>
  BY <1>4 DEF CollectResults, clients
<1>5. CASE AddStage \/ DrainFrame
  BY <1>5 DEF AddStage, DrainFrame, clients
<1>6. CASE StopBegin \/ StopJoin \/ DrainEnd \/ StopFinish \/ Destroy
  <2>1. /\ cpc[Owner] # "push" /\ UNCHANGED carg
        /\ \A d \in Clients : d # Owner => cpc'[d] = cpc[d]
    BY <1>0, <1>6, GoesMoves DEF StopBegin, StopJoin, DrainEnd, StopFinish, Destroy
  <2>2. QED
    BY <2>1
<1>7. QED
  BY <1>1, <1>2, <1>3, <1>4, <1>5, <1>6 DEF Next, ClientStep, OwnerStep, StopStep

LEMMA AllKnownStep ==
  ASSUME TypeOK, Lifecycle, Staff, OnePlace, AllKnown, Next
  PROVE  AllKnown'
<1> SUFFICES ASSUME NEW f \in Frames, NEW p, NEW i, NEW k, Located(f, p, i, k)'
             PROVE  Known(f)'
  BY DEF AllKnown
<1>0. QueuesOK /\ ClientsOK /\ 1 \in Queue /\ Grows
  BY TypeParts, OutputIsQueue, InputGrows
<1>1. CASE p = "argument"
  BY <1>1 DEF Located, Known
<1>2. CASE p # "argument"
  <2>1. \E q, j, l : Located(f, q, j, l)
    <3>1. CASE Still
      BY <3>1 DEF Still
    <3>2. ASSUME NEW x, NEW q, NEW j, NEW l, Moves(x, q, j, l)
          PROVE  \E r, m, n : Located(f, r, m, n)
      BY <1>2, <3>2 DEF Moves
    <3>3. QED
      BY <3>1, <3>2, FramesMove
  <2>2. Known(f)
    BY <2>1 DEF AllKnown
  <2>3. ASSUME NEW n \in 1..Len(log[1]), log[1][n] = f
        PROVE  Known(f)'
    <3>1. /\ log'[1][n] = f /\ Len(log[1]) <= Len(log'[1])
          /\ Len(log[1]) \in Nat /\ Len(log'[1]) \in Nat
      BY <1>0, <2>3 DEF Grows
    <3>2. n \in 1..Len(log'[1])
      BY <3>1
    <3>3. QED
      BY <3>1, <3>2 DEF Known
  <2>4. ASSUME NEW c \in Clients, cpc[c] = "push", carg[c] = f
        PROVE  Known(f)'
    <3>1. CASE ~SubmitPush(c)
      BY <2>4, <3>1, ArgumentStays DEF Known
    <3>2. CASE SubmitPush(c) /\ ~closed[1]
      <4>1. Push(1, f) /\ f \in Items
        BY <2>4, <3>2 DEF SubmitPush, Items
      <4>2. /\ Len(log'[1]) = Len(log[1]) + 1 /\ Len(log[1]) \in Nat
            /\ log'[1][Len(log[1]) + 1] = f
        BY <1>0, <3>2, <4>1, PushAppends
      <4>3. Len(log[1]) + 1 \in 1..Len(log'[1])
        BY <4>2
      <4>4. QED
        BY <4>2, <4>3 DEF Known
    <3>3. CASE SubmitPush(c) /\ closed[1]
      <4>1. UNCHANGED <<log, head, failed>>
        BY <3>3 DEF SubmitPush, Push
      <4>2. \A s \in Stage : wpc'[s] = "process" => wpc[s] = "process"
        BY <3>3 DEF SubmitPush, Start
      <4>3. \A s \in Stage : HandKeeps(s)
        <5>1. \A s \in Stage : s \in Queue
          BY StagesAssumption DEF Stage, Queue
        <5>2. QED
          BY <1>0, <4>1, <4>2, <5>1, HandStays
      <4>4. Delivered' = Delivered
        BY <3>3 DEF SubmitPush, results, Delivered
      <4>5. Located(f, p, i, k)
        BY <1>2, <4>1, <4>3, <4>4 DEF Located, HandKeeps
      <4>6. Located(f, "argument", c, 0)
        BY <2>4 DEF Located
      <4>7. QED
        BY <1>2, <4>5, <4>6 DEF OnePlace
    <3>4. QED
      BY <3>1, <3>2, <3>3
  <2>5. QED
    BY <2>2, <2>3, <2>4 DEF Known
<1>3. QED
  BY <1>1, <1>2

LEMMA HandsFullStep ==
  ASSUME TypeOK, Lifecycle, Staff, HandsFull, Next
  PROVE  HandsFull'
<1> SUFFICES ASSUME NEW i \in Stage, wpc'[i] = "process"
             PROVE  InHand(i)' # NoFrame
  BY DEF HandsFull
<1>0. /\ Grows /\ i \in Queue /\ QueuesOK /\ \A j \in Stage : j \in Queue
      /\ Output \in Queue /\ Owner \in Clients
  BY InputGrows, StagesAssumption, TypeParts, OutputIsQueue, Kinds DEF Stage, Queue
<1>1. ASSUME HandKeeps(i)
      PROVE  InHand(i)' # NoFrame
  BY <1>1 DEF HandKeeps, HandsFull
<1>2. ASSUME NEW j \in Stage, WorkerStep(j)
      PROVE  InHand(i)' # NoFrame
  <2>1. CASE i = j
    <3>1. WorkerPop(i)
      BY <1>2, <2>1, Kinds DEF WorkerStep, WorkerGoes, WorkerExit, StageReturns,
                               StageFails, StageThrows
    <3>2. head'[i] = head[i] + 1 /\ UNCHANGED log /\ Front(i) # NoFrame
      BY <1>0, <3>1, PopHead DEF WorkerPop
    <3>3. QED
      BY <3>2 DEF InHand, Front
  <2>2. CASE i # j
    <3>1. wpc'[i] = wpc[i]
      BY <1>2, <2>2, Kinds DEF WorkerStep, WorkerGoes, WorkerPop, WorkerExit,
                               StageReturns, StageFails, StageThrows
    <3>2. UNCHANGED head \/ Pop(j)
      BY <1>2 DEF WorkerStep, WorkerPop, WorkerExit, StageReturns, StageFails,
                  StageThrows, PopEnd, queues
    <3>3. head'[i] = head[i]
      BY <1>0, <2>2, <3>2, PopHead
    <3>4. QED
      BY <1>0, <1>1, <3>1, <3>3, HandStays
  <2>3. QED
    BY <2>1, <2>2
<1>3. CASE DrainFrame \/ DrainEnd
  <2>1. At(Owner, "drain") /\ UNCHANGED wpc /\ (UNCHANGED head \/ Pop(Output))
    BY <1>3 DEF DrainFrame, DrainEnd, Runs, Goes, PopEnd
  <2>2. \A j \in Queue : j # Output => head'[j] = head[j]
    BY <1>0, <2>1, PopHead
  <2>3. QED
    BY <1>0, <1>1, <2>1, <2>2, DrainHands
<1>4. ASSUME \/ AddStage \/ StopBegin \/ StopJoin \/ StopFinish \/ Destroy
             \/ \E c \in Clients : \/ CollectResults(c) \/ SubmitPush(c)
                                   \/ \E f \in Items : SubmitCheck(c, f)
      PROVE  InHand(i)' # NoFrame
  <2>1. UNCHANGED head /\ (wpc'[i] = "process" => wpc[i] = "process")
    BY <1>4 DEF AddStage, StopBegin, StopJoin, StopFinish, Destroy, CollectResults,
                SubmitPush, SubmitCheck, Start, queues
  <2>2. QED
    BY <1>0, <1>1, <2>1, HandStays
<1>5. QED
  BY <1>2, <1>3, <1>4 DEF Next, ClientStep, OwnerStep, StopStep

\* A frame is in one place only, restarts included.
LEMMA Places ==
  Spec => [](OnePlace /\ AllKnown /\ HandsFull)
<1>1. Init => OnePlace /\ AllKnown /\ HandsFull
  <2>1. ASSUME Init, NEW f, NEW p, NEW i, NEW k, Located(f, p, i, k)
        PROVE  FALSE
    <3>1. /\ \A j \in Queue : Len(log[j]) = 0
          /\ \A j \in Stage : wpc[j] = "none"
          /\ \A c \in Clients : cpc[c] = "idle"
          /\ Delivered = <<>> /\ failed = {}
      BY <2>1, EmptySeq, ConcatEmptySeq DEF Init, Delivered
    <3>2. Len(Delivered) = 0
      BY <3>1, EmptySeq
    <3>3. QED
      BY <2>1, <3>1, <3>2 DEF Located
  <2>2. QED
    BY <2>1 DEF Init, OnePlace, AllKnown, HandsFull
<1>2. Inv /\ OnePlace /\ AllKnown /\ HandsFull /\ [Next]_vars
        => (OnePlace /\ AllKnown /\ HandsFull)'
  <2>1. CASE Next
    BY <2>1, OnePlaceStep, AllKnownStep, HandsFullStep DEF Inv
  <2>2. CASE UNCHANGED vars
    <3>1. UNCHANGED <<log, head, wpc, failed, cpc, carg, results_, collected>>
      BY <2>2 DEF vars, queues, clients, results
    <3>2. Delivered' = Delivered
      BY <3>1 DEF Delivered
    <3>3. \A f, p, i, k : Located(f, p, i, k)' <=> Located(f, p, i, k)
      BY <3>1, <3>2 DEF Located, InHand
    <3>4. QED
      BY <3>1, <3>3 DEF OnePlace, AllKnown, HandsFull, Known, InHand
  <2>3. QED
    BY <2>1, <2>2
<1>3. QED
  BY <1>1, <1>2, Invariance, PTL DEF Spec

\* For any number of stages and frames, any failures and restarts: no two threads
\* have the same frame in their hands.
THEOREM ExclusiveFrameHolds == Spec => []ExclusiveFrame
<1>1. ASSUME Inv, OnePlace, HandsFull
      PROVE  ExclusiveFrame
  <2> SUFFICES ASSUME NEW i \in Stage, wpc[i] = "process"
               PROVE  /\ \A j \in Stage : wpc[j] = "process" /\ j # i => InHand(j) # InHand(i)
                      /\ \A k \in 1..Len(Delivered) : Delivered[k] # InHand(i)
    BY DEF ExclusiveFrame
  <2>1. InHand(i) \in Frames
    <3>1. i \in Queue /\ TypeOK
      BY <1>1, StagesAssumption DEF Stage, Queue, Inv
    <3>2. head[i] \in 1..Len(log[i]) /\ log[i] \in Seq(Items)
      BY <3>1, LenProperties DEF TypeOK
    <3>3. QED
      BY <1>1, <3>2, ElementOfSeq DEF InHand, HandsFull, Items
  <2>2. Located(InHand(i), "hand", i, 0)
    BY DEF Located
  <2>3. ASSUME NEW j \in Stage, wpc[j] = "process", InHand(j) = InHand(i)
        PROVE  i = j
    <3>1. Located(InHand(i), "hand", j, 0)
      BY <2>3 DEF Located
    <3>2. QED
      BY <1>1, <2>1, <2>2, <3>1 DEF OnePlace
  <2>4. ASSUME NEW k \in 1..Len(Delivered), Delivered[k] = InHand(i)
        PROVE  FALSE
    <3>1. Located(InHand(i), "result", 0, k)
      BY <2>4 DEF Located
    <3>2. QED
      BY <1>1, <2>1, <2>2, <3>1 DEF OnePlace
  <2>5. QED
    BY <2>3, <2>4
<1>2. QED
  BY <1>1, Invariance, Places, PTL


-----------------------------------------------------------------------------
(***************************************************************************)
(* What stop() drains                                                      *)
(***************************************************************************)

\* A nullptr in a queue is in the place of something that ends the delivery.
Nulls ==
  starts <= 1 =>
    \A j \in 1..Output : \A k \in 1..Len(log[j]) : log[j][k] = NoFrame => Breaks(k)

\* Once the drain is over the delivery ended at a break.
Ended ==
  At(Owner, "finish") \/ StopReturned =>
    Len(Delivered) < Len(log[1]) /\ Breaks(Len(Delivered) + 1)

\* A break stays one.
LEMMA BreaksStay ==
  ASSUME TypeOK, Next, NEW k \in 1..Len(log[1]), Breaks(k)
  PROVE  Breaks(k)'
<1>1. log'[1][k] = log[1][k]
  BY TypeParts, OutputIsQueue, InputGrows DEF Grows
<1>2. failed \subseteq failed'
  BY DEF Next, ClientStep, OwnerStep, StopStep, WorkerStep, WorkerPop, WorkerExit,
         StageReturns, StageFails, StageThrows, AddStage, SubmitCheck, SubmitPush,
         StopBegin, StopJoin, DrainFrame, DrainEnd, StopFinish, CollectResults, Destroy
<1>3. QED
  BY <1>1, <1>2 DEF Breaks

\* What a worker pushes as nullptr stands for a break.
LEMMA EmittedNull ==
  ASSUME TypeOK, Lifecycle, Staff, Balance, Conveyor, Nulls, starts <= 1, Next,
         NEW i \in Stage, WorkerStep(i), NEW x \in Items, Emits(i, x), x = NoFrame,
         NEW k, k = head'[i]
  PROVE  Breaks(k)'
<1>0. /\ i \in 1..workers /\ workers \in Nat /\ i \in Queue /\ 1 \in Queue
      /\ i \in 1..Output
      /\ QueuesOK
  BY WorkerOnConveyor, Kinds, TypeParts, OutputIsQueue, StagesAssumption
  DEF Stage, Queue, Output
<1>1. k \in 1..Len(log[i]) /\ k \in 1..Len(log[1]) /\ log[i][k] \in {log[1][k], NoFrame}
  <2>1. k \in 1..Len(log[i]) /\ Len(log[i]) \in Nat /\ Len(log[1]) \in Nat
    BY <1>0, LenProperties DEF Emits, QueuesOK
  <2>2. Len(log[i]) <= Len(log[1]) /\ log[i][k] \in {log[1][k], NoFrame}
    BY <1>0, <2>1 DEF Conveyor
  <2>3. QED
    BY <2>1, <2>2
<1>2. CASE log[i][k] = NoFrame
  <2>1. Breaks(k)
    BY <1>0, <1>1, <1>2 DEF Nulls
  <2>2. Breaks(k)'
    BY <1>1, <2>1, BreaksStay
  <2>3. QED
    BY <2>2 DEF Breaks
<1>3. CASE log[i][k] # NoFrame
  <2>1. log[1][k] = log[i][k] /\ log'[1][k] = log[1][k]
    BY <1>0, <1>1, <1>3, InputGrows DEF Grows
  <2>2. wpc[i] # "exited" /\ ~closed[i] /\ ~closed[i + 1]
    <3>1. wpc[i] # "exited"
      BY DEF WorkerStep, WorkerGoes, WorkerPop, WorkerExit, StageReturns,
             StageFails, StageThrows
    <3>2. i + 1 \in Queue
      BY StagesAssumption DEF Stage, Queue
    <3>3. QED
      BY <1>0, <3>1, <3>2 DEF Staff, AllExited
  <2>3. ~WorkerExit(i)
    <3>1. ASSUME WorkerExit(i)
          PROVE  FALSE
      <4>1. Pop(i) /\ Front(i) = NoFrame
        BY <2>2, <3>1 DEF WorkerExit, PopEnd
      <4>2. head'[i] = head[i] + 1
        BY <1>0, <4>1, PopHead
      <4>3. QED
        BY <1>3, <4>1, <4>2 DEF Front
    <3>2. QED
      BY <3>1
  <2>4. ~(UNCHANGED log)
    <3>1. i + 1 \in Queue
      BY StagesAssumption DEF Stage, Queue
    <3>2. Len(log[i + 1]) \in Nat
      BY <1>0, <3>1, LenProperties DEF QueuesOK
    <3>3. QED
      BY <3>2 DEF Emits
  <2>5. ~WorkerPop(i) /\ ~StageThrows(i)
    BY <2>4 DEF WorkerPop, StageThrows, queues
  <2>6. CASE StageReturns(i)
    <3>1. UNCHANGED head /\ Push(i + 1, InHand(i))
      BY <2>6 DEF StageReturns
    <3>2. InHand(i) # NoFrame /\ InHand(i) \in Items
      BY <1>0, <1>1, <1>3, <3>1, ElementOfSeq DEF InHand, QueuesOK
    <3>3. i + 1 \in Queue
      BY StagesAssumption DEF Stage, Queue
    <3>4. /\ Len(log'[i + 1]) = Len(log[i + 1]) + 1
          /\ log'[i + 1][Len(log[i + 1]) + 1] = InHand(i)
      BY <1>0, <2>2, <3>1, <3>2, <3>3, PushAppends
    <3>5. QED
      BY <3>2, <3>4 DEF Emits
  <2>7. CASE StageFails(i)
    <3>1. InHand(i) \in failed' /\ UNCHANGED head
      BY <2>7 DEF StageFails
    <3>2. InHand(i) = log[1][k]
      BY <2>1, <3>1 DEF InHand
    <3>3. log'[1][k] \in failed'
      BY <2>1, <3>1, <3>2
    <3>4. QED
      BY <3>3 DEF Breaks
  <2>8. QED
    BY <2>3, <2>5, <2>6, <2>7 DEF WorkerStep
<1>4. QED
  BY <1>2, <1>3

LEMMA NullsStep ==
  ASSUME TypeOK, Lifecycle, Staff, Balance, Conveyor, Nulls, Next
  PROVE  Nulls'
<1> SUFFICES ASSUME starts' <= 1, NEW j \in 1..Output', NEW k \in 1..Len(log'[j]),
                    log'[j][k] = NoFrame
             PROVE  Breaks(k)'
  BY DEF Nulls
<1>0. /\ starts \in Nat /\ starts <= 1 /\ workers \in Nat /\ workers <= MaxStages
      /\ Grows /\ 1 \in Queue
  BY StartsGrow, Kinds, InputGrows, TypeParts, OutputIsQueue
<1>1. CASE j = 1
  BY <1>1 DEF Breaks
<1>2. ASSUME j # 1, j \in 1..Output, j \in Queue, k \in 1..Len(log[j])
      PROVE  Breaks(k)'
  <2>1. log[j][k] = NoFrame
    BY <1>0, <1>2 DEF Grows
  <2>2. Breaks(k)
    BY <1>0, <1>2, <2>1 DEF Nulls
  <2>3. Len(log[j]) <= Len(log[1]) /\ Len(log[j]) \in Nat /\ Len(log[1]) \in Nat
    BY <1>0, <1>2 DEF Conveyor, Grows
  <2>4. k \in 1..Len(log[1])
    BY <1>2, <2>3
  <2>5. QED
    BY <2>2, <2>4, BreaksStay
<1>3. ASSUME NEW i \in Stage, WorkerStep(i), j # 1
      PROVE  Breaks(k)'
  <2>0. UNCHANGED workers
    BY <1>3 DEF WorkerStep, WorkerPop, WorkerExit, StageReturns, StageFails,
                StageThrows, build
  <2>1. i \in 1..workers /\ j \in 1..Output
    BY <1>0, <1>3, <2>0, WorkerOnConveyor DEF Output
  <2>2. j \in Queue
    BY <1>0, <2>1, StagesAssumption DEF Queue, Output
  <2>3. CASE k \in 1..Len(log[j])
    BY <1>2, <1>3, <2>1, <2>2, <2>3
  <2>4. CASE k \notin 1..Len(log[j])
    <3>1. j = i + 1
      BY <1>0, <1>3, <2>2, <2>4, WorkerOnConveyor
    <3>2. PICK x \in Items : Emits(i, x)
      BY <1>0, <1>3, <2>4, <3>1, WorkerOnConveyor DEF Keeps
    <3>3. Len(log[j]) \in Nat /\ Len(log'[j]) = Len(log[j]) + 1
      BY <1>0, <2>2, <3>1, <3>2 DEF Grows, Emits
    <3>4. k = Len(log'[j])
      BY <2>4, <3>3
    <3>5. head'[i] = k /\ x = NoFrame
      BY <3>1, <3>2, <3>4 DEF Emits
    <3>6. QED
      BY <1>0, <1>3, <3>2, <3>5, EmittedNull
  <2>5. QED
    BY <2>3, <2>4
<1>4. CASE Opens
  <2>1. workers' \in 1..MaxStages
    BY <1>4 DEF Opens
  <2>2. j \in Queue
    BY <2>1, QueueNumbers DEF Output
  <2>3. CASE j # 1
    BY <1>4, <2>2, <2>3 DEF Opens
  <2>4. QED
    BY <1>1, <2>3
<1>5. ASSUME Quiet, j # 1
      PROVE  Breaks(k)'
  <2>1. j \in 1..Output /\ j \in Queue
    BY <1>0, <1>5, StagesAssumption DEF Quiet, Queue, Output
  <2>2. log'[j] = log[j]
    BY <1>5, <2>1 DEF Quiet
  <2>3. QED
    BY <1>2, <1>5, <2>1, <2>2
<1>6. QED
  BY <1>1, <1>3, <1>4, <1>5, ClientsOnConveyor

LEMMA EndedStep ==
  ASSUME Inv, Nulls, Ended, DrainNeverBlocks, Next
  PROVE  Ended'
<1> SUFFICES ASSUME (At(Owner, "finish") \/ StopReturned)'
             PROVE  Len(Delivered') < Len(log'[1]) /\ Breaks(Len(Delivered) + 1)'
  BY DEF Ended
<1>0. /\ TypeOK /\ Lifecycle /\ Staff /\ Drained /\ Conveyor /\ QueuesOK
      /\ 1 \in Queue /\ Output \in Queue /\ Owner \in Clients /\ workers \in Nat
      /\ Grows /\ starts \in Nat /\ running_ \in BOOLEAN /\ stopped_ \in BOOLEAN
  BY TypeParts, OutputIsQueue, Kinds, InputGrows DEF Inv
<1>a. Len(Delivered) \in Nat /\ (~DrainFrame => Delivered' = Delivered)
  BY <1>0, Deliveries, LenProperties
<1>b. ASSUME ~DrainFrame, Len(Delivered) < Len(log[1]), Breaks(Len(Delivered) + 1)
      PROVE  Len(Delivered') < Len(log'[1]) /\ Breaks(Len(Delivered) + 1)'
  <2>0. PICK n : n = Len(Delivered) + 1
    OBVIOUS
  <2>1. /\ Len(log[1]) \in Nat /\ Len(log'[1]) \in Nat /\ Len(log[1]) <= Len(log'[1])
    BY <1>0 DEF Grows
  <2>2. n \in 1..Len(log[1]) /\ Breaks(n)
    BY <1>a, <1>b, <2>0, <2>1
  <2>3. Breaks(n)'
    BY <1>0, <2>2, BreaksStay
  <2>4. QED
    BY <1>a, <1>b, <2>0, <2>1, <2>3 DEF Breaks
<1>1. CASE At(Owner, "finish") \/ StopReturned
  <2>1. ~DrainFrame
    BY <1>0, <1>1 DEF DrainFrame, Runs, At, StopReturned, Lifecycle, Stopping
  <2>2. QED
    BY <1>1, <1>b, <2>1 DEF Ended
<1>2. CASE DrainEnd
  <2>0. PICK n : n = head[Output] + 1
    OBVIOUS
  <2>1. At(Owner, "drain") /\ PopEnd(Output) /\ ~DrainFrame
    <3>1. /\ cpc[Owner] = "drain" /\ cpc'[Owner] = "finish"
      BY <1>0, <1>2, GoesMoves DEF DrainEnd
    <3>2. QED
      BY <1>2, <3>1 DEF DrainEnd, DrainFrame, At, clients
  <2>2. Pop(Output) /\ Front(Output) = NoFrame
    BY <2>1 DEF DrainNeverBlocks, PopEnd
  <2>3. n \in 1..Len(log[Output]) /\ log[Output][n] = NoFrame
    BY <1>0, <2>0, <2>2, PopHead DEF Front
  <2>4. starts = 1 /\ Len(Delivered) = head[Output]
    BY <1>0, <2>1 DEF Lifecycle, Stopping, At, Drained
  <2>5. Output \in 1..Output
    BY <1>0 DEF Output
  <2>6. /\ Breaks(n) /\ Len(log[Output]) <= Len(log[1])
    BY <2>3, <2>4, <2>5, <1>0 DEF Nulls, Conveyor
  <2>7. /\ Len(log[1]) \in Nat /\ Len(log[Output]) \in Nat
    BY <1>0 DEF Grows
  <2>8. Len(Delivered) < Len(log[1])
    BY <1>a, <2>0, <2>3, <2>4, <2>6, <2>7
  <2>9. QED
    BY <1>b, <2>0, <2>1, <2>4, <2>6, <2>8
<1>3. CASE ~At(Owner, "finish") /\ ~StopReturned /\ ~DrainEnd
  <2>1. ASSUME NEW i \in Stage, WorkerStep(i) PROVE FALSE
    BY <1>3, <2>1 DEF WorkerStep, WorkerPop, WorkerExit, StageReturns, StageFails,
                      StageThrows, flags, clients, StopReturned, At
  <2>2. ASSUME NEW c \in Clients, (\E f \in Items : SubmitCheck(c, f)) PROVE FALSE
    <3>1. cpc[c] = "idle" /\ cpc'[c] = "push" /\ (c # Owner => cpc'[Owner] = cpc[Owner])
      BY <1>0, <2>2, GoesMoves DEF SubmitCheck
    <3>2. UNCHANGED <<running_, stopped_>>
      BY <2>2 DEF SubmitCheck, flags
    <3>3. QED
      BY <1>3, <3>1, <3>2 DEF StopReturned, At
  <2>3. ASSUME NEW c \in Clients, SubmitPush(c) PROVE FALSE
    <3>1. cpc[c] = "push" /\ cpc'[c] = "idle" /\ (c # Owner => cpc'[Owner] = cpc[Owner])
      BY <1>0, <2>3, GoesMoves DEF SubmitPush
    <3>2. UNCHANGED stopped_ /\ (running_' = running_ \/ running_')
      BY <2>3 DEF SubmitPush, Start
    <3>3. QED
      BY <1>3, <3>1, <3>2 DEF StopReturned, At
  <2>4. ASSUME NEW c \in Clients, CollectResults(c) PROVE FALSE
    BY <1>3, <2>4 DEF CollectResults, flags, clients, StopReturned, At
  <2>5. CASE AddStage \/ DrainFrame
    BY <1>3, <2>5 DEF AddStage, DrainFrame, flags, clients, StopReturned, At
  <2>6. CASE StopBegin
    <3>1. cpc'[Owner] = "join" /\ running_ /\ UNCHANGED running_
      BY <1>0, <2>6, GoesMoves DEF StopBegin
    <3>2. QED
      BY <3>1 DEF StopReturned, At
  <2>7. CASE StopJoin \/ Destroy
    <3>1. cpc'[Owner] # "finish" /\ UNCHANGED <<running_, stopped_>>
      BY <1>0, <2>7, GoesMoves DEF StopJoin, Destroy, flags
    <3>2. QED
      BY <1>3, <3>1 DEF StopReturned, At
  <2>8. CASE StopFinish
    BY <1>3, <2>8 DEF StopFinish, Goes, Runs
  <2>9. QED
    BY <1>3, <2>1, <2>2, <2>3, <2>4, <2>5, <2>6, <2>7, <2>8
    DEF Next, ClientStep, OwnerStep, StopStep
<1>4. QED
  BY <1>1, <1>2, <1>3


LEMMA Breakage == Spec => [](Nulls /\ Ended)
<1>1. Init => Nulls /\ Ended
  <2>1. ASSUME Init
        PROVE  Nulls /\ Ended
    <3>1. /\ Output = 1 /\ Len(log[1]) = 0
          /\ ~At(Owner, "finish") /\ ~StopReturned
      BY <2>1, StagesAssumption, EmptySeq
      DEF Init, Output, Queue, At, Clients, StopReturned
    <3>2. QED
      BY <3>1 DEF Nulls, Ended
  <2>2. QED
    BY <2>1
<1>2. Inv /\ Nulls /\ Ended /\ [Next]_vars => (Nulls /\ Ended)'
  <2>1. CASE Next
    BY <2>1, NullsStep, EndedStep, InvDrains DEF Inv
  <2>2. CASE UNCHANGED vars
    <3>1. /\ UNCHANGED <<starts, workers, log, failed, cpc, running_, stopped_>>
          /\ UNCHANGED <<results_, collected>>
      BY <2>2 DEF vars, build, flags, queues, clients, results
    <3>2. QED
      BY <3>1 DEF Nulls, Ended, Breaks, Output, At, StopReturned, Delivered
  <2>3. QED
    BY <2>1, <2>2
<1>3. QED
  BY <1>1, <1>2, Invariance, PTL DEF Spec

\* For any number of stages and frames and any failures: when stop() has returned
\* the results are exactly the frames before the first break.
THEOREM DrainCompleteHolds == Spec => []DrainComplete
<1>1. ASSUME Inv, OnePlace, Ended, StopReturned
      PROVE  /\ Len(Delivered) < Len(log[1])
             /\ Breaks(Len(Delivered) + 1)
             /\ \A k \in 1..Len(Delivered) : ~Breaks(k)
  <2>1. Len(Delivered) < Len(log[1]) /\ Breaks(Len(Delivered) + 1)
    BY <1>1 DEF Ended
  <2>2. ASSUME NEW k \in 1..Len(Delivered), Breaks(k)
        PROVE  FALSE
    <3>1. results_ \in Seq(Frames) /\ collected \in Seq(Frames)
      BY <1>1 DEF Inv, TypeOK
    <3>2. Delivered \in Seq(Frames)
      BY <3>1, ConcatProperties DEF Delivered
    <3>3. Delivered[k] \in Frames /\ Delivered[k] # NoFrame
      BY <3>2, ElementOfSeq, FrameAssumption
    <3>4. Delivered[k] = log[1][k]
      BY <1>1 DEF Inv, ResultsInOrder
    <3>5. Delivered[k] \in failed
      BY <2>2, <3>3, <3>4 DEF Breaks
    <3>6. Located(Delivered[k], "result", 0, k) /\ Located(Delivered[k], "failed", 0, 0)
      BY <3>5 DEF Located
    <3>7. QED
      BY <1>1, <3>3, <3>6 DEF OnePlace
  <2>3. QED
    BY <2>1, <2>2
<1>2. Inv /\ OnePlace /\ Ended => DrainComplete
  BY <1>1 DEF DrainComplete
<1>3. QED
  BY <1>2, Invariance, Places, Breakage, PTL

-----------------------------------------------------------------------------
(***************************************************************************)
(* Who ends the process                                                    *)
(***************************************************************************)

\* A worker that was not joined is one of a pipeline that stop() has still to
\* join.
Joined ==
  starts <= 1 /\ joinable # {} => starts = 1 /\ (~stopped_ \/ At(Owner, "join"))

LEMMA JoinedStep ==
  ASSUME TypeOK, Lifecycle, Staff, Joined, Next
  PROVE  Joined'
<1> SUFFICES ASSUME starts' <= 1, joinable' # {}
             PROVE  starts' = 1 /\ (~stopped_' \/ At(Owner, "join")')
  BY DEF Joined
<1>0. /\ starts \in Nat /\ starts <= 1 /\ Owner \in Clients /\ stages \in Nat
      /\ running_ \in BOOLEAN /\ stopped_ \in BOOLEAN
  BY StartsGrow, Kinds
<1>1. ASSUME UNCHANGED <<starts, joinable, stopped_, cpc>>
      PROVE  starts' = 1 /\ (~stopped_' \/ At(Owner, "join")')
  BY <1>0, <1>1 DEF Joined, At
<1>2. ASSUME \/ \E i \in Stage : WorkerStep(i)
             \/ \E c \in Clients : CollectResults(c)
             \/ AddStage \/ DrainFrame
      PROVE  UNCHANGED <<starts, joinable, stopped_, cpc>>
  BY <1>2 DEF WorkerStep, WorkerPop, WorkerExit, StageReturns, StageFails, StageThrows,
              CollectResults, AddStage, DrainFrame, build, flags, clients
<1>3. ASSUME NEW c \in Clients, (\E f \in Items : SubmitCheck(c, f)) \/ SubmitPush(c)
      PROVE  starts' = 1 /\ (~stopped_' \/ At(Owner, "join")')
  <2>1. /\ cpc[c] \in {"idle", "push"} /\ (c # Owner => cpc'[Owner] = cpc[Owner])
        /\ UNCHANGED stopped_
    BY <1>0, <1>3, GoesMoves DEF SubmitCheck, SubmitPush, flags
  <2>2. CASE UNCHANGED <<starts, joinable>>
    BY <1>0, <2>1, <2>2 DEF Joined, At
  <2>3. CASE ~UNCHANGED <<starts, joinable>>
    <3>1. ~running_ /\ starts' = starts + 1
      BY <1>3, <2>3 DEF SubmitCheck, SubmitPush, Start, build
    <3>2. starts = 0 /\ starts' = 1
      BY <1>0, <3>1
    <3>3. ~stopped_
      BY <3>2 DEF Lifecycle
    <3>4. QED
      BY <2>1, <3>2, <3>3
  <2>4. QED
    BY <2>2, <2>3
<1>4. CASE StopBegin
  <2>1. cpc'[Owner] = "join" /\ UNCHANGED <<starts, joinable>>
    BY <1>0, <1>4, GoesMoves DEF StopBegin, build
  <2>2. QED
    BY <1>0, <2>1 DEF Joined, At
<1>5. CASE StopJoin
  BY <1>5 DEF StopJoin
<1>6. CASE DrainEnd \/ StopFinish \/ Destroy
  <2>1. cpc[Owner] \in {"drain", "finish", "idle"} /\ UNCHANGED <<starts, joinable, stopped_>>
    BY <1>0, <1>6, GoesMoves DEF DrainEnd, StopFinish, Destroy, build, flags
  <2>2. QED
    BY <1>0, <2>1 DEF Joined, At
<1>7. QED
  BY <1>1, <1>2, <1>3, <1>4, <1>5, <1>6 DEF Next, ClientStep, OwnerStep, StopStep

LEMMA AbortStep ==
  ASSUME TypeOK, Lifecycle, Joined, OnlyStagesAbort, Next
  PROVE  OnlyStagesAbort'
<1> SUFFICES ASSUME aborted'
             PROVE  starts' > 1 \/ \E i \in Stage : wpc'[i] = "threw"
  BY DEF OnlyStagesAbort
<1>1. ~aborted
  BY DEF Next, ClientStep, OwnerStep, StopStep, WorkerStep, WorkerPop, WorkerExit,
         StageReturns, StageFails, StageThrows, WorkerGoes, AddStage, SubmitCheck,
         SubmitPush, StopBegin, StopJoin, DrainFrame, DrainEnd, StopFinish,
         CollectResults, Destroy, Goes, Runs
<1>2. Destroy \/ \E i \in Stage : StageThrows(i)
  BY <1>1 DEF Next, ClientStep, OwnerStep, StopStep, WorkerStep, WorkerPop, WorkerExit,
              StageReturns, StageFails, AddStage, SubmitCheck, SubmitPush, StopBegin,
              StopJoin, DrainFrame, DrainEnd, StopFinish, CollectResults, flags
<1>3. ASSUME NEW i \in Stage, StageThrows(i)
      PROVE  wpc'[i] = "threw"
  BY <1>3, Kinds DEF StageThrows, WorkerGoes
<1>4. CASE Destroy
  <2>0. starts \in Nat /\ running_ \in BOOLEAN /\ stopped_ \in BOOLEAN
    BY Kinds
  <2>1. joinable # {} /\ UNCHANGED starts /\ cpc[Owner] = "idle" /\ (running_ => stopped_)
    BY <1>4 DEF Destroy, build, Goes, Runs, At
  <2>2. CASE starts <= 1
    <3>1. starts = 1 /\ ~stopped_
      BY <2>1, <2>2 DEF Joined, At
    <3>2. running_
      BY <2>0, <3>1 DEF Lifecycle
    <3>3. QED
      BY <2>1, <3>1, <3>2
  <2>3. QED
    BY <2>0, <2>1, <2>2
<1>5. QED
  BY <1>2, <1>3, <1>4

\* For any number of stages and any outcomes: the destructor meets a worker that
\* was not joined only if a submit() restarted the pipeline.
THEOREM OnlyStagesAbortHolds == Spec => []OnlyStagesAbort
<1>1. Init => Joined /\ OnlyStagesAbort
  BY DEF Init, Joined, OnlyStagesAbort
<1>2. Inv /\ Joined /\ OnlyStagesAbort /\ [Next]_vars => (Joined /\ OnlyStagesAbort)'
  <2>1. CASE Next
    BY <2>1, JoinedStep, AbortStep DEF Inv
  <2>2. CASE UNCHANGED vars
    BY <2>2 DEF vars, build, flags, clients, Joined, OnlyStagesAbort, At
  <2>3. QED
    BY <2>1, <2>2
<1>3. QED
  BY <1>1, <1>2, Invariance, PTL DEF Spec

-----------------------------------------------------------------------------
(***************************************************************************)
(* Why nothing gets stuck                                                  *)
(***************************************************************************)

\* A stage that threw has ended the process.
Thrown == \A i \in Stage : wpc[i] = "threw" => aborted

\* stop() has pushed its sentinel, and until it is over no queue is closed.
SentinelSent ==
  /\ Stopping => \E k \in 1..Len(log[1]) : log[1][k] = NoFrame
  /\ ~stopped_ \/ Stopping => \A j \in Queue : ~closed[j]

\* A worker of the first run is started, and while it is in its loop it has not
\* popped a nullptr.
Looping ==
  starts <= 1 =>
    /\ joinable \subseteq 1..workers
    /\ \A i \in 1..workers :
         /\ wpc[i] # "none"
         /\ wpc[i] # "exited" => \A k \in 1..head[i] : log[i][k] # NoFrame

LEMMA ThrownStep ==
  ASSUME TypeOK, Thrown, Next
  PROVE  Thrown'
<1> SUFFICES ASSUME NEW i \in Stage, wpc'[i] = "threw" PROVE aborted'
  BY DEF Thrown
<1>1. aborted => aborted'
  BY DEF Next, ClientStep, OwnerStep, StopStep, WorkerStep, WorkerPop, WorkerExit,
         StageReturns, StageFails, StageThrows, WorkerGoes, AddStage, SubmitCheck,
         SubmitPush, StopBegin, StopJoin, DrainFrame, DrainEnd, StopFinish,
         CollectResults, Destroy, Goes, Runs
<1>2. ASSUME NEW j \in Stage, WorkerStep(j) PROVE aborted'
  <2>1. CASE StageThrows(j)
    BY <2>1 DEF StageThrows
  <2>2. CASE ~StageThrows(j)
    <3>1. wpc'[i] = "threw" => wpc[i] = "threw"
      BY <1>2, <2>2, Kinds DEF WorkerStep, WorkerPop, WorkerExit, StageReturns,
                               StageFails, WorkerGoes
    <3>2. QED
      BY <1>1, <3>1 DEF Thrown
  <2>3. QED
    BY <2>1, <2>2
<1>3. ASSUME NEW c \in Clients, SubmitPush(c) PROVE aborted'
  <2>1. wpc[i] = "threw"
    BY <1>3, Kinds DEF SubmitPush, Start
  <2>2. QED
    BY <1>1, <2>1 DEF Thrown
<1>4. CASE UNCHANGED wpc
  BY <1>1, <1>4 DEF Thrown
<1>5. QED
  BY <1>2, <1>3, <1>4
  DEF Next, ClientStep, OwnerStep, StopStep, AddStage, SubmitCheck, StopBegin, StopJoin,
      DrainFrame, DrainEnd, StopFinish, CollectResults, Destroy

\* Only the begin of stop() makes the owner stop the pipeline.
LEMMA StoppingBegins ==
  ASSUME TypeOK, Next, ~Stopping, Stopping'
  PROVE  StopBegin
<1> SUFFICES ASSUME ~StopBegin PROVE FALSE
  OBVIOUS
<1>0. Owner \in Clients
  BY Kinds
<1>1. cpc[Owner] \notin {"join", "drain", "finish"}
      /\ cpc'[Owner] \in {"join", "drain", "finish"}
  BY DEF Stopping
<1>2. ASSUME NEW c \in Clients, (\E f \in Items : SubmitCheck(c, f)) \/ SubmitPush(c)
      PROVE  cpc'[Owner] \in {cpc[Owner], "push", "idle"}
  BY <1>0, <1>2, GoesMoves DEF SubmitCheck, SubmitPush
<1>3. ASSUME StopStep \/ Destroy
      PROVE  \/ cpc[Owner] \in {"join", "drain", "finish"}
             \/ cpc'[Owner] = "destroyed"
  BY <1>0, <1>3, GoesMoves DEF StopStep, StopJoin, DrainFrame, DrainEnd,
                               StopFinish, Destroy, Runs, At
<1>4. ASSUME \/ AddStage \/ \E i \in Stage : WorkerStep(i)
             \/ \E c \in Clients : CollectResults(c)
      PROVE  UNCHANGED cpc
  BY <1>4 DEF AddStage, WorkerStep, WorkerPop, WorkerExit, StageReturns, StageFails,
              StageThrows, CollectResults, clients
<1>5. QED
  BY <1>1, <1>2, <1>3, <1>4 DEF Next, ClientStep, OwnerStep

LEMMA SentinelSentStep ==
  ASSUME TypeOK, Lifecycle, Staff, SentinelSent, Next
  PROVE  SentinelSent'
<1>0. QueuesOK /\ 1 \in Queue /\ Owner \in Clients /\ Grows /\ NoFrame \in Items
  BY TypeParts, OutputIsQueue, Kinds, InputGrows DEF Items
<1>a. ASSUME (~stopped_ \/ Stopping)' PROVE \A j \in Queue : ~closed'[j]
  <2>1. ~stopped_ \/ Stopping
    <3>1. stopped_ => stopped_'
      BY DEF Next, ClientStep, OwnerStep, StopStep, WorkerStep, WorkerPop, WorkerExit,
             StageReturns, StageFails, StageThrows, AddStage, SubmitCheck, SubmitPush,
             StopBegin, StopJoin, DrainFrame, DrainEnd, StopFinish, CollectResults,
             Destroy, flags
    <3>2. StopBegin => ~stopped_
      BY DEF StopBegin
    <3>3. QED
      BY <1>a, <3>1, <3>2, StoppingBegins
  <2>2. CASE StopFinish
    <3>1. cpc[Owner] = "finish" /\ cpc'[Owner] = "idle" /\ UNCHANGED stopped_
      BY <1>0, <2>2, GoesMoves DEF StopFinish
    <3>2. QED
      BY <1>a, <3>1 DEF Lifecycle, Stopping
  <2>3. CASE ~StopFinish
    <3>1. UNCHANGED closed
      BY <2>3 DEF Next, ClientStep, OwnerStep, StopStep, WorkerStep, WorkerPop,
                  WorkerExit, StageReturns, StageFails, StageThrows, AddStage,
                  SubmitCheck, SubmitPush, StopBegin, StopJoin, DrainFrame, DrainEnd,
                  CollectResults, Destroy, queues
    <3>2. QED
      BY <2>1, <3>1 DEF SentinelSent
  <2>4. QED
    BY <2>2, <2>3
<1>b. SUFFICES ASSUME Stopping' PROVE \E k \in 1..Len(log'[1]) : log'[1][k] = NoFrame
  BY <1>a DEF SentinelSent
<1>1. CASE Stopping
  <2>1. PICK k \in 1..Len(log[1]) : log[1][k] = NoFrame
    BY <1>1 DEF SentinelSent
  <2>2. k \in 1..Len(log'[1]) /\ log'[1][k] = log[1][k]
    BY <1>0 DEF Grows
  <2>3. QED
    BY <2>1, <2>2
<1>2. CASE ~Stopping
  <2>1. StopBegin
    BY <1>b, <1>2, StoppingBegins
  <2>2. Push(1, NoFrame) /\ ~closed[1]
    BY <1>0, <2>1 DEF StopBegin, SentinelSent
  <2>3. QED
    BY <1>0, <2>2, PushAppends
<1>3. QED
  BY <1>1, <1>2

LEMMA LoopingStep ==
  ASSUME TypeOK, Lifecycle, Staff, Balance, Looping, Next
  PROVE  Looping'
<1> SUFFICES ASSUME starts' <= 1 PROVE Looping'
  BY DEF Looping
<1>0. /\ starts \in Nat /\ starts <= 1 /\ workers \in Nat /\ workers <= MaxStages
      /\ Grows /\ QueuesOK
      /\ \A i \in 1..workers : i \in Stage /\ i \in Queue
  BY StartsGrow, Kinds, InputGrows, TypeParts, StagesAssumption DEF Stage, Queue
<1>a. \A i \in 1..workers : \A k \in 1..head[i] : log'[i][k] = log[i][k]
  BY <1>0 DEF QueuesOK, Grows
<1>1. ASSUME NEW i \in Stage, WorkerStep(i)
      PROVE  Looping'
  <2>1. /\ UNCHANGED <<workers, joinable>>
        /\ i \in 1..workers
        /\ \A j \in Stage : j # i => wpc'[j] = wpc[j]
        /\ \A j \in Queue : j # i => head'[j] = head[j]
    BY <1>0, <1>1, WorkerOnConveyor
    DEF WorkerStep, WorkerPop, WorkerExit, StageReturns, StageFails, StageThrows, build
  <2>2. wpc'[i] # "none" /\ wpc[i] # "exited"
    BY <1>1, Kinds DEF WorkerStep, WorkerPop, WorkerExit, StageReturns, StageFails,
                       StageThrows, WorkerGoes
  <2>3. ASSUME wpc'[i] # "exited"
        PROVE  \A k \in 1..head'[i] : log'[i][k] # NoFrame
    <3>1. \A k \in 1..head[i] : log'[i][k] # NoFrame
      BY <1>0, <1>a, <2>1, <2>2 DEF Looping
    <3>2. CASE UNCHANGED head
      BY <3>1, <3>2
    <3>3. CASE WorkerPop(i)
      <4>1. /\ head'[i] = head[i] + 1 /\ head[i] \in Nat
            /\ log[i][head[i] + 1] # NoFrame /\ UNCHANGED log
        BY <1>0, <2>1, <3>3, PopHead DEF WorkerPop, Front, QueuesOK
      <4>2. QED
        BY <3>1, <4>1
    <3>4. UNCHANGED head \/ WorkerPop(i)
      BY <1>1, <2>3, Kinds DEF WorkerStep, WorkerExit, StageReturns, StageFails,
                               StageThrows, WorkerGoes, queues
    <3>5. QED
      BY <3>2, <3>3, <3>4
  <2>4. ASSUME NEW j \in 1..workers, j # i
        PROVE  /\ wpc'[j] # "none"
               /\ wpc'[j] # "exited" => \A k \in 1..head'[j] : log'[j][k] # NoFrame
    BY <1>0, <1>a, <2>1, <2>4 DEF Looping
  <2>5. joinable' \subseteq 1..workers'
    BY <1>0, <2>1 DEF Looping
  <2>6. QED
    BY <2>1, <2>2, <2>3, <2>4, <2>5 DEF Looping
<1>2. CASE Opens
  <2>1. /\ workers' \in 1..MaxStages
        /\ \A i \in 1..workers' : wpc'[i] = "pop" /\ head'[i] = 0
    <3>1. workers' \in 1..MaxStages
      BY <1>2 DEF Opens
    <3>2. \A i \in 1..workers' : i \in Stage /\ i \in Queue /\ i <= workers'
      BY <3>1, StagesAssumption DEF Stage, Queue
    <3>3. QED
      BY <1>2, <3>1, <3>2 DEF Opens
  <2>2. joinable' \subseteq 1..workers'
    <3>1. joinable = {} /\ starts = 0 /\ starts' = 1
      BY <1>0, <1>2 DEF Opens, Lifecycle, Looping
    <3>2. PICK c \in Clients : SubmitPush(c)
      BY <3>1 DEF Next, ClientStep, OwnerStep, StopStep, WorkerStep, WorkerPop,
                  WorkerExit, StageReturns, StageFails, StageThrows, AddStage,
                  SubmitCheck, StopBegin, StopJoin, DrainFrame, DrainEnd, StopFinish,
                  CollectResults, Destroy, build
    <3>3. joinable' = joinable \union (1..stages) /\ workers' = stages
      BY <3>1, <3>2 DEF SubmitPush, Start
    <3>4. QED
      BY <3>1, <3>3
  <2>3. QED
    BY <2>1, <2>2 DEF Looping
<1>3. CASE Quiet
  <2>1. UNCHANGED <<workers, wpc, starts>> /\ \A i \in 1..workers : head'[i] = head[i]
    BY <1>0, <1>3 DEF Quiet, Output
  <2>2. joinable' \subseteq joinable
    BY <1>0, <2>1 DEF Next, ClientStep, OwnerStep, StopStep, WorkerStep, WorkerPop,
                WorkerExit, StageReturns, StageFails, StageThrows, AddStage, SubmitPush,
                Start, SubmitCheck, StopBegin, StopJoin, DrainFrame, DrainEnd,
                StopFinish, CollectResults, Destroy, build
  <2>3. QED
    BY <1>0, <1>a, <2>1, <2>2 DEF Looping
<1>4. QED
  BY <1>1, <1>2, <1>3, ClientsOnConveyor

LEMMA Forwarding == Spec => [](Thrown /\ SentinelSent /\ Looping)
<1>1. Init => Thrown /\ SentinelSent /\ Looping
  BY DEF Init, Clients, Thrown, SentinelSent, Stopping, Looping
<1>2. /\ Inv /\ Thrown /\ SentinelSent /\ Looping /\ [Next]_vars
      => (Thrown /\ SentinelSent /\ Looping)'
  <2>1. CASE Next
    BY <2>1, ThrownStep, SentinelSentStep, LoopingStep DEF Inv
  <2>2. CASE UNCHANGED vars
    <3>1. /\ UNCHANGED <<starts, workers, joinable, log, head, closed, cpc>>
          /\ UNCHANGED <<aborted, stopped_, wpc>>
      BY <2>2 DEF vars, build, flags, queues, clients
    <3>2. QED
      BY <3>1 DEF Thrown, SentinelSent, Stopping, Looping
  <2>3. QED
    BY <2>1, <2>2
<1>3. QED
  BY <1>1, <1>2, Invariance, PTL DEF Spec

\* A set of naturals that is not empty has a least element.
LEMMA LeastNumber ==
  ASSUME NEW S \in SUBSET Nat, S # {}
  PROVE  \E n \in S : \A m \in S : n <= m
<1> DEFINE R == {ss \in Nat \X Nat : ss[1] < ss[2]}
<1>1. IsWellFoundedOn(R, Nat)
  BY NatLessThanWellFounded, Zenon DEF OpToRel
<1>2. PICK n \in S : \A m \in S : ~(<<m, n>> \in R)
  <2> HIDE DEF R
  <2>1. QED
    BY <1>1, WFMin, Zenon
<1>3. \A m \in S : ~(m < n)
  BY <1>2
<1>4. QED
  BY <1>3

\* A worker that cannot go on has exited, or has popped all there is; what it has
\* popped it has handed on.
LEMMA Resting ==
  ASSUME Inv, Thrown, Looping, starts <= 1, ~aborted,
         NEW i \in 1..workers, ~CanGoOn(i)
  PROVE  /\ wpc[i] = "exited" \/ head[i] = Len(log[i])
         /\ head[i] = Len(log[i + 1])
         /\ i \in Queue /\ i + 1 \in Queue /\ i \in 1..Output /\ i + 1 \in 1..Output
<1>1. /\ TypeOK /\ workers \in Nat /\ workers <= MaxStages /\ QueuesOK /\ Balance
  BY Kinds, TypeParts DEF Inv
<1>2. i \in Stage /\ i \in Queue /\ i + 1 \in Queue
  BY <1>1, StagesAssumption DEF Stage, Queue
<1>3. wpc[i] \in {"pop", "process", "exited", "threw", "none"} /\ wpc[i] # "none"
  BY <1>1, <1>2, Kinds DEF Looping
<1>4. wpc[i] \in {"pop", "exited"}
  BY <1>2, <1>3 DEF CanGoOn, Thrown
<1>5. wpc[i] = "exited" \/ head[i] = Len(log[i])
  BY <1>4 DEF CanGoOn, Empty
<1>6. head[i] = Len(log[i + 1])
  <2>1. Len(log[i + 1]) \in Nat
    BY <1>1, <1>2, LenProperties DEF QueuesOK
  <2>2. InFlight(i) = 0
    BY <1>4 DEF InFlight
  <2>3. head[i] = Len(log[i + 1]) + InFlight(i)
    BY <1>1 DEF Balance
  <2>4. QED
    BY <2>1, <2>2, <2>3
<1>7. QED
  BY <1>1, <1>2, <1>5, <1>6 DEF Output

\* When no worker can go on while stop() joins, all have exited: the first one that
\* has not would have a nullptr in what it has popped.
LEMMA JoinFinds ==
  ASSUME Inv, Thrown, SentinelSent, Looping, starts <= 1, ~aborted, Stopping,
         \A i \in 1..workers : ~CanGoOn(i)
  PROVE  AllExited
<1> DEFINE S == {i \in 1..workers : wpc[i] # "exited"}
<1> SUFFICES ASSUME S # {} PROVE FALSE
  BY DEF AllExited
<1>0. TypeOK /\ workers \in Nat /\ QueuesOK /\ Sentinels
  BY Kinds, TypeParts DEF Inv
<1>1. S \in SUBSET Nat
  BY <1>0
<1>2. PICK n \in S : \A m \in S : n <= m
  BY <1>1, LeastNumber
<1>3. /\ n \in 1..workers /\ n \in Queue /\ head[n] = Len(log[n])
      /\ \A k \in 1..Len(log[n]) : log[n][k] # NoFrame
  BY Resting DEF Looping
<1>4. CASE n = 1
  BY <1>3, <1>4 DEF SentinelSent
<1>5. CASE n # 1
  <2>1. n - 1 \in 1..workers /\ n - 1 \notin S /\ n = (n - 1) + 1
    BY <1>0, <1>2, <1>3, <1>5
  <2>2. Len(log[n]) > 0 /\ log[n][Len(log[n])] = NoFrame
    BY <1>0, <2>1 DEF Sentinels
  <2>3. Len(log[n]) \in Nat
    BY <1>0, <1>3, LenProperties DEF QueuesOK
  <2>4. QED
    BY <1>3, <2>2, <2>3
<1>6. QED
  BY <1>4, <1>5

\* When no worker can go on, whatever came in has come out, down to a break: the
\* first worker that handed on less than k items has exited.
LEMMA AllOut ==
  ASSUME Inv, Nulls, Thrown, Looping, starts <= 1, ~aborted,
         \A i \in 1..workers : ~CanGoOn(i),
         NEW k \in 1..Len(log[1]), ~(Len(log[Output]) >= k)
  PROVE  \E j \in 1..k : Breaks(j)
<1> DEFINE S == {i \in 1..workers : Len(log[i + 1]) < k}
<1>0. /\ TypeOK /\ workers \in Nat /\ QueuesOK /\ Sentinels /\ Output \in Queue
      /\ 1 \in Queue
      /\ \A j \in Queue : Len(log[j]) \in Nat
  BY Kinds, TypeParts, OutputIsQueue, LenProperties DEF Inv, QueuesOK
<1>1. S \in SUBSET Nat /\ S # {}
  <2>1. workers # 0
    BY <1>0 DEF Output
  <2>2. workers \in S
    BY <1>0, <2>1 DEF Output
  <2>3. S \in SUBSET Nat
    BY <1>0
  <2>4. QED
    BY <2>2, <2>3
<1>2. PICK n \in S : \A m \in S : n <= m
  BY <1>1, LeastNumber
<1>3. /\ n \in 1..workers /\ (wpc[n] = "exited" \/ head[n] = Len(log[n]))
      /\ head[n] = Len(log[n + 1]) /\ Len(log[n + 1]) < k
      /\ n \in Queue /\ n + 1 \in Queue /\ n + 1 \in 1..Output
  BY Resting
<1>4. Len(log[n]) >= k
  <2>1. CASE n = 1
    BY <1>0, <2>1
  <2>2. CASE n # 1
    <3>1. n - 1 \in 1..workers /\ n - 1 \notin S /\ n = (n - 1) + 1
      BY <1>0, <1>2, <1>3, <2>2
    <3>2. QED
      BY <1>0, <1>3, <3>1
  <2>3. QED
    BY <2>1, <2>2
<1>5. wpc[n] = "exited"
  BY <1>0, <1>3, <1>4
<1>6. Len(log[n + 1]) > 0 /\ log[n + 1][Len(log[n + 1])] = NoFrame
  BY <1>0, <1>3, <1>5 DEF Sentinels
<1>7. Len(log[n + 1]) \in 1..Len(log[n + 1]) /\ Len(log[n + 1]) \in 1..k
  BY <1>0, <1>3, <1>6
<1>8. Breaks(Len(log[n + 1]))
  BY <1>3, <1>6, <1>7 DEF Nulls
<1>9. QED
  BY <1>7, <1>8

\* For any number of stages and frames and any failures, nothing gets stuck: what
\* was submitted comes out, stop() finds its workers gone, and its drain never
\* waits for an item that nobody will push.
THEOREM NeverStuckHolds == Spec => []NeverStuck
<1>1. ASSUME Inv, Nulls, Thrown, SentinelSent, Looping
      PROVE  NeverStuck
  <2>1. DrainNeverBlocks
    BY <1>1, InvDrains
  <2>2. ASSUME ~aborted, starts <= 1, \A i \in 1..workers : ~CanGoOn(i)
        PROVE  /\ \A k \in 1..Len(log[1]) :
                    Len(log[Output]) >= k \/ \E j \in 1..k : Breaks(j)
               /\ At(Owner, "join") => \A i \in joinable : wpc[i] = "exited"
    <3>1. \A k \in 1..Len(log[1]) : Len(log[Output]) >= k \/ \E j \in 1..k : Breaks(j)
      BY <1>1, <2>2, AllOut
    <3>2. ASSUME At(Owner, "join") PROVE \A i \in joinable : wpc[i] = "exited"
      <4>1. AllExited
        BY <1>1, <2>2, <3>2, JoinFinds DEF Stopping, At
      <4>2. joinable \subseteq 1..workers
        BY <1>1, <2>2 DEF Looping
      <4>3. QED
        BY <4>1, <4>2 DEF AllExited
    <3>3. QED
      BY <3>1, <3>2
  <2>3. QED
    BY <2>1, <2>2 DEF NeverStuck
<1>2. QED
  BY <1>1, Invariance, Breakage, Forwarding, PTL

-----------------------------------------------------------------------------
(***************************************************************************)
(* What clients see: OrderedPipeline                                       *)
(***************************************************************************)

\* A push into another queue than the first one is not seen by clients.
LEMMA InnerPush ==
  ASSUME QueuesOK, NEW i \in Stage, NEW x, Push(i + 1, x)
  PROVE  log'[1] = log[1]
<1>1. i + 1 # 1 /\ 1 \in Queue
  BY StagesAssumption DEF Stage, Queue
<1>2. QED
  BY <1>1 DEF QueuesOK, Push

LEMMA InputAccepts ==
  ASSUME QueuesOK, NEW x, Push(1, x), ~closed[1]
  PROVE  log'[1] = Append(log[1], x)
<1>1. 1 \in Queue
  BY StagesAssumption DEF Queue
<1>2. QED
  BY <1>1 DEF QueuesOK, Push

\* The drain appends the item it pops.
LEMMA DrainAppends ==
  ASSUME TypeOK, DrainFrame
  PROVE  Delivered' = Append(Delivered, Front(Output)) /\ Front(Output) \in Frames
<1>0. results_ \in Seq(Frames) /\ collected \in Seq(Frames)
  BY DEF TypeOK
<1>1. Front(Output) \in Frames
  <2>1. Output \in Queue /\ QueuesOK
    BY TypeParts, OutputIsQueue
  <2>2. head[Output] + 1 \in 1..Len(log[Output]) /\ log[Output] \in Seq(Items)
    BY <2>1, PopHead DEF DrainFrame, QueuesOK
  <2>3. Front(Output) \in Items
    BY <2>2, ElementOfSeq DEF Front
  <2>4. QED
    BY <2>3 DEF DrainFrame, Items
<1>2. Append(results_, Front(Output)) = results_ \o <<Front(Output)>>
  BY <1>0, <1>1, AppendIsConcat
<1>3. <<Front(Output)>> \in Seq(Frames)
  BY <1>1
<1>4. collected \o (results_ \o <<Front(Output)>>)
        = (collected \o results_) \o <<Front(Output)>>
  BY <1>0, <1>3, ConcatAssociative
<1>5. collected \o results_ \in Seq(Frames)
  BY <1>0, ConcatProperties
<1>6. Append(collected \o results_, Front(Output))
        = (collected \o results_) \o <<Front(Output)>>
  BY <1>1, <1>5, AppendIsConcat
<1>7. Delivered' = collected \o Append(results_, Front(Output))
  BY DEF DrainFrame, Delivered
<1>8. QED
  BY <1>1, <1>2, <1>4, <1>6, <1>7 DEF Delivered

\* The frame in a worker's hands was accepted, not delivered and not failed.
LEMMA InsideAccepted ==
  ASSUME Inv, OnePlace, AllKnown, HandsFull, NEW i \in Stage, wpc[i] = "process"
  PROVE  /\ InHand(i) \in Frames \ failed
         /\ InHand(i) \in Ordered!Elements(log[1])
         /\ InHand(i) \notin Ordered!Elements(Delivered)
<1>1. InHand(i) \in Frames
  <2>1. i \in Queue /\ TypeOK
    BY StagesAssumption DEF Stage, Queue, Inv
  <2>2. head[i] \in 1..Len(log[i]) /\ log[i] \in Seq(Items)
    BY <2>1, LenProperties DEF TypeOK
  <2>3. QED
    BY <2>2, ElementOfSeq DEF InHand, HandsFull, Items
<1>2. PICK f \in Frames : f = InHand(i)
  BY <1>1
<1>3. Located(f, "hand", i, 0)
  BY <1>2 DEF Located
<1>4. f \notin failed
  <2>1. ASSUME f \in failed PROVE Located(f, "failed", 0, 0)
    BY <2>1 DEF Located
  <2>2. QED
    BY <1>3, <2>1 DEF OnePlace
<1>5. \E k \in 1..Len(log[1]) : log[1][k] = f
  <2>1. ASSUME NEW c \in Clients, cpc[c] = "push", carg[c] = f PROVE FALSE
    <3>1. Located(f, "argument", c, 0)
      BY <2>1 DEF Located
    <3>2. QED
      BY <1>3, <3>1 DEF OnePlace
  <2>2. Known(f)
    BY <1>3 DEF AllKnown
  <2>3. QED
    BY <2>1, <2>2 DEF Known
<1>6. ASSUME NEW k \in 1..Len(Delivered), Delivered[k] = f PROVE FALSE
  <2>1. Located(f, "result", 0, k)
    BY <1>6 DEF Located
  <2>2. QED
    BY <1>3, <2>1 DEF OnePlace
<1>7. QED
  BY <1>2, <1>4, <1>5, <1>6 DEF Ordered!Elements

\* What a drain takes is the next frame, which did not fail.
LEMMA DrainDelivers ==
  ASSUME Inv, OnePlace, SentinelSent, DrainFrame
  PROVE  Ordered!Deliver
<1>0. /\ TypeOK /\ QueuesOK /\ Output \in Queue /\ 1 \in Queue /\ workers \in Nat
      /\ Conveyor /\ \A j \in Queue : Len(log[j]) \in Nat
  BY TypeParts, OutputIsQueue, Kinds, LenProperties DEF Inv, QueuesOK
<1>1. At(Owner, "drain") /\ Pop(Output) /\ Front(Output) # NoFrame
  BY DEF DrainFrame, Runs
<1>2. starts = 1 /\ stopped_ /\ Stopping /\ Len(Delivered) = head[Output]
  BY <1>1 DEF Inv, Lifecycle, Stopping, At, Drained
<1>3. ~closed[1]
  BY <1>0, <1>2 DEF SentinelSent
<1>4. PICK n : n = head[Output] + 1
  OBVIOUS
<1>5. /\ n \in 1..Len(log[Output]) /\ Front(Output) = log[Output][n]
      /\ n = Len(Delivered) + 1 /\ head[Output] \in Nat
  BY <1>0, <1>1, <1>2, <1>4, PopHead DEF Front, QueuesOK
<1>6. Output \in 1..Output
  BY <1>0 DEF Output
<1>7. /\ Len(log[Output]) <= Len(log[1])
      /\ \A k \in 1..Len(log[Output]) : log[Output][k] \in {log[1][k], NoFrame}
  BY <1>0, <1>2, <1>6 DEF Conveyor
<1>8. log[1][n] = Front(Output) /\ Len(Delivered) < Len(log[1])
  BY <1>0, <1>1, <1>2, <1>5, <1>7
<1>9. Delivered' = Append(Delivered, log[1][n]) /\ log[1][n] \in Frames
  BY <1>0, <1>8, DrainAppends
<1>10. log[1][n] \notin failed
  <2>1. PICK f \in Frames : f = log[1][n]
    BY <1>9
  <2>2. head[Output] < n
    BY <1>4, <1>5
  <2>3. Located(f, "queue", Output, n)
    BY <1>0, <1>5, <1>8, <2>1, <2>2 DEF Located
  <2>4. ASSUME f \in failed PROVE Located(f, "failed", 0, 0)
    BY <2>4 DEF Located
  <2>5. QED
    BY <2>1, <2>3, <2>4 DEF OnePlace
<1>11. /\ UNCHANGED <<log, failed, collected, stopped_, closed>>
  BY DEF DrainFrame, flags
<1>12. QED
  BY <1>1, <1>2, <1>3, <1>5, <1>8, <1>9, <1>10, <1>11
  DEF Ordered!Deliver, Ordered!Pending, Ordered!Break, Ordered!NextItem

LEMMA OrderedStep ==
  ASSUME Inv, OnePlace, AllKnown, HandsFull, Ended, SentinelSent, Next
  PROVE  Ordered!Next \/ UNCHANGED Ordered!vars
<1>0. /\ TypeOK /\ QueuesOK /\ 1 \in Queue /\ Output \in Queue /\ Owner \in Clients
      /\ workers \in Nat /\ ClientsOK /\ closed \in [Queue -> BOOLEAN]
  BY TypeParts, OutputIsQueue, Kinds DEF Inv, TypeOK
<1>1. Delivered \in Seq(Frames) /\ (~DrainFrame => Delivered' = Delivered)
  BY <1>0, Deliveries
<1>2. CASE DrainFrame
  BY <1>2, DrainDelivers DEF Ordered!Next
<1>3. ASSUME NEW c \in Clients, SubmitPush(c)
      PROVE  Ordered!Next \/ UNCHANGED Ordered!vars
  <2>1. cpc[c] = "push" /\ cpc'[c] = "idle"
    BY <1>0, <1>3, GoesMoves DEF SubmitPush
  <2>2. UNCHANGED <<collected, results_, failed, stopped_, closed>>
    BY <1>3 DEF SubmitPush, results
  <2>3. Delivered' = Delivered
    BY <2>2 DEF Delivered
  <2>4. Push(1, carg[c]) /\ carg[c] \in Frames \union {NoFrame}
    BY <1>0, <1>3 DEF SubmitPush, ClientsOK, Items
  <2>5. CASE closed[1]
    BY <2>2, <2>3, <2>4, <2>5 DEF Push, Ordered!vars
  <2>6. CASE ~closed[1]
    <3>1. log'[1] = Append(log[1], carg[c])
      BY <1>0, <2>4, <2>6, InputAccepts
    <3>2. Ordered!Submit(carg[c])
      BY <2>2, <2>3, <2>6, <3>1 DEF Ordered!Submit
    <3>3. QED
      BY <2>4, <3>2 DEF Ordered!Next
  <2>7. QED
    BY <2>5, <2>6
<1>4. CASE StopBegin
  <2>1. ~stopped_ /\ stopped_' = TRUE /\ Push(1, NoFrame)
    BY <1>4 DEF StopBegin
  <2>2. UNCHANGED <<collected, results_, failed, closed>>
    BY <1>4 DEF StopBegin, results
  <2>3. Delivered' = Delivered
    BY <2>2 DEF Delivered
  <2>4. ~closed[1]
    BY <1>0, <2>1 DEF SentinelSent
  <2>5. log'[1] = Append(log[1], NoFrame)
    BY <1>0, <2>1, <2>4, InputAccepts
  <2>6. QED
    BY <2>1, <2>2, <2>3, <2>5 DEF Ordered!Next, Ordered!Stop
<1>5. CASE StopFinish
  <2>1. cpc[Owner] = "finish" /\ UNCHANGED <<log, failed, results_, collected, stopped_>>
    BY <1>0, <1>5, GoesMoves DEF StopFinish, results
  <2>2. Delivered' = Delivered
    BY <2>1 DEF Delivered
  <2>3. stopped_ /\ ~closed[1]
    BY <1>0, <2>1 DEF Inv, Lifecycle, Stopping, SentinelSent
  <2>4. closed'[1]
    <3>1. 1 <= Output
      BY <1>0 DEF Output
    <3>2. QED
      BY <1>0, <1>5, <3>1 DEF StopFinish
  <2>5. closed'[1] = TRUE
    <3>1. closed'[1] = (closed[1] \/ 1 <= Output)
      BY <1>0, <1>5 DEF StopFinish
    <3>2. QED
      BY <2>4, <3>1
  <2>6. Len(Delivered) < Len(log[1]) /\ Breaks(Len(Delivered) + 1)
    BY <2>1 DEF Ended, At
  <2>7. QED
    BY <2>1, <2>2, <2>3, <2>5, <2>6
    DEF Ordered!Next, Ordered!Finish, Ordered!Pending, Ordered!Break, Ordered!NextItem,
        Breaks
<1>6. ASSUME NEW c \in Clients, CollectResults(c)
      PROVE  Ordered!Next
  <2>1. Delivered' = Delivered /\ collected' = Delivered
    BY <1>0, <1>6 DEF CollectResults, Delivered, TypeOK
  <2>2. UNCHANGED <<log, failed, stopped_, closed>>
    BY <1>6 DEF CollectResults, flags, queues
  <2>3. QED
    BY <2>1, <2>2 DEF Ordered!Next, Ordered!Collect
<1>7. ASSUME NEW i \in Stage, StageFails(i)
      PROVE  Ordered!Next
  <2>1. wpc[i] = "process" /\ failed' = failed \union {InHand(i)}
    BY <1>7 DEF StageFails, WorkerGoes
  <2>2. UNCHANGED <<collected, results_, stopped_, closed>>
    BY <1>7 DEF StageFails, results, flags
  <2>3. Delivered' = Delivered
    BY <2>2 DEF Delivered
  <2>4. log'[1] = log[1]
    BY <1>0, <1>7, InnerPush DEF StageFails
  <2>5. Ordered!Fail(InHand(i)) /\ InHand(i) \in Frames
    BY <2>1, <2>2, <2>3, <2>4, InsideAccepted DEF Ordered!Fail
  <2>6. QED
    BY <2>5 DEF Ordered!Next
<1>8. ASSUME NEW i \in Stage, WorkerStep(i), ~StageFails(i)
      PROVE  UNCHANGED Ordered!vars
  <2>1. UNCHANGED <<collected, results_, stopped_, closed, failed>>
    BY <1>8 DEF WorkerStep, WorkerPop, WorkerExit, StageReturns, StageThrows, results,
                flags, queues
  <2>2. Delivered' = Delivered
    BY <2>1 DEF Delivered
  <2>3. log'[1] = log[1]
    <3>1. CASE WorkerPop(i) \/ StageThrows(i)
      BY <3>1 DEF WorkerPop, StageThrows, queues
    <3>2. CASE WorkerExit(i) \/ StageReturns(i)
      BY <1>0, <3>2, InnerPush DEF WorkerExit, StageReturns
    <3>3. QED
      BY <1>8, <3>1, <3>2 DEF WorkerStep
  <2>4. QED
    BY <2>1, <2>2, <2>3 DEF Ordered!vars
<1>9. ASSUME \/ AddStage \/ StopJoin \/ DrainEnd \/ Destroy
             \/ \E c \in Clients : \E f \in Items : SubmitCheck(c, f)
      PROVE  UNCHANGED Ordered!vars
  <2>1. UNCHANGED <<collected, results_, stopped_, closed, failed, log>>
    BY <1>9 DEF AddStage, StopJoin, DrainEnd, Destroy, SubmitCheck, results, flags, queues
  <2>2. QED
    BY <2>1 DEF Ordered!vars, Delivered
<1>10. QED
  BY <1>2, <1>3, <1>4, <1>5, <1>6, <1>7, <1>8, <1>9
  DEF Next, ClientStep, OwnerStep, StopStep

\* For any number of stages and frames, with failures, concurrent clients and restarts:
\* a client sees nothing but what OrderedPipeline allows.
THEOREM ImplementsOrderedPipelineHolds == Spec => ImplementsOrderedPipeline
<1>1. Init => Ordered!Init
  <2>1. ASSUME Init PROVE Ordered!Init
    <3>1. 1 \in Queue
      BY StagesAssumption DEF Queue
    <3>2. Delivered = <<>> /\ Len(collected) = 0
      BY <2>1, ConcatEmptySeq DEF Init, Delivered
    <3>3. QED
      BY <2>1, <3>1, <3>2 DEF Init, Ordered!Init
  <2>2. QED
    BY <2>1
<1>2. /\ Inv /\ OnePlace /\ AllKnown /\ HandsFull /\ Ended /\ SentinelSent
      /\ [Next]_vars
      => [Ordered!Next]_(Ordered!vars)
  <2>1. CASE Next
    BY <2>1, OrderedStep
  <2>2. CASE UNCHANGED vars
    <3>1. UNCHANGED <<collected, results_, stopped_, closed, failed, log>>
      BY <2>2 DEF vars, results, flags, queues
    <3>2. QED
      BY <3>1 DEF Ordered!vars, Delivered
  <2>3. QED
    BY <2>1, <2>2
<1>3. QED
  BY <1>1, <1>2, Invariance, Places, Breakage, Forwarding, PTL
  DEF Spec, ImplementsOrderedPipeline, Ordered!Spec

-----------------------------------------------------------------------------
(***************************************************************************)
(* The queues between the workers: each one is a FifoQueue                 *)
(***************************************************************************)

\* An item at the end of s is not in a part that was there before.
LEMMA PartStays ==
  ASSUME NEW S, NEW s \in Seq(S), NEW x \in S,
         NEW m \in 1..(Len(s) + 1), NEW n \in 0..Len(s)
  PROVE  SubSeq(Append(s, x), m, n) = SubSeq(s, m, n)
<1>0. Len(s) \in Nat /\ m \in Int /\ n \in Int
  BY LenProperties
<1>1. CASE n < m
  BY <1>0, <1>1, SubSeqEmpty
<1>2. CASE ~(n < m)
  <2>1. m \in 1..Len(s) /\ n \in 1..Len(s)
    BY <1>0, <1>2
  <2>2. <<x>> \in Seq(S)
    OBVIOUS
  <2>3. Append(s, x) = s \o <<x>>
    BY AppendIsConcat
  <2>4. QED
    BY <2>1, <2>2, <2>3, SubSeqOfConcat1
<1>3. QED
  BY <1>1, <1>2

\* Popping the item behind the first h ones.
LEMMA PartsMove ==
  ASSUME NEW S, NEW s \in Seq(S), NEW h \in Nat, h < Len(s)
  PROVE  /\ SubSeq(s, h + 1, Len(s)) # <<>>
         /\ Head(SubSeq(s, h + 1, Len(s))) = s[h + 1]
         /\ Tail(SubSeq(s, h + 1, Len(s))) = SubSeq(s, h + 2, Len(s))
         /\ SubSeq(s, 1, h + 1) = Append(SubSeq(s, 1, h), s[h + 1])
<1>0. Len(s) \in Nat /\ h + 1 \in 1..Len(s) /\ Len(s) \in (h + 1)..Len(s) /\ 1 \in 1..Len(s)
  BY LenProperties
<1>1. /\ Head(SubSeq(s, h + 1, Len(s))) = s[h + 1]
      /\ Tail(SubSeq(s, h + 1, Len(s))) = SubSeq(s, (h + 1) + 1, Len(s))
  BY <1>0, HeadTailOfSubSeq
<1>2. \A k \in 1..Len(s) : s[k] \in S
  BY ElementOfSeq
<1>3. Len(SubSeq(s, h + 1, Len(s))) = Len(s) - (h + 1) + 1
  <2>1. \A k \in (h + 1)..Len(s) : s[k] \in S
    BY <1>0, <1>2
  <2>2. h + 1 \in Int /\ Len(s) \in Int /\ h + 1 <= Len(s)
    BY <1>0
  <2>3. QED
    BY <2>1, <2>2, SubSeqProperties
<1>4. SubSeq(s, h + 1, Len(s)) # <<>>
  <2>1. ASSUME NEW t, t = <<>>, Len(t) = Len(s) - (h + 1) + 1
        PROVE  FALSE
    BY <1>0, <2>1
  <2>2. QED
    BY <1>3, <2>1, Zenon
<1>5. SubSeq(s, 1, h + 1) = Append(SubSeq(s, 1, h), s[h + 1])
  <2>1. h + 1 \in 1..Len(s) /\ (h + 1) - 1 = h
    BY <1>0
  <2>2. SubSeq(s, 1, h + 1) = SubSeq(s, 1, h) \o <<s[h + 1]>>
    BY <1>0, <2>1, SubSeqRecursiveSecond
  <2>3. SubSeq(s, 1, h) \in Seq(S)
    <3>1. \A k \in 1..h : s[k] \in S
      BY <1>0, <1>2
    <3>2. QED
      BY <3>1, SubSeqProperties
  <2>4. QED
    BY <1>2, <2>1, <2>2, <2>3, AppendIsConcat
<1>6. h + 2 = (h + 1) + 1
  OBVIOUS
<1>7. QED
  BY <1>1, <1>4, <1>5, <1>6

\* One push at most to queue q, and none to another one.
LEMMA PushOne ==
  ASSUME QueuesOK, NEW q \in Queue, NEW x, Push(q, x)
  PROVE  /\ \A j \in Queue : j # q => log'[j] = log[j]
         /\ \/ log'[q] = log[q]
            \/ ~closed[q] /\ log'[q] = Append(log[q], x)
BY DEF QueuesOK, Push

\* What happens to queue i in a step: nothing, a push, a pop or its stop().
Untouched(i) == UNCHANGED <<log[i], head[i], closed[i]>>

Pushed(i) ==
  /\ ~closed[i]
  /\ \E x \in Items : log'[i] = Append(log[i], x)
  /\ UNCHANGED <<head[i], closed[i]>>

Popped(i) ==
  /\ ~Empty(i)
  /\ head'[i] = head[i] + 1
  /\ UNCHANGED <<log[i], closed[i]>>

Shut(i) == closed'[i] /\ UNCHANGED <<log[i], head[i]>>

OneOperation(i) == Untouched(i) \/ Pushed(i) \/ Popped(i) \/ Shut(i)

LEMMA WorkerOperates ==
  ASSUME TypeOK, NEW w \in Stage, WorkerStep(w), NEW i \in Queue
  PROVE  OneOperation(i)
<1> USE DEF OneOperation, Untouched
<1>0. QueuesOK /\ w \in Queue /\ w + 1 \in Queue /\ w # w + 1 /\ NoFrame \in Items
  BY TypeParts, StagesAssumption DEF Stage, Queue, Items
<1>1. UNCHANGED closed
  BY DEF WorkerStep, WorkerPop, WorkerExit, StageReturns, StageFails, StageThrows, queues
<1>2. CASE WorkerPop(w)
  BY <1>0, <1>1, <1>2, PopHead DEF WorkerPop, Pop, Popped
<1>3. CASE WorkerExit(w)
  <2>1. Push(w + 1, NoFrame) /\ (UNCHANGED head \/ Pop(w))
    BY <1>3 DEF WorkerExit, PopEnd
  <2>2. /\ \A j \in Queue : j # w + 1 => log'[j] = log[j]
        /\ \/ log'[w + 1] = log[w + 1]
           \/ ~closed[w + 1] /\ log'[w + 1] = Append(log[w + 1], NoFrame)
    BY <1>0, <2>1, PushOne
  <2>3. \/ UNCHANGED head
        \/ /\ ~Empty(w)
           /\ \A j \in Queue : head'[j] = IF j = w THEN head[j] + 1 ELSE head[j]
    BY <1>0, <2>1, PopHead DEF Pop
  <2>4. QED
    BY <1>0, <1>1, <2>2, <2>3 DEF Pushed, Popped
<1>4. CASE StageReturns(w) \/ StageFails(w)
  <2>1. PICK x \in Items : Push(w + 1, x)
    <3>1. CASE StageFails(w)
      BY <1>0, <3>1 DEF StageFails
    <3>2. CASE StageReturns(w)
      <4>1. head[w] \in 1..Len(log[w]) /\ log[w] \in Seq(Items)
        BY <1>0, <3>2, TypeParts, LenProperties DEF QueuesOK, WorkersOK, StageReturns, WorkerGoes
      <4>2. InHand(w) \in Items
        BY <4>1, ElementOfSeq DEF InHand
      <4>3. QED
        BY <3>2, <4>2 DEF StageReturns
    <3>3. QED
      BY <1>4, <3>1, <3>2
  <2>2. UNCHANGED head
    BY <1>4 DEF StageReturns, StageFails
  <2>3. /\ \A j \in Queue : j # w + 1 => log'[j] = log[j]
        /\ \/ log'[w + 1] = log[w + 1]
           \/ ~closed[w + 1] /\ log'[w + 1] = Append(log[w + 1], x)
    BY <1>0, <2>1, PushOne
  <2>4. QED
    BY <1>0, <1>1, <2>2, <2>3 DEF Pushed
<1>5. CASE StageThrows(w)
  BY <1>5 DEF StageThrows, queues
<1>6. QED
  BY <1>2, <1>3, <1>4, <1>5 DEF WorkerStep

LEMMA ClientOperates ==
  ASSUME TypeOK, NEW i \in Queue,
         OwnerStep \/ \E c \in Clients : ClientStep(c)
  PROVE  OneOperation(i)
<1> USE DEF OneOperation, Untouched
<1>0. /\ QueuesOK /\ ClientsOK /\ 1 \in Queue /\ Output \in Queue /\ NoFrame \in Items
      /\ closed \in [Queue -> BOOLEAN]
  BY TypeParts, OutputIsQueue DEF Items, TypeOK
<1>1. ASSUME NEW x \in Items, Push(1, x), UNCHANGED <<head, closed>>
      PROVE  OneOperation(i)
  <2>1. /\ \A j \in Queue : j # 1 => log'[j] = log[j]
        /\ \/ log'[1] = log[1]
           \/ ~closed[1] /\ log'[1] = Append(log[1], x)
    BY <1>0, <1>1, PushOne
  <2>2. QED
    BY <1>0, <1>1, <2>1 DEF Pushed
<1>2. ASSUME NEW c \in Clients, SubmitPush(c) PROVE OneOperation(i)
  <2>1. carg[c] \in Items /\ Push(1, carg[c]) /\ UNCHANGED <<head, closed>>
    BY <1>0, <1>2 DEF SubmitPush, ClientsOK
  <2>2. QED
    BY <1>1, <2>1
<1>3. CASE StopBegin
  <2>1. Push(1, NoFrame) /\ UNCHANGED <<head, closed>>
    BY <1>3 DEF StopBegin
  <2>2. QED
    BY <1>0, <1>1, <2>1
<1>4. CASE DrainFrame \/ DrainEnd
  <2>1. UNCHANGED <<log, closed>> /\ (UNCHANGED head \/ Pop(Output))
    BY <1>4 DEF DrainFrame, DrainEnd, PopEnd
  <2>2. UNCHANGED head
        \/ /\ ~Empty(Output)
           /\ \A j \in Queue : head'[j] = IF j = Output THEN head[j] + 1 ELSE head[j]
    BY <1>0, <2>1, PopHead DEF Pop
  <2>3. QED
    BY <1>0, <2>1, <2>2 DEF Popped
<1>5. CASE StopFinish
  <2>1. UNCHANGED <<log, head>> /\ closed'[i] = (closed[i] \/ i <= Output)
    BY <1>5 DEF StopFinish
  <2>2. CASE i <= Output
    BY <2>1, <2>2 DEF Shut
  <2>3. CASE ~(i <= Output)
    <3>1. closed'[i] = closed[i]
      BY <1>0, <2>1, <2>3
    <3>2. QED
      BY <2>1, <3>1
  <2>4. QED
    BY <2>2, <2>3
<1>6. ASSUME \/ AddStage \/ StopJoin \/ Destroy
             \/ \E c \in Clients : CollectResults(c) \/ \E f \in Items : SubmitCheck(c, f)
      PROVE  OneOperation(i)
  BY <1>6 DEF AddStage, StopJoin, Destroy, CollectResults, SubmitCheck, queues
<1>7. QED
  BY <1>2, <1>3, <1>4, <1>5, <1>6 DEF ClientStep, OwnerStep, StopStep

LEMMA QueueStep ==
  ASSUME TypeOK, Next, NEW i \in Queue
  PROVE  QueueOf(i)!Next \/ UNCHANGED QueueOf(i)!vars
<1> DEFINE s == log[i]
           h == head[i]
<1>0. /\ s \in Seq(Items) /\ h \in Nat /\ Len(s) \in Nat /\ h <= Len(s)
      /\ closed[i] \in BOOLEAN
  BY LenProperties, TypeParts DEF QueuesOK, TypeOK
<1>1. OneOperation(i)
  BY WorkerOperates, ClientOperates DEF Next
<1>2. CASE Untouched(i)
  BY <1>2 DEF Untouched, QueueOf!vars
<1>3. CASE Shut(i)
  <2>1. closed'[i] = TRUE
    <3>1. TypeOK'
      BY TypeStep
    <3>2. closed'[i] \in BOOLEAN
      BY <3>1 DEF TypeOK
    <3>3. QED
      BY <1>3, <3>2 DEF Shut
  <2>2. QueueOf(i)!Close
    BY <1>3, <2>1 DEF Shut, QueueOf!Close
  <2>3. QED
    BY <2>2 DEF QueueOf!Next
<1>4. CASE Pushed(i)
  <2>1. PICK x \in Items : log'[i] = Append(s, x)
    BY <1>4 DEF Pushed
  <2>2. head'[i] = h /\ closed'[i] = closed[i] /\ ~closed[i]
    BY <1>4 DEF Pushed
  <2>3. h + 1 \in 1..(Len(s) + 1) /\ h \in 0..Len(s) /\ Len(s) \in 0..Len(s)
        /\ 1 \in 1..(Len(s) + 1)
    BY <1>0
  <2>4. SubSeq(Append(s, x), 1, h) = SubSeq(s, 1, h)
    BY <1>0, <2>3, PartStays
  <2>5. SubSeq(Append(s, x), h + 1, Len(s)) = SubSeq(s, h + 1, Len(s))
    BY <1>0, <2>3, PartStays
  <2>6. /\ Append(s, x) \in Seq(Items) /\ Len(Append(s, x)) = Len(s) + 1
        /\ Append(s, x)[Len(s) + 1] = x
    BY <1>0, AppendProperties
  <2>7. SubSeq(s, h + 1, Len(s)) \in Seq(Items)
    <3>1. \A k \in (h + 1)..Len(s) : s[k] \in Items
      BY <1>0, ElementOfSeq
    <3>2. QED
      BY <1>0, <3>1, SubSeqProperties
  <2>8. SubSeq(Append(s, x), h + 1, Len(s) + 1) = Append(SubSeq(s, h + 1, Len(s)), x)
    <3>1. /\ h + 1 \in 1..Len(Append(s, x)) /\ Len(s) + 1 \in (h + 1)..Len(Append(s, x))
          /\ (Len(s) + 1) - 1 = Len(s)
      BY <1>0, <2>6
    <3>2. SubSeq(Append(s, x), h + 1, Len(s) + 1)
            = SubSeq(Append(s, x), h + 1, (Len(s) + 1) - 1) \o <<Append(s, x)[Len(s) + 1]>>
      BY <2>6, <3>1, SubSeqRecursiveSecond
    <3>3. SubSeq(Append(s, x), h + 1, Len(s) + 1) = SubSeq(s, h + 1, Len(s)) \o <<x>>
      BY <2>5, <2>6, <3>1, <3>2
    <3>4. QED
      BY <2>7, <3>3, AppendIsConcat
  <2>9. Len(log'[i]) = Len(s) + 1
    BY <2>1, <2>6
  <2>10. SubSeq(log'[i], head'[i] + 1, Len(log'[i])) = Append(SubSeq(s, h + 1, Len(s)), x)
    BY <2>1, <2>2, <2>8, <2>9
  <2>11. SubSeq(log'[i], 1, head'[i]) = SubSeq(s, 1, h)
    BY <2>1, <2>2, <2>4
  <2>12. QueueOf(i)!Push(x)
    BY <2>2, <2>10, <2>11 DEF QueueOf!Push
  <2>13. QED
    BY <2>12 DEF QueueOf!Next
<1>5. CASE Popped(i)
  <2>1. h < Len(s) /\ head'[i] = h + 1 /\ log'[i] = s /\ closed'[i] = closed[i]
    BY <1>0, <1>5 DEF Popped, Empty
  <2>2. /\ SubSeq(s, h + 1, Len(s)) # <<>>
        /\ Head(SubSeq(s, h + 1, Len(s))) = s[h + 1]
        /\ Tail(SubSeq(s, h + 1, Len(s))) = SubSeq(s, h + 2, Len(s))
        /\ SubSeq(s, 1, h + 1) = Append(SubSeq(s, 1, h), s[h + 1])
    BY <1>0, <2>1, PartsMove
  <2>3. (h + 1) + 1 = h + 2
    BY <1>0
  <2>4. SubSeq(log'[i], head'[i] + 1, Len(log'[i])) = Tail(SubSeq(s, h + 1, Len(s)))
    BY <2>1, <2>2, <2>3
  <2>5. SubSeq(log'[i], 1, head'[i])
          = Append(SubSeq(s, 1, h), Head(SubSeq(s, h + 1, Len(s))))
    BY <2>1, <2>2
  <2>6. QueueOf(i)!Pop(i)
    BY <2>1, <2>2, <2>4, <2>5 DEF QueueOf!Pop
  <2>7. QED
    BY <2>6 DEF QueueOf!Next
<1>6. QED
  BY <1>1, <1>2, <1>3, <1>4, <1>5 DEF OneOperation

\* Whatever workers and clients do, each queue of the pipeline goes through what
\* FifoQueue allows, the queue that BlockingQueue implements (ImplementsFifoQueueHolds):
\* the two refinements compose.
THEOREM QueuesAreFifo == ASSUME NEW i \in Queue PROVE Spec => QueueOf(i)!SafeSpec
<1>1. Init => QueueOf(i)!Init
  <2>1. ASSUME Init PROVE log[i] = <<>> /\ head[i] = 0 /\ closed[i] = FALSE
    BY <2>1 DEF Init
  <2>2. SubSeq(<<>>, 1, 0) = <<>>
    BY SubSeqEmpty
  <2>3. ASSUME Init
        PROVE  /\ SubSeq(log[i], head[i] + 1, Len(log[i])) = <<>>
               /\ SubSeq(log[i], 1, head[i]) = <<>>
    <3>1. Len(<<>>) = 0 /\ 0 + 1 = 1
      OBVIOUS
    <3>2. QED
      BY <2>1, <2>2, <2>3, <3>1
  <2>4. QED
    BY <2>1, <2>3 DEF QueueOf!Init
<1>2. TypeOK /\ [Next]_vars => [QueueOf(i)!Next]_(QueueOf(i)!vars)
  <2>1. CASE UNCHANGED vars
    BY <2>1 DEF vars, queues, QueueOf!vars
  <2>2. QED
    BY <2>1, QueueStep
<1>3. QED
  BY <1>1, <1>2, TypeCorrect, PTL DEF Spec, QueueOf!SafeSpec

-----------------------------------------------------------------------------
(***************************************************************************)
(* When the documentation is right: the two statements about stop() that   *)
(* do not hold for all clients and stages                                  *)
(***************************************************************************)

\* No submit() is under way when stop() begins, or later.
NoRace == stopped_ => \A c \in Clients : ~At(c, "push")

\* Nobody submits nullptr, and no stage has failed a frame.
NoBreak == failed = {} /\ \A c \in Clients : At(c, "push") => carg[c] # NoFrame

\* Only a submit() starts workers.
LEMMA RunningBegins ==
  ASSUME Next, ~running_, running_'
  PROVE  \E c \in Clients : At(c, "push")
  BY DEF Next, ClientStep, OwnerStep, StopStep, WorkerStep, WorkerPop, WorkerExit,
         StageReturns, StageFails, StageThrows, AddStage, SubmitCheck, SubmitPush, Start,
         StopBegin, StopJoin, DrainFrame, DrainEnd, StopFinish, CollectResults, Destroy,
         Goes, Runs, At, flags

\* What the first queue is given: arguments of submit(), and stop()'s sentinel.
LEMMA InputPushes ==
  ASSUME TypeOK, Next
  PROVE  \/ log'[1] = log[1] /\ (stopped_ => stopped_')
         \/ \E c \in Clients :
              At(c, "push") /\ Push(1, carg[c]) /\ stopped_' = stopped_
         \/ ~stopped_ /\ stopped_' /\ Push(1, NoFrame)
<1>0. QueuesOK
  BY TypeParts
<1>1. ASSUME NEW i \in Stage, WorkerStep(i)
      PROVE  log'[1] = log[1] /\ stopped_' = stopped_
  <2>1. CASE WorkerPop(i) \/ StageThrows(i)
    BY <2>1 DEF WorkerPop, StageThrows, queues, flags
  <2>2. CASE WorkerExit(i) \/ StageReturns(i) \/ StageFails(i)
    BY <1>0, <2>2, InnerPush DEF WorkerExit, StageReturns, StageFails, flags
  <2>3. QED
    BY <1>1, <2>1, <2>2 DEF WorkerStep
<1>2. ASSUME NEW c \in Clients, SubmitPush(c)
      PROVE  At(c, "push") /\ Push(1, carg[c]) /\ stopped_' = stopped_
  BY <1>2 DEF SubmitPush, Goes, Runs
<1>3. CASE StopBegin
  BY <1>3 DEF StopBegin
<1>4. ASSUME \/ AddStage \/ StopStep \/ Destroy
             \/ \E c \in Clients : CollectResults(c) \/ \E f \in Items : SubmitCheck(c, f)
      PROVE  log'[1] = log[1] /\ stopped_' = stopped_
  BY <1>4 DEF AddStage, StopStep, StopJoin, DrainFrame, DrainEnd, StopFinish, Destroy,
              CollectResults, SubmitCheck, flags, queues
<1>5. QED
  BY <1>1, <1>2, <1>3, <1>4 DEF Next, ClientStep, OwnerStep

LEMMA OnlySentinelStep ==
  ASSUME TypeOK, NoRace, NoBreak, OnlySentinel, Next
  PROVE  OnlySentinel'
<1>0. QueuesOK /\ 1 \in Queue /\ ClientsOK /\ NoFrame \in Items
  BY TypeParts, StagesAssumption DEF Queue, Items
<1>1. CASE log'[1] = log[1] /\ (stopped_ => stopped_')
  BY <1>1 DEF OnlySentinel
<1>2. ASSUME NEW x \in Items, Push(1, x), ~stopped_, stopped_' \/ x # NoFrame
      PROVE  OnlySentinel'
  <2>1. log'[1] = log[1] \/ log'[1] = Append(log[1], x)
    BY <1>0, <1>2 DEF QueuesOK, Push
  <2>2. \A k \in 1..Len(log[1]) : log[1][k] # NoFrame
    BY <1>2 DEF OnlySentinel
  <2>3. log[1] \in Seq(Items)
    BY <1>0 DEF QueuesOK
  <2>4. CASE log'[1] = log[1]
    BY <2>2, <2>4 DEF OnlySentinel
  <2>5. CASE log'[1] = Append(log[1], x)
    <3>1. /\ Len(log'[1]) = Len(log[1]) + 1 /\ Len(log[1]) \in Nat
          /\ log'[1][Len(log[1]) + 1] = x
          /\ \A k \in 1..Len(log[1]) : log'[1][k] = log[1][k]
      BY <2>3, <2>5, AppendProperties, LenProperties
    <3>2. \A k \in 1..Len(log'[1]) : k \in 1..Len(log[1]) \/ k = Len(log'[1])
      BY <3>1
    <3>3. QED
      BY <1>2, <2>2, <3>1, <3>2 DEF OnlySentinel
  <2>6. QED
    BY <2>1, <2>4, <2>5
<1>3. ASSUME NEW c \in Clients, At(c, "push"), Push(1, carg[c]), stopped_' = stopped_
      PROVE  OnlySentinel'
  <2>1. carg[c] \in Items /\ carg[c] # NoFrame /\ ~stopped_
    BY <1>0, <1>3 DEF ClientsOK, NoBreak, NoRace
  <2>2. QED
    BY <1>2, <1>3, <2>1
<1>4. QED
  BY <1>0, <1>1, <1>2, <1>3, InputPushes

\* A pipeline whose clients do not call submit() while they call stop() is not
\* started again: StopIsFinal needs the race, whatever stages and frames do.
THEOREM StopIsFinalWithoutRace == Spec /\ []NoRace => StopIsFinal
<1>1. NoRace /\ [Next]_vars => [StopReturned => ~running_']_vars
  <2> SUFFICES ASSUME NoRace, Next, StopReturned, running_' PROVE FALSE
    OBVIOUS
  <2>1. \A c \in Clients : ~At(c, "push")
    BY DEF NoRace, StopReturned
  <2>2. QED
    BY <2>1, RunningBegins DEF StopReturned
<1>2. QED
  BY <1>1, PTL DEF Spec, StopIsFinal

\* HealthyFramesDelivered is lost with a failed frame and in no other way: while no stage
\* has returned nullptr, stop()'s drain ends at the sentinel, behind all frames.
THEOREM HealthyFramesDeliveredWithoutFailure ==
  Spec => [](failed = {} => HealthyFramesDelivered)
<1>1. ASSUME TypeOK, ResultsInOrder, Ended, failed = {}, OnlySentinel, StopReturned,
             NEW k \in 1..Len(log[1]), ~Breaks(k)
      PROVE  \E j \in 1..Len(Delivered) : Delivered[j] = log[1][k]
  <2>1. Len(log[1]) \in Nat /\ Len(Delivered) \in Nat
    <3>1. log[1] \in Seq(Items) /\ collected \in Seq(Frames) /\ results_ \in Seq(Frames)
      BY <1>1, TypeParts, OutputIsQueue DEF QueuesOK, ResultsOK
    <3>2. QED
      BY <3>1, ConcatProperties, LenProperties DEF Delivered
  <2>2. Len(Delivered) < Len(log[1]) /\ Breaks(Len(Delivered) + 1)
    BY <1>1 DEF Ended
  <2>3. Len(Delivered) + 1 \in 1..Len(log[1])
    BY <2>1, <2>2
  <2>4. Len(Delivered) + 1 = Len(log[1])
    BY <1>1, <2>2, <2>3 DEF Breaks, OnlySentinel
  <2>5. k # Len(Delivered) + 1
    BY <1>1, <2>2
  <2>6. k \in 1..Len(Delivered)
    BY <2>1, <2>4, <2>5
  <2>7. QED
    BY <1>1, <2>6 DEF ResultsInOrder
<1>2. TypeOK /\ ResultsInOrder /\ Ended => (failed = {} => HealthyFramesDelivered)
  BY <1>1 DEF HealthyFramesDelivered
<1>3. Inv => TypeOK /\ ResultsInOrder
  BY DEF Inv
<1>4. QED
  BY <1>2, <1>3, Invariance, Breakage, PTL

\* What clients have to do for that: submit no nullptr, and call no submit() while they
\* call stop().  If no stage fails either, everything that was submitted is delivered.
THEOREM HealthyFramesDeliveredWithoutBreak ==
  Spec /\ [](NoRace /\ NoBreak) => [](OnlySentinel /\ HealthyFramesDelivered)
<1>1. Init => OnlySentinel
  <2>1. ASSUME Init PROVE Len(log[1]) = 0
    BY <2>1, StagesAssumption, EmptySeq DEF Init, Queue
  <2>2. QED
    BY <2>1 DEF OnlySentinel
<1>2. TypeOK /\ NoRace /\ NoBreak /\ OnlySentinel /\ [Next]_vars => OnlySentinel'
  <2>1. CASE UNCHANGED vars
    BY <2>1 DEF vars, queues, flags, OnlySentinel
  <2>2. QED
    BY <2>1, OnlySentinelStep
<1>3. NoBreak => failed = {}
  BY DEF NoBreak
<1>4. QED
  BY <1>1, <1>2, <1>3, TypeCorrect, HealthyFramesDeliveredWithoutFailure, PTL DEF Spec

\* A client alone cannot race with itself: with one thread stop() is final.
THEOREM StopIsFinalAlone == ASSUME Submitters = {} PROVE Spec => StopIsFinal
<1>1. Clients = {Owner}
  BY DEF Clients
<1>2. Init => NoRace
  BY DEF Init, NoRace
<1>3. TypeOK /\ NoRace /\ [Next]_vars => NoRace'
  <2> SUFFICES ASSUME TypeOK, NoRace, [Next]_vars, stopped_', At(Owner, "push")' PROVE FALSE
    BY <1>1 DEF NoRace, At
  <2>1. CASE UNCHANGED vars
    BY <1>1, <2>1 DEF vars, flags, clients, NoRace, At
  <2>2. CASE Next
    <3>1. UNCHANGED <<stopped_, cpc>> => FALSE
      BY <1>1 DEF NoRace, At
    <3>2. ASSUME NEW i \in Stage, WorkerStep(i) PROVE UNCHANGED <<stopped_, cpc>>
      BY <3>2 DEF WorkerStep, WorkerPop, WorkerExit, StageReturns, StageFails, StageThrows,
                  flags, clients
    <3>3. ASSUME NEW c \in Clients, ClientStep(c) PROVE FALSE
      <4>1. c = Owner
        BY <1>1
      <4>2. CASE \E f \in Items : SubmitCheck(c, f)
        BY <4>2 DEF SubmitCheck, flags
      <4>3. CASE SubmitPush(c)
        <5>1. cpc'[Owner] = "idle"
          BY <4>1, <4>3, GoesMoves DEF SubmitPush
        <5>2. QED
          BY <5>1 DEF At
      <4>4. CASE CollectResults(c)
        BY <3>1, <4>4 DEF CollectResults, flags, clients
      <4>5. QED
        BY <3>3, <4>2, <4>3, <4>4 DEF ClientStep
    <3>4. CASE AddStage \/ DrainFrame
      BY <3>1, <3>4 DEF AddStage, DrainFrame, flags, clients
    <3>5. CASE StopBegin \/ StopJoin \/ DrainEnd \/ StopFinish \/ Destroy
      <4>1. cpc'[Owner] \in {"join", "drain", "finish", "idle", "destroyed"}
        BY <1>1, <3>5, GoesMoves DEF StopBegin, StopJoin, DrainEnd, StopFinish, Destroy
      <4>2. QED
        BY <4>1 DEF At
    <3>6. QED
      BY <2>2, <3>1, <3>2, <3>3, <3>4, <3>5 DEF Next, OwnerStep, StopStep
  <2>3. QED
    BY <2>1, <2>2
<1>4. Spec => []NoRace
  BY <1>2, <1>3, TypeCorrect, PTL DEF Spec
<1>5. QED
  BY <1>4, StopIsFinalWithoutRace, PTL

=============================================================================

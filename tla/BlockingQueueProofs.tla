------------------------- MODULE BlockingQueueProofs -------------------------
(***************************************************************************)
(* Proofs about BlockingQueue, for any finite set of consumers and any     *)
(* producers, stoppers and values.                                         *)
(***************************************************************************)
EXTENDS BlockingQueue, FiniteSetTheorems, TLAPS

\* Every variable keeps its type; in particular each thread stays in the
\* locations of its role.
THEOREM TypeCorrect == Spec => []TypeOK
<1> USE DEF ProducerPC, ConsumerPC, StopperPC, Threads
<1>1. Init => TypeOK
  <2> SUFFICES ASSUME Init
               PROVE  TypeOK
    OBVIOUS
  <2>1. queue_ \in Seq(Values) /\ received \in [Consumers -> Seq(Values)]
    BY DEF Init
  <2>2. spurious \in 0..MaxSpurious
    BY SpuriousAssumption DEF Init
  <2>3. /\ pc \in [Threads -> ProducerPC \union ConsumerPC \union StopperPC]
        /\ \A t \in Threads : pc[t] = "idle"
    BY DEF Init
  <2>4. QED
    BY <2>1, <2>2, <2>3 DEF Init, TypeOK
<1>2. TypeOK /\ [Next]_vars => TypeOK'
  <2> SUFFICES ASSUME TypeOK, [Next]_vars
               PROVE  TypeOK'
    OBVIOUS
  <2> USE RolesAssumption, SpuriousAssumption DEF TypeOK, Go, Lock, Unlock
  <2>1. ASSUME NEW p \in Producers, NEW v \in Values, PushLock(p, v)
        PROVE  TypeOK'
    BY <2>1 DEF PushLock
  <2>2. ASSUME NEW p \in Producers, PushDrop(p)
        PROVE  TypeOK'
    BY <2>2 DEF PushDrop
  <2>3. ASSUME NEW p \in Producers, PushEnqueue(p)
        PROVE  TypeOK'
    BY <2>3 DEF PushEnqueue
  <2>4. ASSUME NEW p \in Producers, NotifyOne(p)
        PROVE  TypeOK'
    BY <2>4 DEF NotifyOne, Waiting
  <2>5. ASSUME NEW c \in Consumers, PopLock(c)
        PROVE  TypeOK'
    BY <2>5 DEF PopLock
  <2>6. ASSUME NEW c \in Consumers, PopTake(c)
        PROVE  TypeOK'
    BY <2>6 DEF PopTake
  <2>7. ASSUME NEW c \in Consumers, PopNullopt(c)
        PROVE  TypeOK'
    BY <2>7 DEF PopNullopt
  <2>8. ASSUME NEW c \in Consumers, PopUnready(c) \/ PopBlock(c)
        PROVE  TypeOK'
    BY <2>8 DEF PopUnready, PopBlock
  <2>9. ASSUME NEW c \in Consumers, SpuriousWakeup(c)
        PROVE  TypeOK'
    BY <2>9 DEF SpuriousWakeup
  <2>10. ASSUME NEW s \in Stoppers, StopLock(s) \/ StopSet(s)
         PROVE  TypeOK'
    BY <2>10 DEF StopLock, StopSet
  <2>11. ASSUME NEW s \in Stoppers, NotifyAll(s)
         PROVE  TypeOK'
    BY <2>11 DEF NotifyAll, Waiting
  <2>12. CASE UNCHANGED vars
    BY <2>12 DEF vars
  <2>13. QED
    BY <2>1, <2>2, <2>3, <2>4, <2>5, <2>6, <2>7, <2>8, <2>9, <2>10, <2>11, <2>12
    DEF Next, Push, Pop, FinishStop
<1>3. QED
  BY <1>1, <1>2, PTL DEF Spec

-----------------------------------------------------------------------------
(***************************************************************************)
(* No lost wakeup.  The two properties about sleeping consumers are        *)
(* inductive together with mutual exclusion and with what a consumer about *)
(* to block knows: it still holds the mutex, so its test of the predicate  *)
(* is not stale.                                                           *)
(***************************************************************************)
BlockIsFresh ==
  \A c \in Consumers : pc[c] = "block" => queue_ = <<>> /\ ~stop_

IInv ==
  /\ TypeOK
  /\ MutualExclusion
  /\ BlockIsFresh
  /\ NoLostWakeup
  /\ StopReachesWaiters

\* The consumers on their way to the queue are finitely many.
LEMMA AwakeFinite ==
  /\ IsFiniteSet(Awake) /\ Cardinality(Awake) \in Nat
  /\ IsFiniteSet(Awake') /\ Cardinality(Awake') \in Nat
BY FiniteAssumption, FS_Subset, FS_CardinalityType DEF Awake

\* Only the holder of the mutex can be in its critical section.
LEMMA MutualExclusionStep ==
  ASSUME TypeOK, MutualExclusion, Next
  PROVE  MutualExclusion'
<1> USE RolesAssumption
    DEF TypeOK, MutualExclusion, Critical, Go, Lock, Unlock, Threads,
        ProducerPC, ConsumerPC, StopperPC
<1>1. ASSUME NEW p \in Producers, NEW v \in Values, PushLock(p, v)
      PROVE  MutualExclusion'
  BY <1>1 DEF PushLock
<1>2. ASSUME NEW p \in Producers, Push(p)
      PROVE  MutualExclusion'
  <2>1. CASE PushDrop(p)
    BY <2>1 DEF PushDrop
  <2>2. CASE PushEnqueue(p)
    BY <2>2 DEF PushEnqueue
  <2>3. CASE NotifyOne(p)
    BY <2>3 DEF NotifyOne, Waiting
  <2>4. QED
    BY <1>2, <2>1, <2>2, <2>3 DEF Push
<1>3. ASSUME NEW c \in Consumers, Pop(c)
      PROVE  MutualExclusion'
  <2>1. CASE PopLock(c)
    BY <2>1 DEF PopLock
  <2>2. CASE PopTake(c)
    BY <2>2 DEF PopTake
  <2>3. CASE PopNullopt(c)
    BY <2>3 DEF PopNullopt
  <2>4. CASE PopUnready(c)
    BY <2>4 DEF PopUnready
  <2>5. CASE PopBlock(c)
    BY <2>5 DEF PopBlock
  <2>6. QED
    BY <1>3, <2>1, <2>2, <2>3, <2>4, <2>5 DEF Pop
<1>4. ASSUME NEW c \in Consumers, SpuriousWakeup(c)
      PROVE  MutualExclusion'
  BY <1>4 DEF SpuriousWakeup
<1>5. ASSUME NEW s \in Stoppers, StopLock(s) \/ StopSet(s)
      PROVE  MutualExclusion'
  BY <1>5 DEF StopLock, StopSet
<1>6. ASSUME NEW s \in Stoppers, NotifyAll(s)
      PROVE  MutualExclusion'
  BY <1>6 DEF NotifyAll, Waiting
<1>7. QED
  BY <1>1, <1>2, <1>3, <1>4, <1>5, <1>6 DEF Next, FinishStop

\* A consumer that found the predicate false holds the mutex until it is in
\* the wait set, so neither a push nor a stop() makes the test stale.
LEMMA BlockIsFreshStep ==
  ASSUME TypeOK, MutualExclusion, BlockIsFresh, Next
  PROVE  BlockIsFresh'
<1> USE RolesAssumption
    DEF TypeOK, MutualExclusion, Critical, BlockIsFresh, Go, Lock, Unlock,
        Threads, ProducerPC, ConsumerPC, StopperPC
<1>1. ASSUME NEW p \in Producers, NEW v \in Values, PushLock(p, v)
      PROVE  BlockIsFresh'
  BY <1>1 DEF PushLock
<1>2. ASSUME NEW p \in Producers, PushDrop(p) \/ PushEnqueue(p)
      PROVE  BlockIsFresh'
  <2>1. \A c \in Consumers : pc[c] # "block"
    BY <1>2 DEF PushDrop, PushEnqueue
  <2>2. QED
    BY <1>2, <2>1 DEF PushDrop, PushEnqueue
<1>3. ASSUME NEW p \in Producers, NotifyOne(p)
      PROVE  BlockIsFresh'
  BY <1>3 DEF NotifyOne, Waiting
<1>4. ASSUME NEW c \in Consumers, PopLock(c) \/ PopTake(c) \/ PopNullopt(c)
      PROVE  BlockIsFresh'
  <2>1. \A d \in Consumers \ {c} : pc[d] # "block"
    BY <1>4 DEF PopLock, PopTake, PopNullopt
  <2>2. QED
    BY <1>4, <2>1 DEF PopLock, PopTake, PopNullopt
<1>5. ASSUME NEW c \in Consumers, PopUnready(c) \/ PopBlock(c)
      PROVE  BlockIsFresh'
  BY <1>5 DEF PopUnready, PopBlock, Ready
<1>6. ASSUME NEW c \in Consumers, SpuriousWakeup(c)
      PROVE  BlockIsFresh'
  BY <1>6 DEF SpuriousWakeup
<1>7. ASSUME NEW s \in Stoppers, StopLock(s) \/ StopSet(s)
      PROVE  BlockIsFresh'
  <2>1. \A c \in Consumers : pc[c] # "block"
    BY <1>7 DEF StopLock, StopSet
  <2>2. QED
    BY <1>7, <2>1 DEF StopLock, StopSet
<1>8. ASSUME NEW s \in Stoppers, NotifyAll(s)
      PROVE  BlockIsFresh'
  BY <1>8 DEF NotifyAll, Waiting
<1>9. QED
  BY <1>1, <1>2, <1>3, <1>4, <1>5, <1>6, <1>7, <1>8
  DEF Next, Push, Pop, FinishStop

\* Every step keeps the queued values covered by awake consumers and a
\* pending notify_one().
LEMMA NoLostWakeupStep ==
  ASSUME TypeOK, MutualExclusion, BlockIsFresh, NoLostWakeup, Next
  PROVE  NoLostWakeup'
<1> USE RolesAssumption
    DEF TypeOK, Go, Lock, Unlock, Threads, ProducerPC, ConsumerPC, StopperPC
<1>a. ASSUME UNCHANGED queue_, Waiting' = {} \/ Waiting # {},
             Cardinality(Awake) <= Cardinality(Awake'), Notifying \subseteq Notifying'
      PROVE  NoLostWakeup'
  BY <1>a, AwakeFinite DEF NoLostWakeup
<1>1. ASSUME NEW p \in Producers, NEW v \in Values, PushLock(p, v)
      PROVE  NoLostWakeup'
  <2>1. Waiting' = Waiting /\ Awake' = Awake /\ Notifying' = Notifying
    BY <1>1 DEF PushLock, Waiting, Awake, Notifying
  <2>2. QED
    BY <1>1, <2>1 DEF PushLock, NoLostWakeup
<1>2. ASSUME NEW p \in Producers, PushDrop(p)
      PROVE  NoLostWakeup'
  <2>1. Waiting' = Waiting /\ Awake' = Awake /\ Notifying' = Notifying
    BY <1>2 DEF PushDrop, Waiting, Awake, Notifying
  <2>2. QED
    BY <1>2, <2>1 DEF PushDrop, NoLostWakeup
<1>3. ASSUME NEW p \in Producers, PushEnqueue(p)
      PROVE  NoLostWakeup'
  <2>1. Waiting' = Waiting /\ Awake' = Awake
    BY <1>3 DEF PushEnqueue, Waiting, Awake
  <2>2. Notifying = {}
    BY <1>3 DEF PushEnqueue, Notifying, MutualExclusion, Critical
  <2>3. p \in Notifying'
    BY <1>3 DEF PushEnqueue, Notifying
  <2>4. Len(queue_') = Len(queue_) + 1
    BY <1>3 DEF PushEnqueue
  <2>5. QED
    BY <2>1, <2>2, <2>3, <2>4, AwakeFinite DEF NoLostWakeup
<1>4. ASSUME NEW p \in Producers, NotifyOne(p)
      PROVE  NoLostWakeup'
  <2>1. CASE Waiting = {}
    <3>1. Waiting' = {}
      BY <1>4, <2>1 DEF NotifyOne, Waiting
    <3>2. QED
      BY <3>1 DEF NoLostWakeup
  <2>2. CASE Waiting # {}
    <3>1. PICK c \in Waiting : pc' = [pc EXCEPT ![p] = "idle", ![c] = "woken"]
      BY <1>4, <2>2 DEF NotifyOne
    <3>2. c \in Consumers /\ c \notin Awake /\ Awake' = Awake \union {c}
      BY <3>1 DEF Waiting, Awake
    <3>3. Cardinality(Awake') = Cardinality(Awake) + 1
      BY <3>2, AwakeFinite, FS_AddElement
    <3>4. UNCHANGED queue_
      BY <1>4 DEF NotifyOne
    <3>5. QED
      BY <2>2, <3>3, <3>4, AwakeFinite DEF NoLostWakeup
  <2>3. QED
    BY <2>1, <2>2
<1>5. ASSUME NEW c \in Consumers, PopLock(c)
      PROVE  NoLostWakeup'
  <2>1. Waiting' \subseteq Waiting /\ Notifying' = Notifying
    BY <1>5 DEF PopLock, Waiting, Notifying
  <2>2. Awake' = Awake \union {c}
    BY <1>5 DEF PopLock, Awake
  <2>3. Cardinality(Awake) <= Cardinality(Awake')
    <3>1. \/ Cardinality(Awake') = Cardinality(Awake)
          \/ Cardinality(Awake') = Cardinality(Awake) + 1
      BY <2>2, AwakeFinite, FS_AddElement
    <3>2. QED
      BY <3>1, AwakeFinite
  <2>4. QED
    BY <1>5, <1>a, <2>1, <2>3 DEF PopLock
<1>6. ASSUME NEW c \in Consumers, PopTake(c)
      PROVE  NoLostWakeup'
  <2>1. Waiting' = Waiting /\ Notifying = {}
    BY <1>6 DEF PopTake, Waiting, Notifying, MutualExclusion, Critical
  <2>2. c \in Awake /\ Awake' = Awake \ {c}
    BY <1>6 DEF PopTake, Awake
  <2>3. Cardinality(Awake') = Cardinality(Awake) - 1
    BY <2>2, AwakeFinite, FS_RemoveElement
  <2>4. Len(queue_') = Len(queue_) - 1
    BY <1>6 DEF PopTake
  <2>5. QED
    BY <2>1, <2>3, <2>4, AwakeFinite DEF NoLostWakeup
<1>7. ASSUME NEW c \in Consumers, PopNullopt(c) \/ PopUnready(c) \/ PopBlock(c)
      PROVE  NoLostWakeup'
  <2>1. queue_' = <<>>
    BY <1>7 DEF PopNullopt, PopUnready, PopBlock, Ready, BlockIsFresh
  <2>2. QED
    BY <2>1, AwakeFinite DEF NoLostWakeup
<1>8. ASSUME NEW c \in Consumers, SpuriousWakeup(c)
      PROVE  NoLostWakeup'
  <2>1. Waiting' \subseteq Waiting /\ Notifying' = Notifying
    BY <1>8 DEF SpuriousWakeup, Waiting, Notifying
  <2>2. Awake' = Awake \union {c}
    BY <1>8 DEF SpuriousWakeup, Awake
  <2>3. Cardinality(Awake) <= Cardinality(Awake')
    <3>1. \/ Cardinality(Awake') = Cardinality(Awake)
          \/ Cardinality(Awake') = Cardinality(Awake) + 1
      BY <2>2, AwakeFinite, FS_AddElement
    <3>2. QED
      BY <3>1, AwakeFinite
  <2>4. QED
    BY <1>8, <1>a, <2>1, <2>3 DEF SpuriousWakeup
<1>9. ASSUME NEW s \in Stoppers, StopLock(s) \/ StopSet(s)
      PROVE  NoLostWakeup'
  <2>1. Waiting' = Waiting /\ Awake' = Awake /\ Notifying' = Notifying
    BY <1>9 DEF StopLock, StopSet, Waiting, Awake, Notifying
  <2>2. QED
    BY <1>9, <2>1 DEF StopLock, StopSet, NoLostWakeup
<1>10. ASSUME NEW s \in Stoppers, NotifyAll(s)
       PROVE  NoLostWakeup'
  <2>1. Waiting' = {}
    BY <1>10 DEF NotifyAll, Waiting
  <2>2. QED
    BY <2>1 DEF NoLostWakeup
<1>11. QED
  BY <1>1, <1>2, <1>3, <1>4, <1>5, <1>6, <1>7, <1>8, <1>9, <1>10
  DEF Next, Push, Pop, FinishStop

\* A consumer never enters the wait set of a stopped queue, and the stop()
\* that finds consumers there has not notified yet.
LEMMA StopReachesWaitersStep ==
  ASSUME TypeOK, BlockIsFresh, StopReachesWaiters, Next
  PROVE  StopReachesWaiters'
<1> USE RolesAssumption
    DEF TypeOK, StopReachesWaiters, Waiting, Go, Lock, Unlock, Threads,
        ProducerPC, ConsumerPC, StopperPC
<1>1. ASSUME NEW p \in Producers, NEW v \in Values, PushLock(p, v)
      PROVE  StopReachesWaiters'
  BY <1>1 DEF PushLock
<1>2. ASSUME NEW p \in Producers, PushDrop(p) \/ PushEnqueue(p)
      PROVE  StopReachesWaiters'
  BY <1>2 DEF PushDrop, PushEnqueue
<1>3. ASSUME NEW p \in Producers, NotifyOne(p)
      PROVE  StopReachesWaiters'
  BY <1>3 DEF NotifyOne
<1>4. ASSUME NEW c \in Consumers, PopLock(c) \/ PopTake(c) \/ PopNullopt(c)
      PROVE  StopReachesWaiters'
  BY <1>4 DEF PopLock, PopTake, PopNullopt
<1>5. ASSUME NEW c \in Consumers, PopUnready(c)
      PROVE  StopReachesWaiters'
  BY <1>5 DEF PopUnready
<1>6. ASSUME NEW c \in Consumers, PopBlock(c)
      PROVE  StopReachesWaiters'
  <2>1. ~stop_'
    BY <1>6 DEF PopBlock, BlockIsFresh
  <2>2. QED
    BY <2>1
<1>7. ASSUME NEW c \in Consumers, SpuriousWakeup(c)
      PROVE  StopReachesWaiters'
  BY <1>7 DEF SpuriousWakeup
<1>8. ASSUME NEW s \in Stoppers, StopLock(s)
      PROVE  StopReachesWaiters'
  BY <1>8 DEF StopLock
<1>9. ASSUME NEW s \in Stoppers, StopSet(s)
      PROVE  StopReachesWaiters'
  <2>1. pc'[s] = "notify_all"
    BY <1>9 DEF StopSet
  <2>2. QED
    BY <2>1
<1>10. ASSUME NEW s \in Stoppers, NotifyAll(s)
       PROVE  StopReachesWaiters'
  BY <1>10 DEF NotifyAll
<1>11. QED
  BY <1>1, <1>2, <1>3, <1>4, <1>5, <1>6, <1>7, <1>8, <1>9, <1>10
  DEF Next, Push, Pop, FinishStop

THEOREM Invariance == Spec => []IInv
<1>1. Init => MutualExclusion /\ BlockIsFresh /\ NoLostWakeup /\ StopReachesWaiters
  <2> SUFFICES ASSUME Init
               PROVE  /\ MutualExclusion /\ BlockIsFresh
                      /\ NoLostWakeup /\ StopReachesWaiters
    OBVIOUS
  <2>1. \A t \in Threads : pc[t] = "idle"
    BY DEF Init
  <2>2. Waiting = {}
    BY <2>1 DEF Waiting, Threads
  <2>3. MutualExclusion
    BY <2>1, RolesAssumption DEF Init, MutualExclusion, Critical
  <2>4. QED
    BY <2>1, <2>2, <2>3
    DEF BlockIsFresh, NoLostWakeup, StopReachesWaiters, Threads
<1>2. IInv /\ TypeOK' /\ [Next]_vars => IInv'
  <2> SUFFICES ASSUME IInv, TypeOK', [Next]_vars
               PROVE  IInv'
    OBVIOUS
  <2>1. CASE Next
    BY <2>1, MutualExclusionStep, BlockIsFreshStep, NoLostWakeupStep,
       StopReachesWaitersStep DEF IInv
  <2>2. CASE UNCHANGED vars
    BY <2>2 DEF vars, IInv, MutualExclusion, BlockIsFresh, NoLostWakeup,
       StopReachesWaiters, Waiting, Awake, Notifying
  <2>3. QED
    BY <2>1, <2>2
<1>3. QED
  BY <1>1, <1>2, TypeCorrect, PTL DEF Spec, IInv

\* Mutual exclusion, for any number of threads.
THEOREM MutualExclusionHolds == Spec => []MutualExclusion
BY Invariance, PTL DEF IInv

\* A push wakes somebody whenever a sleeper is needed.
THEOREM NoLostWakeupHolds == Spec => []NoLostWakeup
BY Invariance, PTL DEF IInv

\* A stop() reaches every consumer that sleeps.
THEOREM StopReachesWaitersHolds == Spec => []StopReachesWaiters
BY Invariance, PTL DEF IInv

-----------------------------------------------------------------------------
(***************************************************************************)
(* Why nothing gets stuck                                                  *)
(***************************************************************************)

\* A consumer ended because the queue was stopped and empty, and so it stays.
Done == \A c \in Consumers : pc[c] = "done" => stop_ /\ queue_ = <<>>

LEMMA DoneStep ==
  ASSUME TypeOK, Done, [Next]_vars
  PROVE  Done'
<1> USE RolesAssumption DEF TypeOK, Go, Threads
<1>1. ASSUME NEW p \in Producers,
             (\E v \in Values : PushLock(p, v)) \/ PushDrop(p)
      PROVE  Done'
  BY <1>1 DEF PushLock, PushDrop, Done
<1>2. ASSUME NEW p \in Producers, PushEnqueue(p) PROVE Done'
  BY <1>2 DEF PushEnqueue, Done
<1>3. ASSUME NEW p \in Producers, NotifyOne(p) PROVE Done'
  BY <1>3 DEF NotifyOne, Waiting, Done
<1>4. ASSUME NEW c \in Consumers, PopLock(c) \/ PopUnready(c) \/ PopBlock(c) \/ SpuriousWakeup(c)
      PROVE  Done'
  BY <1>4 DEF PopLock, PopUnready, PopBlock, SpuriousWakeup, Done
<1>5. ASSUME NEW c \in Consumers, PopTake(c) PROVE Done'
  BY <1>5 DEF PopTake, Done
<1>6. ASSUME NEW c \in Consumers, PopNullopt(c) PROVE Done'
  BY <1>6 DEF PopNullopt, Ready, Done
<1>7. ASSUME NEW s \in Stoppers, StopLock(s) \/ StopSet(s) PROVE Done'
  BY <1>7 DEF StopLock, StopSet, Done
<1>8. ASSUME NEW s \in Stoppers, NotifyAll(s) PROVE Done'
  BY <1>8 DEF NotifyAll, Waiting, Done
<1>9. CASE UNCHANGED vars
  BY <1>9 DEF vars, Done
<1>10. QED
  BY <1>1, <1>2, <1>3, <1>4, <1>5, <1>6, <1>7, <1>8, <1>9
  DEF Next, Push, Pop, FinishStop

\* For any numbers of threads and values: a queue in which nobody can go on has
\* nothing to give and nobody to release.
THEOREM NeverStuckHolds == Spec => []NeverStuck
<1>1. Init => Done
  BY DEF Init, Threads, Done
<1>2. TypeOK /\ Done /\ [Next]_vars => Done'
  BY DoneStep
<1>3. TypeOK /\ IInv /\ Done => NeverStuck
  <2> SUFFICES ASSUME TypeOK, IInv, Done, \A t \in Threads : ~CanGo(t)
               PROVE  /\ mutex_ = NoThread
                      /\ \A c \in Consumers :
                           queue_ = <<>> /\ pc[c] = IF stop_ THEN "done" ELSE "waiting"
    BY DEF NeverStuck
  <2>1. \A t \in Threads : pc[t] \notin Critical \union {"notify_all"}
    BY DEF CanGo
  <2>2. mutex_ = NoThread
    BY <2>1 DEF TypeOK, IInv, MutualExclusion
  <2>3. \A c \in Consumers : pc[c] \in {"waiting", "done"}
    BY <2>1, <2>2 DEF CanGo, TypeOK, ConsumerPC, Critical, Threads
  <2>4. ASSUME Waiting # {} PROVE queue_ = <<>> /\ ~stop_
    <3>1. Awake = {} /\ Notifying = {}
      BY <2>1, <2>3 DEF Awake, Notifying, Threads, Critical
    <3>2. Len(queue_) <= Cardinality({})
      BY <2>4, <3>1 DEF IInv, NoLostWakeup
    <3>3. Len(queue_) <= 0
      BY <3>2, FS_EmptySet
    <3>4. queue_ = <<>>
      BY <3>3 DEF TypeOK
    <3>5. ~stop_
      BY <2>1, <2>4 DEF IInv, StopReachesWaiters, Threads
    <3>6. QED
      BY <3>4, <3>5
  <2>5. ASSUME NEW c \in Consumers
        PROVE  queue_ = <<>> /\ pc[c] = IF stop_ THEN "done" ELSE "waiting"
    BY <2>3, <2>4 DEF Done, Waiting
  <2>6. QED
    BY <2>2, <2>5
<1>4. QED
  BY <1>1, <1>2, <1>3, TypeCorrect, Invariance, PTL DEF Spec

-----------------------------------------------------------------------------
(***************************************************************************)
(* The monitor implements the FIFO queue (safety): pushing happens when    *)
(* the value is appended, popping when it is removed, closing when stop_   *)
(* is set; every other step is invisible.                                  *)
(***************************************************************************)
Finished == {c \in Consumers : pc[c] = "done"}

LEMMA StepImplements ==
  ASSUME TypeOK, [Next]_vars
  PROVE  [FQ!Next]_(FQ!vars)
<1> USE RolesAssumption
    DEF TypeOK, Go, Lock, Unlock, Threads, ProducerPC, ConsumerPC, StopperPC
<1>a. ASSUME UNCHANGED <<queue_, stop_, received>>, Finished' = Finished
      PROVE  [FQ!Next]_(FQ!vars)
  BY <1>a DEF FQ!vars, Finished
<1>1. ASSUME NEW p \in Producers, NEW v \in Values, PushLock(p, v)
      PROVE  [FQ!Next]_(FQ!vars)
  BY <1>1, <1>a DEF PushLock, Finished
<1>2. ASSUME NEW p \in Producers, PushDrop(p)
      PROVE  [FQ!Next]_(FQ!vars)
  BY <1>2, <1>a DEF PushDrop, Finished
<1>3. ASSUME NEW p \in Producers, PushEnqueue(p)
      PROVE  [FQ!Next]_(FQ!vars)
  <2>1. Finished' = Finished
    BY <1>3 DEF PushEnqueue, Finished
  <2>2. arg[p] \in Values /\ FQ!Push(arg[p])
    BY <1>3, <2>1 DEF PushEnqueue, FQ!Push, Finished
  <2>3. QED
    BY <2>2 DEF FQ!Next
<1>4. ASSUME NEW p \in Producers, NotifyOne(p)
      PROVE  [FQ!Next]_(FQ!vars)
  <2>1. Finished' = Finished
    BY <1>4 DEF NotifyOne, Waiting, Finished
  <2>2. QED
    BY <1>4, <1>a, <2>1 DEF NotifyOne
<1>5. ASSUME NEW c \in Consumers, PopLock(c)
      PROVE  [FQ!Next]_(FQ!vars)
  BY <1>5, <1>a DEF PopLock, Finished
<1>6. ASSUME NEW c \in Consumers, PopTake(c)
      PROVE  [FQ!Next]_(FQ!vars)
  <2>1. Finished' = Finished /\ c \notin Finished
    BY <1>6 DEF PopTake, Finished
  <2>2. FQ!Pop(c)
    BY <1>6, <2>1 DEF PopTake, FQ!Pop, Finished
  <2>3. QED
    BY <2>2 DEF FQ!Next
<1>7. ASSUME NEW c \in Consumers, PopNullopt(c)
      PROVE  [FQ!Next]_(FQ!vars)
  <2>1. c \notin Finished /\ Finished' = Finished \union {c}
    BY <1>7 DEF PopNullopt, Finished
  <2>2. FQ!PopNothing(c)
    BY <1>7, <2>1 DEF PopNullopt, Ready, FQ!PopNothing, Finished
  <2>3. QED
    BY <2>2 DEF FQ!Next
<1>8. ASSUME NEW c \in Consumers, PopUnready(c) \/ PopBlock(c) \/ SpuriousWakeup(c)
      PROVE  [FQ!Next]_(FQ!vars)
  BY <1>8, <1>a DEF PopUnready, PopBlock, SpuriousWakeup, Finished
<1>9. ASSUME NEW s \in Stoppers, StopLock(s)
      PROVE  [FQ!Next]_(FQ!vars)
  BY <1>9, <1>a DEF StopLock, Finished
<1>10. ASSUME NEW s \in Stoppers, StopSet(s)
       PROVE  [FQ!Next]_(FQ!vars)
  <2>1. Finished' = Finished
    BY <1>10 DEF StopSet, Finished
  <2>2. FQ!Close
    BY <1>10, <2>1 DEF StopSet, FQ!Close, Finished
  <2>3. QED
    BY <2>2 DEF FQ!Next
<1>11. ASSUME NEW s \in Stoppers, NotifyAll(s)
       PROVE  [FQ!Next]_(FQ!vars)
  <2>1. Finished' = Finished
    BY <1>11 DEF NotifyAll, Waiting, Finished
  <2>2. QED
    BY <1>11, <1>a, <2>1 DEF NotifyAll
<1>12. CASE UNCHANGED vars
  BY <1>12, <1>a DEF vars, Finished
<1>13. QED
  BY <1>1, <1>2, <1>3, <1>4, <1>5, <1>6, <1>7, <1>8, <1>9, <1>10, <1>11, <1>12
  DEF Next, Push, Pop, FinishStop

THEOREM ImplementsFifoQueueHolds == Spec => ImplementsFifoQueue
<1>1. Init => FQ!Init
  BY RolesAssumption DEF Init, FQ!Init, Threads
<1>2. TypeOK /\ [Next]_vars => [FQ!Next]_(FQ!vars)
  BY StepImplements
<1>3. QED
  BY <1>1, <1>2, TypeCorrect, PTL DEF Spec, ImplementsFifoQueue, FQ!SafeSpec

=============================================================================

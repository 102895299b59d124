-------------------------- MODULE ThreadPoolProofs --------------------------
(***************************************************************************)
(* Proofs about ThreadPool, for any number of workers, clients and tasks.  *)
(***************************************************************************)
EXTENDS ThreadPool, SequenceTheorems, FiniteSetTheorems, TLAPS

LEMMA PoolSizes ==
  /\ NumWorkers \in Nat \ {0}
  /\ \A c \in Clients : Barrier(c) \subseteq Barriers
  /\ Barriers \subseteq AnyTask /\ Tasks \subseteq AnyTask
  /\ \A c \in Clients, k \in 1..NumWorkers : <<c, k>> \in Barriers
<1>1. NumWorkers \in Nat /\ NumWorkers # 0
  BY PoolAssumption, FS_CardinalityType, FS_EmptySet DEF NumWorkers
<1>2. QED
  BY <1>1 DEF Barriers, Barrier, AnyTask

-----------------------------------------------------------------------------
(***************************************************************************)
(* Types                                                                   *)
(***************************************************************************)

\* What an action says of the pc of a worker or a client.
LEMMA WorkerMoves ==
  ASSUME TypeOK, NEW w \in Workers, NEW from, NEW to, WorkerGoes(w, from, to)
  PROVE  /\ wpc[w] \in from /\ wpc'[w] = to
         /\ \A v \in Workers \ {w} : wpc'[v] = wpc[v]
  BY DEF TypeOK, WorkerGoes

LEMMA ClientMoves ==
  ASSUME TypeOK, NEW c \in Clients, NEW from, NEW to, ClientGoes(c, from, to)
  PROVE  /\ cpc[c] = from /\ cpc'[c] = to
         /\ \A d \in Clients \ {c} : cpc'[d] = cpc[d]
  BY DEF TypeOK, ClientGoes

\* A notification wakes somebody, or nobody if nobody waits.
LEMMA NotifyMoves ==
  ASSUME TypeOK, NotifyOne \/ NotifyAll
  PROVE  /\ wpc' \in [Workers -> {"ready", "waiting", "woken", "running", "exited"}]
         /\ \A w \in Workers : wpc'[w] # wpc[w] => wpc[w] = "waiting" /\ wpc'[w] = "woken"
<1>1. CASE NotifyOne
  BY <1>1 DEF NotifyOne, Waiting, TypeOK
<1>2. CASE NotifyAll
  BY <1>2 DEF NotifyAll, Waiting, TypeOK
<1>3. QED
  BY <1>1, <1>2

LEMMA TypeStep ==
  ASSUME TypeOK, [Next]_vars
  PROVE  TypeOK'
<1> USE DEF TypeOK
<1>1. ASSUME NEW w \in Workers, WorkerTake(w) PROVE TypeOK'
  <2>1. Head(tasks_) \in AnyTask /\ Tail(tasks_) \in Seq(AnyTask)
    BY <1>1 DEF WorkerTake
  <2>2. Head(tasks_) # NoTask
    BY <2>1, PoolAssumption
  <2>3. QED
    BY <1>1, <2>1, <2>2 DEF WorkerTake, WorkerGoes, history
<1>2. ASSUME NEW w \in Workers, WorkerExit(w) \/ WorkerBlock(w) PROVE TypeOK'
  BY <1>2 DEF WorkerExit, WorkerBlock, WorkerGoes, history
<1>3. ASSUME NEW w \in Workers, WorkerRun(w) PROVE TypeOK'
  <2>1. cur[w] \in AnyTask
    BY <1>3 DEF WorkerRun, WorkerGoes
  <2>2. QED
    BY <1>3, <2>1 DEF WorkerRun, WorkerGoes, history
<1>4. ASSUME NEW w \in Workers, SpuriousWakeup(w) PROVE TypeOK'
  BY <1>4, PoolAssumption DEF SpuriousWakeup, WorkerGoes, history
<1>5. ASSUME NEW c \in Clients, NEW t \in Tasks, SubmitTask(c, t) PROVE TypeOK'
  BY <1>5, PoolSizes DEF SubmitTask, ClientGoes, workers
<1>6. ASSUME NEW c \in Clients, SubmitNotify(c) \/ BarrierNotify(c) PROVE TypeOK'
  <2>1. wpc' \in [Workers -> {"ready", "waiting", "woken", "running", "exited"}]
        /\ \A w \in Workers : wpc'[w] = "running" => wpc[w] = "running"
    BY <1>6, NotifyMoves DEF SubmitNotify, BarrierNotify
  <2>2. QED
    BY <1>6, <2>1 DEF SubmitNotify, BarrierNotify, ClientGoes, history
<1>7. ASSUME NEW c \in Clients, WaitBegin(c) PROVE TypeOK'
  BY <1>7 DEF WaitBegin, ClientGoes, workers
<1>8. ASSUME NEW c \in Clients, BarrierSubmit(c) PROVE TypeOK'
  <2>1. sent[c] \in 0..NumWorkers /\ sent[c] < NumWorkers /\ NumWorkers \in Nat
    BY <1>8, PoolSizes DEF BarrierSubmit
  <2>2. sent[c] + 1 \in 1..NumWorkers
    BY <2>1
  <2>3. <<c, sent[c] + 1>> \in AnyTask
    BY <2>2, PoolSizes
  <2>4. tasks_' \in Seq(AnyTask)
    BY <1>8, <2>3 DEF BarrierSubmit
  <2>5. sent' \in [Clients -> 0..NumWorkers]
    BY <1>8, <2>2, PoolSizes DEF BarrierSubmit
  <2>6. QED
    BY <1>8, <2>4, <2>5 DEF BarrierSubmit, ClientGoes, workers, history
<1>9. ASSUME NEW c \in Clients, WaitReturn(c) PROVE TypeOK'
  <2>1. 0 \in 0..NumWorkers
    BY PoolSizes
  <2>2. QED
    BY <1>9, <2>1 DEF WaitReturn, ClientGoes, workers
<1>10. CASE DestroyStop
  BY <1>10, PoolAssumption DEF DestroyStop, ClientGoes, workers, history
<1>11. CASE DestroyNotify
  <2>1. wpc' \in [Workers -> {"ready", "waiting", "woken", "running", "exited"}]
        /\ \A w \in Workers : wpc'[w] = "running" => wpc[w] = "running"
    BY <1>11, NotifyMoves DEF DestroyNotify
  <2>2. QED
    BY <1>11, <2>1, PoolAssumption DEF DestroyNotify, ClientGoes, history
<1>12. CASE DestroyJoin
  BY <1>12, PoolAssumption DEF DestroyJoin, ClientGoes, workers, history
<1>13. CASE UNCHANGED vars
  BY <1>13 DEF vars, workers, history
<1>14. QED
  BY <1>1, <1>2, <1>3, <1>4, <1>5, <1>6, <1>7, <1>8, <1>9, <1>10, <1>11, <1>12, <1>13
  DEF Next, WorkerStep, ClientCall, OwnerCall

\* Every variable of the pool keeps its type.
THEOREM TypeCorrect == Spec => []TypeOK
<1>1. Init => TypeOK
  <2>1. <<>> \in Seq(AnyTask) /\ 0 \in 0..NumWorkers /\ 0 \in 0..MaxSpurious
    BY PoolSizes, PoolAssumption
  <2>2. QED
    BY <2>1 DEF Init, TypeOK
<1>2. QED
  BY <1>1, TypeStep, PTL DEF Spec

-----------------------------------------------------------------------------
(***************************************************************************)
(* Where a task is                                                         *)
(***************************************************************************)
IsQueued(t) == \E i \in 1..Len(tasks_) : tasks_[i] = t
IsRunning(t) == \E w \in Workers : wpc[w] = "running" /\ cur[w] = t

\* TaskInOnePlace without cardinalities.
Place ==
  /\ \A i \in 1..Len(tasks_) : tasks_[i] \in Outstanding \ finished
  /\ \A i, j \in 1..Len(tasks_) : tasks_[i] = tasks_[j] => i = j
  /\ \A w \in Workers : wpc[w] = "running" =>
       cur[w] \in Outstanding \ finished /\ ~IsQueued(cur[w])
  /\ \A v, w \in Workers :
       wpc[v] = "running" /\ wpc[w] = "running" /\ cur[v] = cur[w] => v = w
  /\ finished \subseteq Outstanding
  /\ \A t \in Outstanding : t \in finished \/ IsQueued(t) \/ IsRunning(t)

\* A waitForAll() in progress has submitted its empty tasks, and only those;
\* before its tasks only earlier ones are queued.
Order ==
  /\ \A c \in Clients : cpc[c] \notin {"barrier", "barrier_notify"} => sent[c] = 0
  /\ \A c \in Clients : before[c] \subseteq submitted
  /\ \A c \in Clients : \A i \in 1..Len(tasks_) : tasks_[i] \in before[c] =>
       \A k \in 1..sent[c] : \E j \in 1..Len(tasks_) : i < j /\ tasks_[j] = <<c, k>>

\* A stopped pool is used by its destructor only, and workers leave it when
\* there is nothing left.
Ending ==
  /\ stop_ <=> cpc[Owner] \in {"dtor", "join", "destroyed"}
  /\ stop_ => \A c \in Clients \ {Owner} : cpc[c] = "idle"
  /\ \A w \in Workers : wpc[w] = "exited" => stop_ /\ tasks_ = <<>>
  /\ cpc[Owner] = "destroyed" => \A w \in Workers : wpc[w] = "exited"

Counting == IsFiniteSet(Notifying) /\ NoLostWakeup

\* Worker w runs none of the tasks in S.
Without(w, S) == ~(wpc[w] = "running" /\ cur[w] \in S)

\* When one empty task of a waitForAll() has been taken, all earlier tasks have
\* been, and the worker that took it is done with those it took itself.
Passed ==
  \A c \in Clients : \A k \in 1..sent[c] : ~IsQueued(<<c, k>>) =>
    /\ \A t \in before[c] : ~IsQueued(t)
    /\ \E w \in Workers : Without(w, before[c])

IInv ==
  TypeOK /\ Place /\ Order /\ Passed /\ Ending /\ StopReachesWorkers /\ Counting

LEMMA OutstandingTasks ==
  ASSUME TypeOK
  PROVE  Outstanding \subseteq AnyTask
  BY DEF TypeOK, Outstanding, AnyTask

\* A step that neither queues nor takes nor runs a task.
LEMMA PlaceSame ==
  ASSUME Place, tasks_' = tasks_, cur' = cur, finished' = finished,
         submitted' = submitted, sent' = sent,
         \A w \in Workers : wpc'[w] = "running" <=> wpc[w] = "running"
  PROVE  Place'
<1>1. Outstanding' = Outstanding
  BY DEF Outstanding
<1>2. \A t : IsQueued(t)' <=> IsQueued(t)
  BY DEF IsQueued
<1>3. \A t : IsRunning(t)' <=> IsRunning(t)
  BY DEF IsRunning
<1>4. QED
  BY <1>1, <1>2, <1>3 DEF Place

LEMMA PlaceTake ==
  ASSUME TypeOK, Place, NEW w \in Workers, WorkerTake(w)
  PROVE  Place'
<1>1. /\ tasks_ \in Seq(AnyTask) /\ tasks_ # <<>>
      /\ tasks_' = Tail(tasks_) /\ cur' = [cur EXCEPT ![w] = tasks_[1]]
      /\ wpc[w] # "running" /\ wpc' = [wpc EXCEPT ![w] = "running"]
      /\ finished' = finished /\ submitted' = submitted /\ sent' = sent
  BY DEF TypeOK, WorkerTake, WorkerGoes, Looking, history
<1>2. /\ Len(tasks_) \in Nat \ {0} /\ Len(tasks_') = Len(tasks_) - 1
      /\ \A i \in 1..Len(tasks_') : i + 1 \in 1..Len(tasks_) /\ tasks_'[i] = tasks_[i + 1]
  BY <1>1
<1>3. /\ cur'[w] = tasks_[1] /\ wpc'[w] = "running"
      /\ \A v \in Workers \ {w} : cur'[v] = cur[v] /\ wpc'[v] = wpc[v]
  BY <1>1 DEF TypeOK
<1>4. Outstanding' = Outstanding
  BY <1>1 DEF Outstanding
<1>5. \A t : IsQueued(t)' <=> IsQueued(t) /\ t # tasks_[1]
  <2>1. ASSUME NEW t, IsQueued(t)' PROVE IsQueued(t) /\ t # tasks_[1]
    <3>1. PICK i \in 1..Len(tasks_') : tasks_'[i] = t
      BY <2>1 DEF IsQueued
    <3>2. i + 1 \in 1..Len(tasks_) /\ tasks_[i + 1] = t /\ 1 \in 1..Len(tasks_) /\ i + 1 # 1
      BY <1>2, <3>1
    <3>3. QED
      BY <3>2 DEF Place, IsQueued
  <2>2. ASSUME NEW t, IsQueued(t), t # tasks_[1] PROVE IsQueued(t)'
    <3>1. PICK i \in 1..Len(tasks_) : tasks_[i] = t
      BY <2>2 DEF IsQueued
    <3>2. i - 1 \in 1..Len(tasks_') /\ (i - 1) + 1 = i
      BY <1>2, <2>2, <3>1
    <3>3. tasks_'[i - 1] = t
      BY <1>2, <3>1, <3>2
    <3>4. QED
      BY <3>2, <3>3 DEF IsQueued
  <2>3. QED
    BY <2>1, <2>2
<1>6. IsQueued(tasks_[1]) /\ tasks_[1] \in Outstanding \ finished
  BY <1>2 DEF IsQueued, Place
<1>7. \A t : IsRunning(t)' <=> IsRunning(t) \/ t = tasks_[1]
  BY <1>1, <1>3 DEF IsRunning
<1>8. \A i \in 1..Len(tasks_') : tasks_'[i] \in Outstanding \ finished
  BY <1>2 DEF Place
<1>9. \A i, j \in 1..Len(tasks_') : tasks_'[i] = tasks_'[j] => i = j
  <2> SUFFICES ASSUME NEW i \in 1..Len(tasks_'), NEW j \in 1..Len(tasks_'),
                      tasks_'[i] = tasks_'[j]
               PROVE  i = j
    OBVIOUS
  <2>1. i + 1 = j + 1
    BY <1>2 DEF Place
  <2>2. QED
    BY <2>1
<1>10. \A v \in Workers : wpc'[v] = "running" =>
         /\ cur'[v] \in Outstanding \ finished
         /\ \A i \in 1..Len(tasks_') : tasks_'[i] # cur'[v]
  <2> SUFFICES ASSUME NEW v \in Workers, wpc'[v] = "running"
               PROVE  /\ cur'[v] \in Outstanding \ finished
                      /\ \A i \in 1..Len(tasks_') : tasks_'[i] # cur'[v]
    OBVIOUS
  <2>1. CASE v = w
    BY <1>3, <1>5, <1>6, <2>1 DEF IsQueued
  <2>2. CASE v # w
    BY <1>2, <1>3, <2>2 DEF Place, IsQueued
  <2>3. QED
    BY <2>1, <2>2
<1>11. \A u, v \in Workers :
         wpc'[u] = "running" /\ wpc'[v] = "running" /\ cur'[u] = cur'[v] => u = v
  BY <1>3, <1>6 DEF Place
<1>12. \A t \in Outstanding : t \in finished \/ IsQueued(t)' \/ IsRunning(t)'
  BY <1>5, <1>7 DEF Place
<1>13. finished \subseteq Outstanding
  BY DEF Place
<1>14. (\A v \in Workers : wpc[v] = "running" =>
          cur[v] \in Outstanding \ finished /\ ~IsQueued(cur[v]))'
  BY <1>1, <1>4, <1>10 DEF IsQueued
<1>15. QED
  BY <1>1, <1>4, <1>8, <1>9, <1>11, <1>12, <1>13, <1>14 DEF Place

LEMMA PlaceRun ==
  ASSUME TypeOK, Place, NEW w \in Workers, WorkerRun(w)
  PROVE  Place'
<1>1. /\ tasks_' = tasks_ /\ cur' = cur
      /\ wpc[w] = "running" /\ wpc' = [wpc EXCEPT ![w] = "ready"]
      /\ finished' = finished \union {cur[w]} /\ submitted' = submitted /\ sent' = sent
  BY DEF WorkerRun, WorkerGoes, history
<1>2. wpc'[w] = "ready" /\ \A v \in Workers \ {w} : wpc'[v] = wpc[v]
  BY <1>1 DEF TypeOK
<1>3. Outstanding' = Outstanding
  BY <1>1 DEF Outstanding
<1>4. \A t : IsQueued(t)' <=> IsQueued(t)
  BY <1>1 DEF IsQueued
<1>5. \A t : IsRunning(t)' \/ t = cur[w] <=> IsRunning(t)
  BY <1>1, <1>2 DEF IsRunning
<1>6. \A i \in 1..Len(tasks_) : tasks_[i] # cur[w]
  BY <1>1 DEF Place, IsQueued
<1>7. \A v \in Workers : wpc'[v] = "running" => v # w /\ wpc[v] = "running" /\ cur[v] # cur[w]
  BY <1>1, <1>2 DEF Place
<1>8. QED
  BY <1>1, <1>3, <1>4, <1>5, <1>6, <1>7 DEF Place

\* submit() of a task, or of an empty task of waitForAll().
LEMMA PlaceAdd ==
  ASSUME TypeOK, Place, NEW t \in AnyTask, t \notin Outstanding,
         tasks_' = Append(tasks_, t), Outstanding' = Outstanding \union {t},
         wpc' = wpc, cur' = cur, finished' = finished
  PROVE  Place'
<1>1. /\ tasks_ \in Seq(AnyTask) /\ Len(tasks_) \in Nat
      /\ Len(tasks_') = Len(tasks_) + 1 /\ tasks_'[Len(tasks_) + 1] = t
      /\ \A i \in 1..Len(tasks_) : tasks_'[i] = tasks_[i]
  BY DEF TypeOK
<1>2. \A i \in 1..Len(tasks_') : i \in 1..Len(tasks_) \/ i = Len(tasks_) + 1
  BY <1>1
<1>3. 1..Len(tasks_) \subseteq 1..Len(tasks_') /\ Len(tasks_) + 1 \in 1..Len(tasks_')
  BY <1>1
<1>4. \A x : IsQueued(x)' <=> IsQueued(x) \/ x = t
  BY <1>1, <1>2, <1>3 DEF IsQueued
<1>5. \A x : IsRunning(x)' <=> IsRunning(x)
  BY DEF IsRunning
<1>6. t \notin finished /\ ~IsQueued(t) /\ ~IsRunning(t)
  BY DEF Place, IsQueued, IsRunning
<1>7. \A i \in 1..Len(tasks_') : tasks_'[i] \in Outstanding' \ finished'
  BY <1>1, <1>2, <1>6 DEF Place
<1>8. \A i, j \in 1..Len(tasks_') : tasks_'[i] = tasks_'[j] => i = j
  BY <1>1, <1>2, <1>6 DEF Place, IsQueued
<1>9. (\A w \in Workers : wpc[w] = "running" =>
         cur[w] \in Outstanding \ finished /\ ~IsQueued(cur[w]))'
  <2>1. ASSUME NEW w \in Workers, wpc[w] = "running"
        PROVE  /\ cur[w] \in Outstanding' \ finished' /\ cur[w] # t
               /\ \A i \in 1..Len(tasks_') : tasks_'[i] # cur[w]
    BY <1>1, <1>2, <1>6, <2>1 DEF Place, IsRunning, IsQueued
  <2>2. QED
    BY <2>1 DEF IsQueued
<1>10. QED
  BY <1>4, <1>5, <1>7, <1>8, <1>9 DEF Place

LEMMA PlaceReturn ==
  ASSUME TypeOK, Place, NEW c \in Clients, WaitReturn(c)
  PROVE  Place'
<1>1. /\ tasks_' = tasks_ /\ cur' = cur /\ wpc' = wpc /\ submitted' = submitted
      /\ sent[c] = NumWorkers /\ Barrier(c) \subseteq finished
      /\ finished' = finished \ Barrier(c) /\ sent' = [sent EXCEPT ![c] = 0]
  BY DEF WaitReturn, workers
<1>2. Outstanding' = Outstanding \ Barrier(c)
  <2>1. \A b \in Barriers : b \in Barrier(c) <=> b[1] = c
    BY DEF Barriers, Barrier
  <2>2. \A b \in Barriers : b[1] \in Clients /\ b[2] \in 1..NumWorkers
    BY DEF Barriers, Barrier
  <2>3. sent'[c] = 0 /\ \A d \in Clients \ {c} : sent'[d] = sent[d]
    BY <1>1 DEF TypeOK
  <2>4. NumWorkers \in Nat
    BY PoolSizes
  <2>5. \A b \in Barriers : b[2] <= sent'[b[1]] <=> b[2] <= sent[b[1]] /\ b \notin Barrier(c)
    <3> SUFFICES ASSUME NEW b \in Barriers
                 PROVE  b[2] <= sent'[b[1]] <=> b[2] <= sent[b[1]] /\ b \notin Barrier(c)
      OBVIOUS
    <3>1. CASE b[1] = c
      <4>1. b[2] \in 1..NumWorkers /\ sent'[b[1]] = 0 /\ b \in Barrier(c)
        BY <2>1, <2>2, <2>3, <3>1
      <4>2. ~(b[2] <= 0)
        BY <2>4, <4>1
      <4>3. QED
        BY <4>1, <4>2
    <3>2. CASE b[1] # c
      BY <2>1, <2>2, <2>3, <3>2
    <3>3. QED
      BY <3>1, <3>2
  <2>6. submitted \intersect Barrier(c) = {}
    BY PoolSizes, PoolAssumption DEF TypeOK
  <2>7. QED
    BY <1>1, <2>5, <2>6 DEF Outstanding
<1>3. \A t : IsQueued(t)' <=> IsQueued(t)
  BY <1>1 DEF IsQueued
<1>4. \A t : IsRunning(t)' <=> IsRunning(t)
  BY <1>1 DEF IsRunning
<1>5. QED
  BY <1>1, <1>2, <1>3, <1>4 DEF Place

LEMMA PlaceStep ==
  ASSUME TypeOK, Place, Order, [Next]_vars
  PROVE  Place'
<1>1. ASSUME NEW w \in Workers, WorkerTake(w) PROVE Place'
  BY <1>1, PlaceTake
<1>2. ASSUME NEW w \in Workers, WorkerRun(w) PROVE Place'
  BY <1>2, PlaceRun
<1>3. ASSUME NEW w \in Workers, WorkerExit(w) \/ WorkerBlock(w) \/ SpuriousWakeup(w)
      PROVE  Place'
  <2>1. \A v \in Workers : wpc'[v] = "running" <=> wpc[v] = "running"
    BY <1>3 DEF WorkerExit, WorkerBlock, SpuriousWakeup, WorkerGoes, Looking, TypeOK
  <2>2. QED
    BY <1>3, <2>1, PlaceSame DEF WorkerExit, WorkerBlock, SpuriousWakeup, history
<1>4. ASSUME NEW c \in Clients, NEW t \in Tasks, SubmitTask(c, t) PROVE Place'
  <2>1. t \in AnyTask /\ t \notin Outstanding
    BY <1>4, PoolAssumption, PoolSizes DEF SubmitTask, Outstanding
  <2>2. Outstanding' = Outstanding \union {t}
    BY <1>4 DEF SubmitTask, Outstanding
  <2>3. QED
    BY <1>4, <2>1, <2>2, PlaceAdd DEF SubmitTask, workers
<1>5. ASSUME NEW c \in Clients, BarrierSubmit(c) PROVE Place'
  <2> DEFINE b == <<c, sent[c] + 1>>
  <2>1. sent[c] \in 0..NumWorkers /\ sent[c] < NumWorkers /\ NumWorkers \in Nat
    BY <1>5, PoolSizes DEF BarrierSubmit, TypeOK
  <2>2. b \in Barriers /\ b[1] = c /\ b[2] = sent[c] + 1
    BY <2>1, PoolSizes
  <2>3. b \notin Outstanding
    BY <2>1, <2>2, PoolAssumption DEF Outstanding, TypeOK
  <2>4. /\ sent'[c] = sent[c] + 1 /\ \A d \in Clients \ {c} : sent'[d] = sent[d]
        /\ submitted' = submitted
    BY <1>5 DEF BarrierSubmit, TypeOK, history
  <2>5. \A x \in Barriers : x = <<x[1], x[2]>> /\ x[1] \in Clients /\ x[2] \in 1..NumWorkers
    BY DEF Barriers, Barrier
  <2>6. \A x \in Barriers : x[2] <= sent'[x[1]] <=> x[2] <= sent[x[1]] \/ x = b
    <3> SUFFICES ASSUME NEW x \in Barriers
                 PROVE  x[2] <= sent'[x[1]] <=> x[2] <= sent[x[1]] \/ x = b
      OBVIOUS
    <3>1. CASE x[1] = c
      <4>1. x[2] \in Nat /\ (x = b <=> x[2] = sent[c] + 1)
        BY <2>1, <2>2, <2>5, <3>1
      <4>2. QED
        BY <2>1, <2>4, <3>1, <4>1
    <3>2. CASE x[1] # c
      BY <2>2, <2>4, <2>5, <3>2
    <3>3. QED
      BY <3>1, <3>2
  <2>7. Outstanding' = Outstanding \union {b}
    BY <2>2, <2>4, <2>6 DEF Outstanding
  <2>8. b \in AnyTask
    BY <2>2, PoolSizes
  <2> HIDE DEF b
  <2>9. tasks_' = Append(tasks_, b)
    BY <1>5 DEF BarrierSubmit, b
  <2>10. QED
    BY <1>5, <2>3, <2>7, <2>8, <2>9, PlaceAdd DEF BarrierSubmit, workers
<1>6. ASSUME NEW c \in Clients, WaitReturn(c) PROVE Place'
  BY <1>6, PlaceReturn
<1>7. ASSUME NEW c \in Clients, SubmitNotify(c) \/ BarrierNotify(c) PROVE Place'
  <2>1. \A w \in Workers : wpc'[w] = "running" <=> wpc[w] = "running"
    BY <1>7, NotifyMoves DEF SubmitNotify, BarrierNotify
  <2>2. QED
    BY <1>7, <2>1, PlaceSame DEF SubmitNotify, BarrierNotify, history
<1>8. ASSUME NEW c \in Clients, WaitBegin(c) PROVE Place'
  BY <1>8, PlaceSame DEF WaitBegin, workers
<1>9. CASE DestroyStop \/ DestroyJoin
  BY <1>9, PlaceSame DEF DestroyStop, DestroyJoin, workers, history
<1>10. CASE DestroyNotify
  <2>1. \A w \in Workers : wpc'[w] = "running" <=> wpc[w] = "running"
    BY <1>10, NotifyMoves DEF DestroyNotify
  <2>2. QED
    BY <1>10, <2>1, PlaceSame DEF DestroyNotify, history
<1>11. CASE UNCHANGED vars
  BY <1>11, PlaceSame DEF vars, workers, history
<1>12. QED
  BY <1>1, <1>2, <1>3, <1>4, <1>5, <1>6, <1>7, <1>8, <1>9, <1>10, <1>11
  DEF Next, WorkerStep, ClientCall, OwnerCall

-----------------------------------------------------------------------------
(***************************************************************************)
(* The order of tasks and empty tasks                                      *)
(***************************************************************************)

LEMMA OrderSame ==
  ASSUME Order, tasks_' = tasks_, sent' = sent, before' = before,
         submitted \subseteq submitted',
         \A c \in Clients : cpc'[c] \notin {"barrier", "barrier_notify"} =>
           cpc[c] \notin {"barrier", "barrier_notify"}
  PROVE  Order'
  BY DEF Order

LEMMA OrderStep ==
  ASSUME TypeOK, Order, [Next]_vars
  PROVE  Order'
<1> DEFINE Calling == {"barrier", "barrier_notify"}
<1>1. ASSUME NEW w \in Workers, WorkerTake(w) PROVE Order'
  <2>1. /\ tasks_ \in Seq(AnyTask) /\ tasks_ # <<>> /\ tasks_' = Tail(tasks_)
        /\ sent' = sent /\ before' = before /\ submitted' = submitted /\ cpc' = cpc
    BY <1>1 DEF TypeOK, WorkerTake, history
  <2>2. /\ Len(tasks_) \in Nat \ {0} /\ Len(tasks_') = Len(tasks_) - 1
        /\ \A i \in 1..Len(tasks_') : i + 1 \in 1..Len(tasks_) /\ tasks_'[i] = tasks_[i + 1]
    BY <2>1
  <2>3. ASSUME NEW c \in Clients, NEW i \in 1..Len(tasks_'), tasks_'[i] \in before[c],
               NEW k \in 1..sent[c]
        PROVE  \E j \in 1..Len(tasks_') : i < j /\ tasks_'[j] = <<c, k>>
    <3>1. PICK j \in 1..Len(tasks_) : i + 1 < j /\ tasks_[j] = <<c, k>>
      BY <2>2, <2>3 DEF Order
    <3>2. j - 1 \in 1..Len(tasks_') /\ i < j - 1 /\ (j - 1) + 1 = j
      BY <2>2, <3>1
    <3>3. tasks_'[j - 1] = <<c, k>>
      BY <2>2, <3>1, <3>2
    <3>4. QED
      BY <3>2, <3>3
  <2>4. QED
    BY <2>1, <2>3 DEF Order
<1>2. ASSUME NEW w \in Workers, WorkerExit(w) \/ WorkerBlock(w) \/ SpuriousWakeup(w) \/ WorkerRun(w)
      PROVE  Order'
  BY <1>2, OrderSame DEF WorkerExit, WorkerBlock, SpuriousWakeup, WorkerRun, history
<1>3. ASSUME NEW c \in Clients, NEW t \in AnyTask, tasks_' = Append(tasks_, t)
      PROVE  /\ tasks_ \in Seq(AnyTask) /\ Len(tasks_) \in Nat
             /\ Len(tasks_') = Len(tasks_) + 1 /\ tasks_'[Len(tasks_')] = t
             /\ \A i \in 1..Len(tasks_') : i \in 1..Len(tasks_) \/ i = Len(tasks_')
             /\ \A i \in 1..Len(tasks_) : tasks_'[i] = tasks_[i] /\ i \in 1..Len(tasks_')
                                          /\ i < Len(tasks_')
             /\ Len(tasks_') \in 1..Len(tasks_')
  BY <1>3 DEF TypeOK
<1>4. ASSUME NEW c \in Clients, NEW t \in Tasks, SubmitTask(c, t) PROVE Order'
  <2>1. /\ tasks_' = Append(tasks_, t) /\ t \notin submitted /\ submitted' = submitted \union {t}
        /\ sent' = sent /\ before' = before /\ t \in AnyTask
    BY <1>4, PoolSizes DEF SubmitTask
  <2>2. \A d \in Clients : cpc'[d] \notin Calling => cpc[d] \notin Calling
    BY <1>4, ClientMoves DEF SubmitTask
  <2>3. \A d \in Clients : t \notin before[d]
    BY <2>1 DEF Order
  <2>4. ASSUME NEW d \in Clients, NEW i \in 1..Len(tasks_'), tasks_'[i] \in before[d],
               NEW k \in 1..sent[d]
        PROVE  \E j \in 1..Len(tasks_') : i < j /\ tasks_'[j] = <<d, k>>
    <3>1. i \in 1..Len(tasks_) /\ tasks_'[i] = tasks_[i]
      BY <1>3, <2>1, <2>3, <2>4
    <3>2. PICK j \in 1..Len(tasks_) : i < j /\ tasks_[j] = <<d, k>>
      BY <2>4, <3>1 DEF Order
    <3>3. QED
      BY <1>3, <2>1, <3>2
  <2>5. QED
    BY <2>1, <2>2, <2>4 DEF Order
<1>5. ASSUME NEW c \in Clients, BarrierSubmit(c) PROVE Order'
  <2> DEFINE b == <<c, sent[c] + 1>>
  <2>1. sent[c] \in 0..NumWorkers /\ sent[c] < NumWorkers /\ NumWorkers \in Nat
    BY <1>5, PoolSizes DEF BarrierSubmit, TypeOK
  <2>2. b \in Barriers /\ b \in AnyTask
    BY <2>1, PoolSizes
  <2>3. /\ tasks_' = Append(tasks_, b) /\ submitted' = submitted /\ before' = before
        /\ sent'[c] = sent[c] + 1 /\ \A d \in Clients \ {c} : sent'[d] = sent[d]
        /\ cpc[c] \in Calling /\ cpc'[c] \in Calling
        /\ \A d \in Clients \ {c} : cpc'[d] = cpc[d]
    BY <1>5, ClientMoves DEF BarrierSubmit, TypeOK, history
  <2>4. \A d \in Clients : b \notin before[d]
    BY <2>2, PoolAssumption DEF TypeOK
  <2>5. ASSUME NEW d \in Clients, NEW i \in 1..Len(tasks_'), tasks_'[i] \in before[d],
               NEW k \in 1..sent'[d]
        PROVE  \E j \in 1..Len(tasks_') : i < j /\ tasks_'[j] = <<d, k>>
    <3> HIDE DEF b
    <3>1. i \in 1..Len(tasks_) /\ tasks_'[i] = tasks_[i]
      BY <1>3, <2>2, <2>3, <2>4, <2>5
    <3>2. CASE k \in 1..sent[d]
      <4>1. PICK j \in 1..Len(tasks_) : i < j /\ tasks_[j] = <<d, k>>
        BY <2>5, <3>1, <3>2 DEF Order
      <4>2. QED
        BY <1>3, <2>2, <2>3, <4>1
    <3>3. CASE k \notin 1..sent[d]
      <4>1. d = c
        BY <2>3, <2>5, <3>3
      <4>2. k = sent[c] + 1
        BY <2>1, <2>3, <2>5, <3>3, <4>1
      <4>3. tasks_'[Len(tasks_')] = <<d, k>>
        BY <1>3, <2>2, <2>3, <4>1, <4>2 DEF b
      <4>4. QED
        BY <1>3, <2>2, <2>3, <3>1, <4>3
    <3>4. QED
      BY <3>2, <3>3
  <2>6. \A d \in Clients : cpc'[d] \notin Calling => sent'[d] = 0
    BY <2>3 DEF Order
  <2>7. QED
    BY <2>3, <2>5, <2>6 DEF Order
<1>6. ASSUME NEW c \in Clients, SubmitNotify(c) \/ BarrierNotify(c) PROVE Order'
  <2>1. \A d \in Clients : cpc'[d] \notin Calling => cpc[d] \notin Calling
    BY <1>6, ClientMoves DEF SubmitNotify, BarrierNotify
  <2>2. QED
    BY <1>6, <2>1, OrderSame DEF SubmitNotify, BarrierNotify, history
<1>7. ASSUME NEW c \in Clients, WaitBegin(c) PROVE Order'
  <2>1. /\ tasks_' = tasks_ /\ sent' = sent /\ submitted' = submitted
        /\ before'[c] = submitted /\ \A d \in Clients \ {c} : before'[d] = before[d]
        /\ sent[c] = 0
    BY <1>7, ClientMoves DEF WaitBegin, TypeOK, Order
  <2>2. \A d \in Clients : cpc'[d] \notin Calling => cpc[d] \notin Calling
    BY <1>7, ClientMoves DEF WaitBegin
  <2>3. 1..sent'[c] = {}
    BY <2>1
  <2>4. ASSUME NEW d \in Clients, NEW i \in 1..Len(tasks_'), tasks_'[i] \in before'[d],
               NEW k \in 1..sent'[d]
        PROVE  \E j \in 1..Len(tasks_') : i < j /\ tasks_'[j] = <<d, k>>
    <3>1. d # c
      BY <2>3, <2>4
    <3>2. QED
      BY <2>1, <2>4, <3>1 DEF Order
  <2>5. \A d \in Clients : before'[d] \subseteq submitted'
    BY <2>1 DEF Order
  <2>6. \A d \in Clients : cpc'[d] \notin Calling => sent'[d] = 0
    BY <2>1, <2>2 DEF Order
  <2>7. QED
    BY <2>4, <2>5, <2>6 DEF Order
<1>8. ASSUME NEW c \in Clients, WaitReturn(c) PROVE Order'
  <2>1. /\ tasks_' = tasks_ /\ submitted' = submitted
        /\ before'[c] = {} /\ \A d \in Clients \ {c} : before'[d] = before[d]
        /\ sent'[c] = 0 /\ \A d \in Clients \ {c} : sent'[d] = sent[d]
        /\ \A d \in Clients \ {c} : cpc'[d] = cpc[d]
    BY <1>8, ClientMoves DEF WaitReturn, TypeOK
  <2>2. ASSUME NEW d \in Clients, NEW i \in 1..Len(tasks_'), tasks_'[i] \in before'[d],
               NEW k \in 1..sent'[d]
        PROVE  \E j \in 1..Len(tasks_') : i < j /\ tasks_'[j] = <<d, k>>
    <3>1. d # c
      BY <2>1, <2>2
    <3>2. before'[d] = before[d] /\ sent'[d] = sent[d]
      BY <2>1, <3>1
    <3>3. i \in 1..Len(tasks_) /\ tasks_[i] \in before[d] /\ k \in 1..sent[d]
      BY <2>1, <2>2, <3>2
    <3>4. QED
      BY <2>1, <3>3 DEF Order
  <2>3. \A d \in Clients : before'[d] \subseteq submitted'
    BY <2>1 DEF Order
  <2>4. \A d \in Clients : cpc'[d] \notin Calling => sent'[d] = 0
    BY <2>1 DEF Order
  <2>5. QED
    BY <2>2, <2>3, <2>4 DEF Order
<1>9. CASE DestroyStop \/ DestroyNotify \/ DestroyJoin
  <2>1. \A d \in Clients : cpc'[d] \notin Calling => cpc[d] \notin Calling
    BY <1>9, PoolAssumption, ClientMoves DEF DestroyStop, DestroyNotify, DestroyJoin
  <2>2. QED
    BY <1>9, <2>1, OrderSame DEF DestroyStop, DestroyNotify, DestroyJoin, history, workers
<1>10. CASE UNCHANGED vars
  BY <1>10, OrderSame DEF vars, workers, history
<1>11. QED
  BY <1>1, <1>2, <1>4, <1>5, <1>6, <1>7, <1>8, <1>9, <1>10
  DEF Next, WorkerStep, ClientCall, OwnerCall

\* A step that neither queues nor takes a task.
LEMMA PassedSame ==
  ASSUME Passed, tasks_' = tasks_, sent' = sent, before' = before, cur' = cur,
         \A w \in Workers : wpc'[w] = "running" => wpc[w] = "running"
  PROVE  Passed'
<1>1. \A t : IsQueued(t)' <=> IsQueued(t)
  BY DEF IsQueued
<1>2. \A w \in Workers : \A c \in Clients : Without(w, before[c]) => Without(w, before[c])'
  BY DEF Without
<1>3. QED
  BY <1>1, <1>2 DEF Passed

\* A step that queues a task which no waitForAll() in progress waits for.
LEMMA PassedAdd ==
  ASSUME TypeOK, Passed, NEW t \in AnyTask, tasks_' = Append(tasks_, t),
         \A c \in Clients : t \notin before[c],
         before' = before, cur' = cur, wpc' = wpc,
         \A c \in Clients : \A k \in 1..sent'[c] : k \in 1..sent[c] \/ t = <<c, k>>
  PROVE  Passed'
<1>0. \A i \in 1..Len(tasks_) : tasks_'[i] = tasks_[i] /\ i \in 1..Len(tasks_')
  BY DEF TypeOK
<1>a. /\ Len(tasks_) \in Nat /\ Len(tasks_') = Len(tasks_) + 1
      /\ tasks_'[Len(tasks_) + 1] = t
  BY DEF TypeOK
<1>1. \A x : IsQueued(x) => IsQueued(x)'
  BY <1>0 DEF IsQueued
<1>2. \A x : IsQueued(x)' => IsQueued(x) \/ x = t
  BY <1>0, <1>a DEF IsQueued
<1>3. IsQueued(t)'
  BY <1>a DEF IsQueued
<1>4. SUFFICES ASSUME NEW c \in Clients, NEW k \in 1..sent'[c], ~IsQueued(<<c, k>>)'
               PROVE  /\ \A x \in before[c] : ~IsQueued(x)'
                      /\ \E w \in Workers : Without(w, before[c])'
  BY DEF Passed
<1>5. k \in 1..sent[c] /\ ~IsQueued(<<c, k>>)
  BY <1>1, <1>3, <1>4
<1>6. /\ \A x \in before[c] : ~IsQueued(x)
      /\ \E w \in Workers : Without(w, before[c])
  BY <1>5 DEF Passed
<1>7. QED
  BY <1>2, <1>6 DEF Without

LEMMA PassedTake ==
  ASSUME TypeOK, Place, Order, Passed, NEW w \in Workers, WorkerTake(w)
  PROVE  Passed'
<1>1. /\ tasks_ \in Seq(AnyTask) /\ tasks_ # <<>> /\ tasks_' = Tail(tasks_)
      /\ sent' = sent /\ before' = before /\ cur'[w] = Head(tasks_)
      /\ \A v \in Workers \ {w} : cur'[v] = cur[v] /\ wpc'[v] = wpc[v]
  BY DEF TypeOK, WorkerTake, WorkerGoes, history
<1>2. /\ Len(tasks_) \in Nat \ {0} /\ Len(tasks_') = Len(tasks_) - 1
      /\ \A i \in 1..Len(tasks_') : i + 1 \in 1..Len(tasks_) /\ tasks_'[i] = tasks_[i + 1]
      /\ Head(tasks_) = tasks_[1] /\ 1 \in 1..Len(tasks_)
  BY <1>1
<1>3. \A x : IsQueued(x)' => IsQueued(x)
  BY <1>2 DEF IsQueued
<1>4. \A x : IsQueued(x) => IsQueued(x)' \/ x = Head(tasks_)
  <2> SUFFICES ASSUME NEW x, IsQueued(x), x # Head(tasks_) PROVE IsQueued(x)'
    OBVIOUS
  <2>1. PICK i \in 1..Len(tasks_) : tasks_[i] = x
    BY DEF IsQueued
  <2>2. i - 1 \in 1..Len(tasks_') /\ (i - 1) + 1 = i
    BY <1>2, <2>1
  <2>3. tasks_'[i - 1] = x
    BY <1>2, <2>1, <2>2
  <2>4. QED
    BY <2>2, <2>3 DEF IsQueued
<1>5. SUFFICES ASSUME NEW c \in Clients, NEW k \in 1..sent[c], ~IsQueued(<<c, k>>)'
               PROVE  /\ \A x \in before[c] : ~IsQueued(x)'
                      /\ \E v \in Workers : Without(v, before[c])'
  BY <1>1 DEF Passed
<1>6. CASE IsQueued(<<c, k>>)
  <2>1. tasks_[1] = <<c, k>>
    BY <1>2, <1>4, <1>5, <1>6
  <2>2. ASSUME NEW x \in before[c], IsQueued(x) PROVE FALSE
    <3>1. PICK i \in 1..Len(tasks_) : tasks_[i] = x
      BY <2>2 DEF IsQueued
    <3>2. PICK j \in 1..Len(tasks_) : i < j /\ tasks_[j] = <<c, k>>
      BY <2>2, <3>1 DEF Order
    <3>3. j = 1
      BY <1>2, <2>1, <3>2 DEF Place
    <3>4. QED
      BY <3>1, <3>2, <3>3
  <2>3. <<c, k>> \notin before[c]
    BY <1>6, <2>2
  <2>4. Without(w, before[c])'
    BY <1>1, <1>2, <2>1, <2>3 DEF Without
  <2>5. QED
    BY <1>3, <2>2, <2>4
<1>7. CASE ~IsQueued(<<c, k>>)
  <2>1. /\ \A x \in before[c] : ~IsQueued(x)
        /\ \E v \in Workers : Without(v, before[c])
    BY <1>7 DEF Passed
  <2>2. Head(tasks_) \notin before[c]
    BY <1>2, <2>1 DEF IsQueued
  <2>3. PICK v \in Workers : Without(v, before[c])
    BY <2>1
  <2>4. Without(v, before[c])'
    <3>1. CASE v = w
      BY <1>1, <2>2, <3>1 DEF Without
    <3>2. CASE v # w
      BY <1>1, <2>3, <3>2 DEF Without
    <3>3. QED
      BY <3>1, <3>2
  <2>5. QED
    BY <1>3, <2>1, <2>4
<1>8. QED
  BY <1>6, <1>7

LEMMA PassedStep ==
  ASSUME TypeOK, Place, Order, Passed, [Next]_vars
  PROVE  Passed'
<1>1. ASSUME NEW w \in Workers, WorkerTake(w) PROVE Passed'
  BY <1>1, PassedTake
<1>2. ASSUME NEW w \in Workers, WorkerExit(w) \/ WorkerBlock(w) \/ SpuriousWakeup(w) \/ WorkerRun(w)
      PROVE  Passed'
  <2>1. \A v \in Workers : wpc'[v] = "running" => wpc[v] = "running"
    BY <1>2 DEF WorkerExit, WorkerBlock, SpuriousWakeup, WorkerRun, WorkerGoes, TypeOK
  <2>2. QED
    BY <1>2, <2>1, PassedSame DEF WorkerExit, WorkerBlock, SpuriousWakeup, WorkerRun, history
<1>3. ASSUME NEW c \in Clients, NEW t \in Tasks, SubmitTask(c, t) PROVE Passed'
  <2>1. /\ tasks_' = Append(tasks_, t) /\ t \notin submitted
        /\ sent' = sent /\ before' = before /\ cur' = cur /\ wpc' = wpc /\ t \in AnyTask
    BY <1>3, PoolSizes DEF SubmitTask, workers
  <2>2. \A d \in Clients : t \notin before[d]
    BY <2>1 DEF Order
  <2>3. QED
    BY <2>1, <2>2, PassedAdd
<1>4. ASSUME NEW c \in Clients, BarrierSubmit(c) PROVE Passed'
  <2>0. PICK b : b = <<c, sent[c] + 1>>
    OBVIOUS
  <2>1. sent[c] \in 0..NumWorkers /\ sent[c] < NumWorkers /\ NumWorkers \in Nat
    BY <1>4, PoolSizes DEF BarrierSubmit, TypeOK
  <2>2. b \in Barriers /\ b \in AnyTask
    BY <2>0, <2>1, PoolSizes
  <2>3. /\ tasks_' = Append(tasks_, b) /\ before' = before /\ cur' = cur /\ wpc' = wpc
        /\ sent'[c] = sent[c] + 1 /\ \A d \in Clients \ {c} : sent'[d] = sent[d]
    BY <1>4, <2>0 DEF BarrierSubmit, TypeOK, history, workers
  <2>4. \A d \in Clients : b \notin before[d]
    BY <2>2, PoolAssumption DEF TypeOK
  <2>5. ASSUME NEW d \in Clients, NEW k \in 1..sent'[d], k \notin 1..sent[d]
        PROVE  b = <<d, k>>
    <3>1. d = c
      BY <2>3, <2>5
    <3>2. k = sent[c] + 1
      BY <2>1, <2>3, <2>5, <3>1
    <3>3. QED
      BY <2>0, <3>1, <3>2
  <2>6. QED
    BY <2>2, <2>3, <2>4, <2>5, PassedAdd
<1>5. ASSUME NEW c \in Clients, SubmitNotify(c) \/ BarrierNotify(c) PROVE Passed'
  <2>1. \A w \in Workers : wpc'[w] = "running" => wpc[w] = "running"
    BY <1>5, NotifyMoves DEF SubmitNotify, BarrierNotify
  <2>2. QED
    BY <1>5, <2>1, PassedSame DEF SubmitNotify, BarrierNotify, history
<1>6. ASSUME NEW c \in Clients, WaitBegin(c) \/ WaitReturn(c) PROVE Passed'
  <2>1. /\ tasks_' = tasks_ /\ cur' = cur /\ wpc' = wpc /\ sent'[c] = 0
        /\ \A d \in Clients \ {c} : sent'[d] = sent[d] /\ before'[d] = before[d]
    <3>1. CASE WaitBegin(c)
      <4>1. cpc[c] = "idle" /\ sent' = sent
        BY <3>1, ClientMoves DEF WaitBegin
      <4>2. sent[c] = 0
        BY <4>1 DEF Order
      <4>3. QED
        BY <3>1, <4>1, <4>2 DEF WaitBegin, TypeOK, workers
    <3>2. CASE WaitReturn(c)
      BY <3>2 DEF WaitReturn, TypeOK, workers
    <3>3. QED
      BY <1>6, <3>1, <3>2
  <2>2. \A t : IsQueued(t)' <=> IsQueued(t)
    BY <2>1 DEF IsQueued
  <2>3. ASSUME NEW d \in Clients, NEW k \in 1..sent'[d], ~IsQueued(<<d, k>>)'
        PROVE  /\ \A t \in before'[d] : ~IsQueued(t)'
               /\ \E w \in Workers : Without(w, before[d])'
    <3>1. d # c
      BY <2>1, <2>3
    <3>2. /\ \A t \in before[d] : ~IsQueued(t)
          /\ \E w \in Workers : Without(w, before[d])
      BY <2>1, <2>2, <2>3, <3>1 DEF Passed
    <3>3. QED
      BY <2>1, <2>2, <3>1, <3>2 DEF Without
  <2>4. QED
    BY <2>3 DEF Passed
<1>7. CASE DestroyStop \/ DestroyNotify \/ DestroyJoin
  <2>1. \A w \in Workers : wpc'[w] = "running" => wpc[w] = "running"
    BY <1>7, NotifyMoves DEF DestroyStop, DestroyNotify, DestroyJoin, workers
  <2>2. QED
    BY <1>7, <2>1, PassedSame DEF DestroyStop, DestroyNotify, DestroyJoin, history, workers
<1>8. CASE UNCHANGED vars
  BY <1>8, PassedSame DEF vars, workers, history
<1>9. QED
  BY <1>1, <1>2, <1>3, <1>4, <1>5, <1>6, <1>7, <1>8
  DEF Next, WorkerStep, ClientCall, OwnerCall

-----------------------------------------------------------------------------
(***************************************************************************)
(* The end of the pool                                                     *)
(***************************************************************************)

\* A call of a client that is not the destructor's: the pool is not stopped.
LEMMA CallsBeforeStop ==
  ASSUME Ending, NEW c \in Clients, cpc[c] \in {"notify", "barrier", "barrier_notify"}
  PROVE  ~stop_
  BY DEF Ending

\* A step of a client other than the destructor.
LEMMA EndingCall ==
  ASSUME TypeOK, Ending, ~stop_, stop_' = stop_, NEW c \in Clients,
         cpc'[c] \in {"idle", "notify", "barrier", "barrier_notify"},
         \A d \in Clients \ {c} : cpc'[d] = cpc[d],
         \A w \in Workers : wpc'[w] = "exited" => wpc[w] = "exited"
  PROVE  Ending'
  BY PoolAssumption DEF Ending

LEMMA EndingStep ==
  ASSUME TypeOK, Ending, [Next]_vars
  PROVE  Ending'
<1>1. ASSUME NEW w \in Workers, WorkerTake(w) PROVE Ending'
  <2>1. /\ tasks_ # <<>> /\ stop_' = stop_ /\ cpc' = cpc
        /\ \A v \in Workers : wpc'[v] = "exited" => wpc[v] = "exited"
    BY <1>1 DEF WorkerTake, WorkerGoes, TypeOK
  <2>2. \A v \in Workers : wpc[v] # "exited"
    BY <2>1 DEF Ending
  <2>3. wpc[w] # "exited" /\ cpc[Owner] # "destroyed"
    BY <2>2 DEF Ending
  <2>4. QED
    BY <2>1, <2>2, <2>3 DEF Ending
<1>2. ASSUME NEW w \in Workers, WorkerExit(w) PROVE Ending'
  <2>1. /\ stop_ /\ tasks_ = <<>> /\ stop_' = stop_ /\ cpc' = cpc /\ tasks_' = tasks_
        /\ wpc'[w] = "exited" /\ \A v \in Workers \ {w} : wpc'[v] = wpc[v]
    BY <1>2, WorkerMoves DEF WorkerExit
  <2>2. QED
    BY <2>1 DEF Ending
<1>3. ASSUME NEW w \in Workers, WorkerBlock(w) \/ SpuriousWakeup(w) \/ WorkerRun(w)
      PROVE  Ending'
  <2>1. /\ stop_' = stop_ /\ cpc' = cpc /\ tasks_' = tasks_ /\ wpc[w] # "exited"
        /\ wpc'[w] # "exited" /\ \A v \in Workers \ {w} : wpc'[v] = wpc[v]
    BY <1>3, WorkerMoves DEF WorkerBlock, SpuriousWakeup, WorkerRun, Looking
  <2>2. QED
    BY <2>1 DEF Ending
<1>4. ASSUME NEW c \in Clients, NEW t \in Tasks, SubmitTask(c, t) PROVE Ending'
  BY <1>4, ClientMoves, EndingCall DEF SubmitTask, workers
<1>5. ASSUME NEW c \in Clients, SubmitNotify(c) \/ BarrierNotify(c) PROVE Ending'
  <2>1. ~stop_
    BY <1>5, CallsBeforeStop, ClientMoves DEF SubmitNotify, BarrierNotify
  <2>2. \A w \in Workers : wpc'[w] = "exited" => wpc[w] = "exited"
    BY <1>5, NotifyMoves DEF SubmitNotify, BarrierNotify
  <2>3. QED
    BY <1>5, <2>1, <2>2, ClientMoves, EndingCall DEF SubmitNotify, BarrierNotify
<1>6. ASSUME NEW c \in Clients, WaitBegin(c) PROVE Ending'
  BY <1>6, ClientMoves, EndingCall DEF WaitBegin, workers
<1>7. ASSUME NEW c \in Clients, BarrierSubmit(c) \/ WaitReturn(c) PROVE Ending'
  <2>1. ~stop_
    BY <1>7, CallsBeforeStop, ClientMoves DEF BarrierSubmit, WaitReturn
  <2>2. QED
    BY <1>7, <2>1, ClientMoves, EndingCall DEF BarrierSubmit, WaitReturn, workers
<1>8. CASE DestroyStop
  <2>1. /\ stop_' = TRUE /\ cpc[Owner] = "idle" /\ tasks_' = tasks_ /\ wpc' = wpc
        /\ cpc'[Owner] = "dtor" /\ \A c \in Clients \ {Owner} : cpc'[c] = "idle"
    BY <1>8, PoolAssumption, ClientMoves DEF DestroyStop, workers
  <2>2. QED
    BY <2>1 DEF Ending
<1>9. CASE DestroyNotify
  <2>1. /\ stop_' = stop_ /\ tasks_' = tasks_ /\ cpc[Owner] = "dtor"
        /\ cpc'[Owner] = "join" /\ \A c \in Clients \ {Owner} : cpc'[c] = cpc[c]
    BY <1>9, PoolAssumption, ClientMoves DEF DestroyNotify
  <2>2. \A w \in Workers : wpc'[w] = "exited" => wpc[w] = "exited"
    BY <1>9, NotifyMoves DEF DestroyNotify
  <2>3. QED
    BY <2>1, <2>2 DEF Ending
<1>10. CASE DestroyJoin
  <2>1. /\ stop_' = stop_ /\ tasks_' = tasks_ /\ cpc[Owner] = "join" /\ wpc' = wpc
        /\ cpc'[Owner] = "destroyed" /\ \A c \in Clients \ {Owner} : cpc'[c] = cpc[c]
        /\ \A w \in Workers : wpc[w] = "exited"
    BY <1>10, PoolAssumption, ClientMoves DEF DestroyJoin, workers
  <2>2. QED
    BY <2>1 DEF Ending
<1>11. CASE UNCHANGED vars
  BY <1>11 DEF vars, workers, Ending
<1>12. QED
  BY <1>1, <1>2, <1>3, <1>4, <1>5, <1>6, <1>7, <1>8, <1>9, <1>10, <1>11
  DEF Next, WorkerStep, ClientCall, OwnerCall

LEMMA StopStep ==
  ASSUME TypeOK, Ending, StopReachesWorkers, [Next]_vars
  PROVE  StopReachesWorkers'
<1>1. ASSUME NEW w \in Workers,
             WorkerTake(w) \/ WorkerExit(w) \/ SpuriousWakeup(w) \/ WorkerRun(w)
      PROVE  StopReachesWorkers'
  <2>1. Waiting' \subseteq Waiting /\ stop_' = stop_ /\ cpc' = cpc
    BY <1>1, WorkerMoves
    DEF WorkerTake, WorkerExit, SpuriousWakeup, WorkerRun, Waiting, Looking
  <2>2. QED
    BY <2>1 DEF StopReachesWorkers
<1>2. ASSUME NEW w \in Workers, WorkerBlock(w) PROVE StopReachesWorkers'
  BY <1>2 DEF WorkerBlock, StopReachesWorkers
<1>3. ASSUME NEW c \in Clients,
             \/ \E t \in Tasks : SubmitTask(c, t)
             \/ WaitBegin(c) \/ ClientCall(c)
      PROVE  StopReachesWorkers'
  <2>1. ~stop_
    <3>1. CASE (\E t \in Tasks : SubmitTask(c, t)) \/ WaitBegin(c)
      BY <3>1 DEF SubmitTask, WaitBegin
    <3>2. CASE ClientCall(c)
      BY <3>2, CallsBeforeStop, ClientMoves
      DEF ClientCall, SubmitNotify, BarrierSubmit, BarrierNotify, WaitReturn
    <3>3. QED
      BY <1>3, <3>1, <3>2
  <2>2. stop_' = stop_
    BY <1>3 DEF SubmitTask, WaitBegin, ClientCall, SubmitNotify, BarrierSubmit,
                BarrierNotify, WaitReturn
  <2>3. QED
    BY <2>1, <2>2 DEF StopReachesWorkers
<1>4. CASE DestroyStop
  BY <1>4, PoolAssumption, ClientMoves DEF DestroyStop, StopReachesWorkers
<1>5. CASE DestroyNotify
  <2>1. Waiting' = {}
    BY <1>5 DEF DestroyNotify, NotifyAll, Waiting
  <2>2. QED
    BY <2>1 DEF StopReachesWorkers
<1>6. CASE DestroyJoin
  <2>1. Waiting' = {}
    BY <1>6 DEF DestroyJoin, workers, Waiting
  <2>2. QED
    BY <2>1 DEF StopReachesWorkers
<1>7. CASE UNCHANGED vars
  BY <1>7 DEF vars, workers, StopReachesWorkers, Waiting
<1>8. QED
  BY <1>1, <1>2, <1>3, <1>4, <1>5, <1>6, <1>7 DEF Next, WorkerStep, OwnerCall

-----------------------------------------------------------------------------
(***************************************************************************)
(* Counting notifications                                                  *)
(***************************************************************************)

LEMMA AwakeFinite ==
  /\ IsFiniteSet(Woken) /\ Cardinality(Woken) \in Nat
  /\ IsFiniteSet(Woken)' /\ Cardinality(Woken') \in Nat
<1>1. IsFiniteSet(Workers) /\ Woken \subseteq Workers /\ Woken' \subseteq Workers
  BY PoolAssumption DEF Woken
<1>2. IsFiniteSet(Woken) /\ IsFiniteSet(Woken')
  BY <1>1, FS_Subset
<1>3. QED
  BY <1>2, FS_CardinalityType

LEMMA CountingSame ==
  ASSUME TypeOK, Counting, Waiting' \subseteq Waiting, Woken \subseteq Woken',
         tasks_' = tasks_, Notifying' = Notifying
  PROVE  Counting'
<1>1. IsFiniteSet(Woken') /\ Cardinality(Woken) \in Nat /\ Cardinality(Woken') \in Nat
  BY AwakeFinite
<1>2. Cardinality(Woken) <= Cardinality(Woken')
  BY <1>1, FS_Subset
<1>3. IsFiniteSet(Notifying) /\ Cardinality(Notifying) \in Nat
  BY FS_CardinalityType DEF Counting
<1>4. Len(tasks_) \in Nat
  BY DEF TypeOK
<1>5. QED
  BY <1>1, <1>2, <1>3, <1>4 DEF Counting, NoLostWakeup

\* The notification that client c owes, made.
LEMMA CountingNotify ==
  ASSUME TypeOK, Counting, NotifyOne, NEW c \in Notifying,
         tasks_' = tasks_, Notifying' = Notifying \ {c}
  PROVE  Counting'
<1>1. /\ IsFiniteSet(Notifying) /\ Cardinality(Notifying) \in Nat
      /\ IsFiniteSet(Notifying') /\ Cardinality(Notifying') = Cardinality(Notifying) - 1
  BY FS_CardinalityType, FS_RemoveElement DEF Counting
<1>2. CASE Waiting = {}
  <2>1. Waiting' = {}
    BY <1>2 DEF NotifyOne, Waiting
  <2>2. QED
    BY <1>1, <2>1 DEF Counting, NoLostWakeup
<1>3. CASE Waiting # {}
  <2>1. PICK w \in Waiting : wpc' = [wpc EXCEPT ![w] = "woken"]
    BY <1>3 DEF NotifyOne
  <2>2. w \notin Woken /\ Woken' = Woken \union {w}
    BY <2>1 DEF Woken, Waiting, TypeOK
  <2>3. IsFiniteSet(Woken) /\ Cardinality(Woken) \in Nat
    BY AwakeFinite
  <2>4. Cardinality(Woken') = Cardinality(Woken) + 1
    BY <2>2, <2>3, FS_AddElement
  <2>5. Len(tasks_) \in Nat /\ Len(tasks_) <= Cardinality(Woken) + Cardinality(Notifying)
    BY <1>3 DEF Counting, NoLostWakeup, TypeOK
  <2>6. Len(tasks_') <= Cardinality(Woken') + Cardinality(Notifying')
    BY <1>1, <2>3, <2>4, <2>5
  <2>7. QED
    BY <1>1, <2>6 DEF Counting, NoLostWakeup
<1>4. QED
  BY <1>2, <1>3

\* A task queued by client c, which owes the notification.
LEMMA CountingAdd ==
  ASSUME TypeOK, Counting, NEW t \in AnyTask, NEW c, c \notin Notifying,
         wpc' = wpc, tasks_' = Append(tasks_, t), Notifying' = Notifying \union {c}
  PROVE  Counting'
<1>1. /\ IsFiniteSet(Notifying) /\ Cardinality(Notifying) \in Nat
      /\ IsFiniteSet(Notifying') /\ Cardinality(Notifying') = Cardinality(Notifying) + 1
  BY FS_CardinalityType, FS_AddElement DEF Counting
<1>2. Len(tasks_) \in Nat /\ Len(tasks_') = Len(tasks_) + 1
  BY DEF TypeOK
<1>3. Waiting' = Waiting /\ Woken' = Woken /\ Cardinality(Woken) \in Nat
  BY AwakeFinite DEF Waiting, Woken
<1>4. QED
  BY <1>1, <1>2, <1>3 DEF Counting, NoLostWakeup

LEMMA CountingStep ==
  ASSUME TypeOK, Counting, [Next]_vars
  PROVE  Counting'
<1>1. ASSUME NEW w \in Workers, WorkerTake(w) PROVE Counting'
  <2>1. /\ tasks_ \in Seq(AnyTask) /\ tasks_ # <<>> /\ tasks_' = Tail(tasks_)
        /\ wpc[w] \in {"ready", "woken"} /\ wpc'[w] = "running"
        /\ \A v \in Workers \ {w} : wpc'[v] = wpc[v]
        /\ cpc' = cpc
    BY <1>1, WorkerMoves DEF WorkerTake, Looking, TypeOK
  <2>2. Len(tasks_) \in Nat \ {0} /\ Len(tasks_') = Len(tasks_) - 1
    BY <2>1
  <2>3. Waiting' = Waiting /\ Woken' = Woken \ {w} /\ Notifying' = Notifying
    BY <2>1 DEF Waiting, Woken, Notifying
  <2>4. IsFiniteSet(Woken) /\ Cardinality(Woken) \in Nat
    BY AwakeFinite
  <2>5. Cardinality(Woken') >= Cardinality(Woken) - 1 /\ Cardinality(Woken') \in Nat
    <3>1. CASE w \in Woken
      BY <2>3, <2>4, <3>1, FS_RemoveElement, AwakeFinite
    <3>2. CASE w \notin Woken
      <4>1. Woken' = Woken
        BY <2>3, <3>2
      <4>2. QED
        BY <2>4, <4>1
    <3>3. QED
      BY <3>1, <3>2
  <2>6. IsFiniteSet(Notifying) /\ Cardinality(Notifying) \in Nat
    BY FS_CardinalityType DEF Counting
  <2>7. QED
    BY <2>2, <2>3, <2>4, <2>5, <2>6 DEF Counting, NoLostWakeup
<1>2. ASSUME NEW w \in Workers, WorkerExit(w) \/ WorkerBlock(w) PROVE Counting'
  <2>1. tasks_' = <<>> /\ Notifying' = Notifying
    BY <1>2 DEF WorkerExit, WorkerBlock, Notifying
  <2>2. IsFiniteSet(Notifying) /\ Cardinality(Notifying) \in Nat
    BY FS_CardinalityType DEF Counting
  <2>3. Len(tasks_') = 0 /\ Cardinality(Woken') \in Nat
    BY <2>1, AwakeFinite
  <2>4. QED
    BY <2>1, <2>2, <2>3 DEF Counting, NoLostWakeup
<1>3. ASSUME NEW w \in Workers, SpuriousWakeup(w) \/ WorkerRun(w) PROVE Counting'
  <2>1. Waiting' \subseteq Waiting /\ Woken \subseteq Woken'
    BY <1>3, WorkerMoves DEF SpuriousWakeup, WorkerRun, Waiting, Woken
  <2>2. QED
    BY <1>3, <2>1, CountingSame DEF SpuriousWakeup, WorkerRun, Notifying
<1>4. ASSUME NEW c \in Clients, NEW t \in Tasks, SubmitTask(c, t) PROVE Counting'
  <2>1. c \notin Notifying /\ Notifying' = Notifying \union {c}
    BY <1>4, ClientMoves DEF SubmitTask, Notifying
  <2>2. QED
    BY <1>4, <2>1, CountingAdd, PoolSizes DEF SubmitTask, workers
<1>5. ASSUME NEW c \in Clients, BarrierSubmit(c) PROVE Counting'
  <2>1. c \notin Notifying /\ Notifying' = Notifying \union {c}
    BY <1>5, ClientMoves DEF BarrierSubmit, Notifying
  <2>2. sent[c] + 1 \in 1..NumWorkers
    BY <1>5, PoolSizes DEF BarrierSubmit, TypeOK
  <2>3. <<c, sent[c] + 1>> \in AnyTask
    BY <2>2, PoolSizes
  <2>4. QED
    BY <1>5, <2>1, <2>3, CountingAdd DEF BarrierSubmit, workers
<1>6. ASSUME NEW c \in Clients, SubmitNotify(c) \/ BarrierNotify(c) PROVE Counting'
  <2>1. c \in Notifying /\ Notifying' = Notifying \ {c}
    BY <1>6, ClientMoves DEF SubmitNotify, BarrierNotify, Notifying
  <2>2. QED
    BY <1>6, <2>1, CountingNotify DEF SubmitNotify, BarrierNotify
<1>7. ASSUME NEW c \in Clients, WaitBegin(c) \/ WaitReturn(c) PROVE Counting'
  <2>1. Notifying' = Notifying
    BY <1>7, ClientMoves DEF WaitBegin, WaitReturn, Notifying
  <2>2. Waiting' = Waiting /\ Woken' = Woken /\ tasks_' = tasks_
    BY <1>7 DEF WaitBegin, WaitReturn, workers, Waiting, Woken
  <2>3. QED
    BY <2>1, <2>2, CountingSame
<1>8. CASE DestroyStop \/ DestroyJoin
  <2>1. Notifying' = Notifying
    BY <1>8, ClientMoves, PoolAssumption DEF DestroyStop, DestroyJoin, Notifying
  <2>2. Waiting' = Waiting /\ Woken' = Woken /\ tasks_' = tasks_
    BY <1>8 DEF DestroyStop, DestroyJoin, workers, Waiting, Woken
  <2>3. QED
    BY <2>1, <2>2, CountingSame
<1>9. CASE DestroyNotify
  <2>1. Notifying' = Notifying
    BY <1>9, ClientMoves, PoolAssumption DEF DestroyNotify, Notifying
  <2>2. Waiting' = {} /\ Woken \subseteq Woken' /\ tasks_' = tasks_
    BY <1>9 DEF DestroyNotify, NotifyAll, Waiting, Woken
  <2>3. QED
    BY <2>1, <2>2, CountingSame
<1>10. CASE UNCHANGED vars
  BY <1>10, CountingSame DEF vars, workers, Waiting, Woken, Notifying
<1>11. QED
  BY <1>1, <1>2, <1>3, <1>4, <1>5, <1>6, <1>7, <1>8, <1>9, <1>10
  DEF Next, WorkerStep, ClientCall, OwnerCall

-----------------------------------------------------------------------------
(***************************************************************************)
(* The properties                                                          *)
(***************************************************************************)

\* The inductive invariant.
THEOREM Invariance == Spec => []IInv
<1>1. Init => IInv
  <2> SUFFICES ASSUME Init PROVE IInv
    OBVIOUS
  <2>1. TypeOK
    <3>1. <<>> \in Seq(AnyTask) /\ 0 \in 0..NumWorkers /\ 0 \in 0..MaxSpurious
      BY PoolSizes, PoolAssumption
    <3>2. QED
      BY <3>1 DEF Init, TypeOK
  <2>2. tasks_ = <<>> /\ Len(tasks_) = 0 /\ 1..Len(tasks_) = {}
    BY DEF Init
  <2>3. Outstanding = {}
    <3>1. \A b \in Barriers : b[1] \in Clients /\ b[2] \in 1..NumWorkers
      BY DEF Barriers, Barrier
    <3>2. \A b \in Barriers : ~(b[2] <= sent[b[1]])
      BY <3>1, PoolSizes DEF Init
    <3>3. QED
      BY <3>2 DEF Outstanding, Init
  <2>4. Place
    BY <2>2, <2>3 DEF Place, Init
  <2>5. Order
    BY <2>2 DEF Order, Init
  <2>a. Passed
    BY DEF Passed, Init
  <2>6. Ending
    BY PoolAssumption DEF Ending, Init
  <2>7. StopReachesWorkers
    BY DEF StopReachesWorkers, Init
  <2>8. Counting
    <3>1. Waiting = {} /\ Notifying = {}
      BY DEF Init, Waiting, Notifying
    <3>2. QED
      BY <3>1, FS_EmptySet DEF Counting, NoLostWakeup
  <2>9. QED
    BY <2>1, <2>4, <2>5, <2>a, <2>6, <2>7, <2>8 DEF IInv
<1>2. IInv /\ [Next]_vars => IInv'
  BY TypeStep, PlaceStep, OrderStep, PassedStep, EndingStep, StopStep, CountingStep DEF IInv
<1>3. QED
  BY <1>1, <1>2, PTL DEF Spec

\* Every accepted task is in one place, for any number of threads and tasks.
THEOREM TaskInOnePlaceHolds == Spec => []TaskInOnePlace
<1>1. IInv => TaskInOnePlace
  <2> SUFFICES ASSUME IInv, NEW t \in AnyTask
               PROVE  Cardinality(Queued(t)) + Cardinality(Running(t))
                        + (IF t \in finished THEN 1 ELSE 0)
                      = IF t \in Outstanding THEN 1 ELSE 0
    BY DEF TaskInOnePlace
  <2>1. Cardinality(Queued(t)) = IF IsQueued(t) THEN 1 ELSE 0
    <3>1. CASE IsQueued(t)
      <4>1. PICK i \in 1..Len(tasks_) : tasks_[i] = t
        BY <3>1 DEF IsQueued
      <4>2. Queued(t) = {i}
        BY <4>1 DEF Queued, IInv, Place
      <4>3. QED
        BY <3>1, <4>2, FS_Singleton
    <3>2. CASE ~IsQueued(t)
      <4>1. Queued(t) = {}
        BY <3>2 DEF Queued, IsQueued
      <4>2. QED
        BY <3>2, <4>1, FS_EmptySet
    <3>3. QED
      BY <3>1, <3>2
  <2>2. Cardinality(Running(t)) = IF IsRunning(t) THEN 1 ELSE 0
    <3>1. CASE IsRunning(t)
      <4>1. PICK w \in Workers : wpc[w] = "running" /\ cur[w] = t
        BY <3>1 DEF IsRunning
      <4>2. Running(t) = {w}
        BY <4>1 DEF Running, IInv, Place
      <4>3. QED
        BY <3>1, <4>2, FS_Singleton
    <3>2. CASE ~IsRunning(t)
      <4>1. Running(t) = {}
        BY <3>2 DEF Running, IsRunning
      <4>2. QED
        BY <3>2, <4>1, FS_EmptySet
    <3>3. QED
      BY <3>1, <3>2
  <2>3. /\ IsQueued(t) => t \in Outstanding /\ t \notin finished /\ ~IsRunning(t)
        /\ IsRunning(t) => t \in Outstanding /\ t \notin finished
        /\ t \in finished => t \in Outstanding
        /\ t \in Outstanding => t \in finished \/ IsQueued(t) \/ IsRunning(t)
    BY DEF IInv, Place, IsQueued, IsRunning
  <2>4. QED
    BY <2>1, <2>2, <2>3
<1>2. QED
  BY <1>1, Invariance, PTL

\* No queued task is left to sleeping workers.
THEOREM NoLostWakeupHolds == Spec => []NoLostWakeup
<1>1. IInv => NoLostWakeup
  BY DEF IInv, Counting
<1>2. QED
  BY <1>1, Invariance, PTL

\* The destructor's notify_all() reaches every sleeping worker.
THEOREM StopReachesWorkersHolds == Spec => []StopReachesWorkers
<1>1. IInv => StopReachesWorkers
  BY DEF IInv
<1>2. QED
  BY <1>1, Invariance, PTL

\* When the destructor has returned, every accepted task has run.
THEOREM DestroyDrainsHolds == Spec => []DestroyDrains
<1>1. IInv => DestroyDrains
  <2> SUFFICES ASSUME IInv, cpc[Owner] = "destroyed", NEW t \in submitted
               PROVE  t \in finished
    BY DEF DestroyDrains
  <2>1. \A w \in Workers : wpc[w] = "exited"
    BY DEF IInv, Ending
  <2>2. ~IsRunning(t)
    BY <2>1 DEF IsRunning
  <2>3. tasks_ = <<>>
    BY <2>1, PoolAssumption DEF IInv, Ending
  <2>4. ~IsQueued(t)
    BY <2>3 DEF IsQueued
  <2>5. QED
    BY <2>2, <2>4 DEF IInv, Place, Outstanding
<1>2. QED
  BY <1>1, Invariance, PTL

\* For any numbers of workers, clients and tasks: a pool in which nobody can take a
\* step has nothing left to do.
THEOREM NeverStuckHolds == Spec => []NeverStuck
<1>1. IInv => NeverStuck
  <2> SUFFICES ASSUME IInv, \A w \in Workers : ~WorkerCan(w), \A c \in Clients : ~ClientCan(c)
               PROVE  /\ submitted \subseteq finished
                      /\ \A c \in Clients : cpc[c] \in {"idle", "destroyed"}
    BY DEF NeverStuck
  <2>0. TypeOK /\ Place /\ Order /\ Ending /\ StopReachesWorkers /\ NoLostWakeup
    BY DEF IInv, Counting
  <2>1. \A w \in Workers : wpc[w] \in {"waiting", "exited"}
    BY <2>0 DEF WorkerCan, Looking, TypeOK
  <2>2. Woken = {} /\ Notifying = {}
    BY <2>1 DEF Woken, Notifying, ClientCan
  <2>3. tasks_ = <<>>
    <3>1. CASE Waiting = {}
      BY <2>0, <2>1, <3>1, PoolAssumption DEF Waiting, Ending
    <3>2. CASE Waiting # {}
      <4>1. Len(tasks_) <= Cardinality({}) + Cardinality({})
        BY <2>0, <2>2, <3>2 DEF NoLostWakeup
      <4>2. Len(tasks_) <= 0
        BY <4>1, FS_EmptySet
      <4>3. QED
        BY <2>0, <4>2 DEF TypeOK
    <3>3. QED
      BY <3>1, <3>2
  <2>4. Outstanding \subseteq finished
    <3>1. \A t : ~IsQueued(t)
      BY <2>3 DEF IsQueued
    <3>2. \A t : ~IsRunning(t)
      BY <2>1 DEF IsRunning
    <3>3. QED
      BY <2>0, <3>1, <3>2 DEF Place
  <2>5. \A c \in Clients : cpc[c] # "barrier"
    <3> SUFFICES ASSUME NEW c \in Clients, cpc[c] = "barrier" PROVE FALSE
      OBVIOUS
    <3>1. sent[c] = NumWorkers
      BY <2>0, PoolSizes DEF ClientCan, TypeOK
    <3>2. Barrier(c) \subseteq Outstanding
      BY <3>1, PoolSizes DEF Barrier, Outstanding
    <3>3. QED
      BY <2>4, <3>2 DEF ClientCan
  <2>6. \A c \in Clients : cpc[c] # "join"
    <3> SUFFICES ASSUME NEW c \in Clients, cpc[c] = "join" PROVE FALSE
      OBVIOUS
    <3>1. c = Owner /\ stop_
      BY <2>0 DEF TypeOK, Ending
    <3>2. Waiting = {}
      BY <2>0, <3>1 DEF StopReachesWorkers
    <3>3. QED
      BY <2>1, <3>2 DEF Waiting, ClientCan
  <2>7. \A c \in Clients : cpc[c] \in {"idle", "destroyed"}
    BY <2>0, <2>5, <2>6 DEF TypeOK, ClientCan
  <2>8. QED
    BY <2>4, <2>7 DEF Outstanding
<1>2. QED
  BY <1>1, Invariance, PTL

\* What waitForAll() leaves behind when it returns.
LEMMA WaitReturns ==
  ASSUME IInv, NEW c \in Clients, WaitReturn(c)
  PROVE  /\ \A t \in before[c] : ~IsQueued(t)
         /\ \E w \in Workers : Without(w, before[c])
<1>1. sent[c] = NumWorkers /\ Barrier(c) \subseteq finished
  BY DEF WaitReturn
<1>2. 1 \in 1..sent[c]
  BY <1>1, PoolSizes
<1>3. <<c, 1>> \in finished
  BY <1>1, <1>2 DEF Barrier
<1>4. ~IsQueued(<<c, 1>>)
  BY <1>3 DEF IInv, Place, IsQueued
<1>5. QED
  BY <1>2, <1>4 DEF IInv, Passed

\* When waitForAll() returns, no task submitted before it is queued any more, and
\* one worker at least is done with such tasks.
THEOREM WaitForAllConsumesHolds == Spec => WaitForAllConsumes
<1>1. IInv /\ [Next]_vars =>
        [\A c \in Clients : WaitReturn(c) =>
           /\ \A t \in before[c] : Queued(t) = {}
           /\ \E w \in Workers : ~(wpc[w] = "running" /\ cur[w] \in before[c])]_vars
  BY WaitReturns DEF Queued, IsQueued, Without
<1>2. QED
  BY <1>1, Invariance, PTL DEF Spec, WaitForAllConsumes

\* With one worker waitForAll() does what its header says: all submitted tasks have
\* completed.
THEOREM WaitForAllCompletesAlone ==
  ASSUME NEW worker, Workers = {worker}
  PROVE  Spec => WaitForAllCompletes
<1>1. IInv /\ [Next]_vars =>
        [\A c \in Clients : WaitReturn(c) => before[c] \subseteq finished]_vars
  <2> SUFFICES ASSUME IInv, NEW c \in Clients, WaitReturn(c), NEW t \in before[c]
               PROVE  t \in finished
    OBVIOUS
  <2>1. ~IsQueued(t) /\ Without(worker, before[c])
    BY WaitReturns
  <2>2. ~IsRunning(t)
    BY <2>1 DEF IsRunning, Without
  <2>3. t \in Outstanding
    BY DEF IInv, Order, Outstanding
  <2>4. QED
    BY <2>1, <2>2, <2>3 DEF IInv, Place
<1>2. QED
  BY <1>1, Invariance, PTL DEF Spec, WaitForAllCompletes

=============================================================================

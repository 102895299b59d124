----------------------------- MODULE ThreadPool -----------------------------
(***************************************************************************)
(* oml::pipeline::ThreadPool (include/pipeline/ThreadPool.h,               *)
(* src/pipeline/ThreadPool.cpp): workers that take tasks from one queue    *)
(* under a mutex and a condition variable, clients that submit tasks and   *)
(* call waitForAll(), and the owner's destructor.                          *)
(*                                                                         *)
(* A critical section of mutex_ is one step, and so is the worker's test   *)
(* of the wait predicate with the atomic release-and-block that follows;   *)
(* the notifications, which the code makes outside the mutex, are steps    *)
(* of their own.                                                           *)
(***************************************************************************)
EXTENDS Naturals, Sequences, FiniteSets

CONSTANTS
  Workers,
  Clients,
  Owner,        \* the client that destroys the pool
  Tasks,        \* each is submitted at most once
  NoTask,
  MaxSpurious   \* bound on spurious wakeups

NumWorkers == Cardinality(Workers)

\* waitForAll() of client c submits an empty task per worker.
Barrier(c) == {c} \X (1..NumWorkers)
Barriers == UNION {Barrier(c) : c \in Clients}
AnyTask == Tasks \union Barriers

ASSUME PoolAssumption ==
  /\ IsFiniteSet(Workers) /\ Workers # {}
  /\ Owner \in Clients
  /\ NoTask \notin AnyTask
  /\ Tasks \intersect Barriers = {}
  /\ MaxSpurious \in Nat

VARIABLES
  tasks_, stop_,
  wpc,         \* worker: "ready", "waiting", "woken", "running", "exited"
  cur,         \* cur[w]: the task w took last
  cpc,         \* client: see TypeOK
  sent,        \* sent[c]: barrier tasks the current waitForAll submitted
  finished,    \* the tasks whose future is ready
  submitted,   \* history: the tasks submit() accepted
  before,      \* history: before[c]: submitted when c called its waitForAll
  spurious     \* spurious wakeups so far

workers == <<wpc, cur>>
history == <<submitted, before>>
vars == <<tasks_, stop_, workers, cpc, sent, finished, history, spurious>>

Init ==
  /\ tasks_ = <<>>
  /\ stop_ = FALSE
  /\ wpc = [w \in Workers |-> "ready"]
  /\ cur = [w \in Workers |-> NoTask]
  /\ cpc = [c \in Clients |-> "idle"]
  /\ sent = [c \in Clients |-> 0]
  /\ finished = {}
  /\ submitted = {}
  /\ before = [c \in Clients |-> {}]
  /\ spurious = 0

Waiting == {w \in Workers : wpc[w] = "waiting"}

WorkerGoes(w, from, to) == wpc[w] \in from /\ wpc' = [wpc EXCEPT ![w] = to]
ClientGoes(c, from, to) == cpc[c] = from /\ cpc' = [cpc EXCEPT ![c] = to]

\* Mutation: a notification only for the task that makes the queue non-empty.
NotifyIfFirst ==
  IF Waiting = {} \/ Len(tasks_) # 1 THEN UNCHANGED wpc
  ELSE \E w \in Waiting : wpc' = [wpc EXCEPT ![w] = "woken"]

\* condition_.notify_one(), condition_.notify_all()
NotifyOne ==
  IF Waiting = {} THEN UNCHANGED wpc
  ELSE \E w \in Waiting : wpc' = [wpc EXCEPT ![w] = "woken"]

NotifyAll ==
  wpc' = [w \in Workers |-> IF w \in Waiting THEN "woken" ELSE wpc[w]]

-----------------------------------------------------------------------------
(***************************************************************************)
(* The loop of worker w                                                    *)
(***************************************************************************)
Looking == {"ready", "woken"}

\* Mutation: reading the front of tasks_ without removing it.
TakeWithoutPop(w) ==
  /\ WorkerGoes(w, Looking, "running")
  /\ tasks_ # <<>>
  /\ cur' = [cur EXCEPT ![w] = Head(tasks_)]
  /\ UNCHANGED <<tasks_, stop_, cpc, sent, finished, history, spurious>>

WorkerTake(w) ==
  /\ WorkerGoes(w, Looking, "running")
  /\ tasks_ # <<>>
  /\ cur' = [cur EXCEPT ![w] = Head(tasks_)]
  /\ tasks_' = Tail(tasks_)
  /\ UNCHANGED <<stop_, cpc, sent, finished, history, spurious>>

\* Mutation: a worker that leaves as soon as stop_ is set.
ExitAtStop(w) ==
  /\ WorkerGoes(w, Looking, "exited")
  /\ stop_
  /\ UNCHANGED <<tasks_, stop_, cur, cpc, sent, finished, history, spurious>>

WorkerExit(w) ==
  /\ WorkerGoes(w, Looking, "exited")
  /\ stop_ /\ tasks_ = <<>>
  /\ UNCHANGED <<tasks_, stop_, cur, cpc, sent, finished, history, spurious>>

\* Mutation: a wait predicate that forgets stop_.
BlockEvenStopped(w) ==
  /\ WorkerGoes(w, Looking, "waiting")
  /\ tasks_ = <<>>
  /\ UNCHANGED <<tasks_, stop_, cur, cpc, sent, finished, history, spurious>>

WorkerBlock(w) ==
  /\ WorkerGoes(w, Looking, "waiting")
  /\ ~stop_ /\ tasks_ = <<>>
  /\ UNCHANGED <<tasks_, stop_, cur, cpc, sent, finished, history, spurious>>

\* Running a task makes its future ready; a packaged_task keeps the exception
\* of a task that throws, so the worker goes on either way.
WorkerRun(w) ==
  /\ WorkerGoes(w, {"running"}, "ready")
  /\ finished' = finished \union {cur[w]}
  /\ UNCHANGED <<tasks_, stop_, cur, cpc, sent, history, spurious>>

SpuriousWakeup(w) ==
  /\ WorkerGoes(w, {"waiting"}, "woken")
  /\ spurious < MaxSpurious
  /\ spurious' = spurious + 1
  /\ UNCHANGED <<tasks_, stop_, cur, cpc, sent, finished, history>>

WorkerStep(w) == WorkerTake(w) \/ WorkerExit(w) \/ WorkerBlock(w) \/ WorkerRun(w)

-----------------------------------------------------------------------------
(***************************************************************************)
(* submit and waitForAll                                                   *)
(***************************************************************************)

\* submit throws when stop_ is set; here nobody uses the pool by then.
SubmitTask(c, t) ==
  /\ ClientGoes(c, "idle", "notify")
  /\ ~stop_
  /\ t \notin submitted
  /\ tasks_' = Append(tasks_, t)
  /\ submitted' = submitted \union {t}
  /\ UNCHANGED <<stop_, workers, sent, finished, before, spurious>>

\* Mutation: a submit that does not notify.
SubmitSilently(c) ==
  /\ ClientGoes(c, "notify", "idle")
  /\ UNCHANGED <<tasks_, stop_, workers, sent, finished, history, spurious>>

SubmitNotify(c) ==
  /\ ClientGoes(c, "notify", "idle")
  /\ NotifyOne
  /\ UNCHANGED <<tasks_, stop_, cur, sent, finished, history, spurious>>

WaitBegin(c) ==
  /\ ClientGoes(c, "idle", "barrier")
  /\ ~stop_
  /\ before' = [before EXCEPT ![c] = submitted]
  /\ UNCHANGED <<tasks_, stop_, workers, sent, finished, submitted, spurious>>

\* Mutation: barrier tasks that jump the queue.
BarrierFirst(c) ==
  /\ ClientGoes(c, "barrier", "barrier_notify")
  /\ sent[c] < NumWorkers
  /\ tasks_' = <<<<c, sent[c] + 1>>>> \o tasks_
  /\ sent' = [sent EXCEPT ![c] = @ + 1]
  /\ UNCHANGED <<stop_, workers, finished, history, spurious>>

\* Mutation: one barrier task too many.
BarrierOneMore(c) ==
  /\ ClientGoes(c, "barrier", "barrier_notify")
  /\ sent[c] <= NumWorkers
  /\ tasks_' = Append(tasks_, <<c, sent[c] + 1>>)
  /\ sent' = [sent EXCEPT ![c] = @ + 1]
  /\ UNCHANGED <<stop_, workers, finished, history, spurious>>

BarrierSubmit(c) ==
  /\ ClientGoes(c, "barrier", "barrier_notify")
  /\ sent[c] < NumWorkers
  /\ tasks_' = Append(tasks_, <<c, sent[c] + 1>>)
  /\ sent' = [sent EXCEPT ![c] = @ + 1]
  /\ UNCHANGED <<stop_, workers, finished, history, spurious>>

BarrierNotify(c) ==
  /\ ClientGoes(c, "barrier_notify", "barrier")
  /\ NotifyOne
  /\ UNCHANGED <<tasks_, stop_, cur, sent, finished, history, spurious>>

\* f.wait() for every barrier.
WaitReturn(c) ==
  /\ ClientGoes(c, "barrier", "idle")
  /\ sent[c] = NumWorkers
  /\ Barrier(c) \subseteq finished
  /\ sent' = [sent EXCEPT ![c] = 0]
  /\ finished' = finished \ Barrier(c)
  /\ before' = [before EXCEPT ![c] = {}]
  /\ UNCHANGED <<tasks_, stop_, workers, submitted, spurious>>

-----------------------------------------------------------------------------
(***************************************************************************)
(* The destructor, called when no other client uses the pool               *)
(***************************************************************************)
DestroyStop ==
  /\ ClientGoes(Owner, "idle", "dtor")
  /\ \A c \in Clients : cpc[c] = "idle"
  /\ stop_' = TRUE
  /\ UNCHANGED <<tasks_, workers, sent, finished, history, spurious>>

\* Mutation: a destructor that notifies one worker only.
DestroyNotifyOne ==
  /\ ClientGoes(Owner, "dtor", "join")
  /\ NotifyOne
  /\ UNCHANGED <<tasks_, stop_, cur, sent, finished, history, spurious>>

DestroyNotify ==
  /\ ClientGoes(Owner, "dtor", "join")
  /\ NotifyAll
  /\ UNCHANGED <<tasks_, stop_, cur, sent, finished, history, spurious>>

DestroyJoin ==
  /\ ClientGoes(Owner, "join", "destroyed")
  /\ \A w \in Workers : wpc[w] = "exited"
  /\ UNCHANGED <<tasks_, stop_, workers, sent, finished, history, spurious>>

-----------------------------------------------------------------------------
\* The steps of a call that was made.
ClientCall(c) ==
  SubmitNotify(c) \/ BarrierSubmit(c) \/ BarrierNotify(c) \/ WaitReturn(c)

OwnerCall == DestroyNotify \/ DestroyJoin

Next ==
  \/ \E w \in Workers : WorkerStep(w) \/ SpuriousWakeup(w)
  \/ \E c \in Clients :
       (\E t \in Tasks : SubmitTask(c, t)) \/ WaitBegin(c) \/ ClientCall(c)
  \/ DestroyStop \/ OwnerCall

Spec == Init /\ [][Next]_vars

\* Threads keep running and tasks end; nobody has to submit, wait or destroy.
Fairness ==
  /\ \A w \in Workers : WF_vars(WorkerStep(w))
  /\ \A c \in Clients : WF_vars(ClientCall(c))
  /\ WF_vars(OwnerCall)

FairSpec == Spec /\ Fairness

-----------------------------------------------------------------------------
(***************************************************************************)
(* Properties                                                              *)
(***************************************************************************)

TypeOK ==
  /\ tasks_ \in Seq(AnyTask)
  /\ stop_ \in BOOLEAN
  /\ wpc \in [Workers -> {"ready", "waiting", "woken", "running", "exited"}]
  /\ cur \in [Workers -> AnyTask \union {NoTask}]
  /\ \A w \in Workers : wpc[w] = "running" => cur[w] # NoTask
  /\ cpc \in [Clients -> {"idle", "notify", "barrier", "barrier_notify",
                         "dtor", "join", "destroyed"}]
  /\ \A c \in Clients : cpc[c] \in {"dtor", "join", "destroyed"} => c = Owner
  /\ sent \in [Clients -> 0..NumWorkers]
  /\ finished \subseteq AnyTask
  /\ submitted \subseteq Tasks
  /\ before \in [Clients -> SUBSET Tasks]
  /\ spurious \in 0..MaxSpurious

\* Accepted and not forgotten: submitted tasks, and the barriers of a
\* waitForAll in progress.
Outstanding ==
  submitted \union {b \in Barriers : b[2] <= sent[b[1]]}

Queued(t) == {i \in 1..Len(tasks_) : tasks_[i] = t}
Running(t) == {w \in Workers : wpc[w] = "running" /\ cur[w] = t}

\* Every accepted task is in one place, and no other task is anywhere: it is
\* queued once, or runs on one worker, or has finished.  So no task is lost
\* and none runs twice.
TaskInOnePlace ==
  \A t \in AnyTask :
    Cardinality(Queued(t)) + Cardinality(Running(t))
      + (IF t \in finished THEN 1 ELSE 0)
    = IF t \in Outstanding THEN 1 ELSE 0

Woken == {w \in Workers : wpc[w] = "woken"}
Notifying == {c \in Clients : cpc[c] \in {"notify", "barrier_notify"}}

\* While a worker sleeps, every queued task is matched by a worker that was
\* woken or a client that has still to notify, although submit() notifies
\* after it released the mutex and other workers may take the task first.
NoLostWakeup ==
  Waiting # {} => Len(tasks_) <= Cardinality(Woken) + Cardinality(Notifying)

\* A worker sleeps in a stopped pool only until the destructor's notify_all().
StopReachesWorkers == stop_ /\ Waiting # {} => cpc[Owner] = "dtor"

\* src/pipeline/ThreadPool.cpp:40-41: waitForAll "ensures all previously
\* submitted tasks have been consumed": they left the queue, and at least one
\* worker is done with all it took of them.
WaitForAllConsumes ==
  [][\A c \in Clients : WaitReturn(c) =>
       /\ \A t \in before[c] : Queued(t) = {}
       /\ \E w \in Workers : ~(wpc[w] = "running" /\ cur[w] \in before[c])]_vars

\* include/pipeline/ThreadPool.h:42: "Wait for all submitted tasks to
\* complete."
WaitForAllCompletes ==
  [][\A c \in Clients : WaitReturn(c) => before[c] \subseteq finished]_vars

\* Shutdown is graceful: when the destructor returns every accepted task has
\* run, so that no future is left unready.
DestroyDrains == cpc[Owner] = "destroyed" => submitted \subseteq finished

\* Worker w can take, block, leave or run; client c can go on with its call.
WorkerCan(w) == wpc[w] \in Looking \union {"running"}

ClientCan(c) ==
  \/ cpc[c] \in {"notify", "barrier_notify", "dtor"}
  \/ cpc[c] = "barrier" /\ (sent[c] < NumWorkers \/ Barrier(c) \subseteq finished)
  \/ cpc[c] = "join" /\ \A w \in Workers : wpc[w] = "exited"

\* The pool never gets stuck: when no worker and no call can go on, everything
\* that was submitted has run, and no client is in waitForAll() or the destructor.
NeverStuck ==
  (\A w \in Workers : ~WorkerCan(w)) /\ (\A c \in Clients : ~ClientCan(c)) =>
    /\ submitted \subseteq finished
    /\ \A c \in Clients : cpc[c] \in {"idle", "destroyed"}

\* Every accepted task runs, whether or not somebody waits for it.
TasksFinish == \A t \in Tasks : t \in submitted ~> t \in finished

\* waitForAll and the destructor return.
CallsReturn ==
  /\ \A c \in Clients : cpc[c] = "barrier" ~> cpc[c] = "idle"
  /\ cpc[Owner] = "dtor" ~> cpc[Owner] = "destroyed"

=============================================================================

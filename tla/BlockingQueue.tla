---------------------------- MODULE BlockingQueue ----------------------------
(***************************************************************************)
(* oml::pipeline::BlockingQueue<T> (include/pipeline/BlockingQueue.h): the *)
(* monitor between two stages of the staged pipeline, at the granularity   *)
(* of its mutex and condition variable.                                    *)
(*                                                                         *)
(* Every thread runs one role of the pipeline's use of the queue:          *)
(* producers push distinct values, consumers pop until they get nullopt    *)
(* (as a worker loop does), stoppers call stop() once.  A call and its     *)
(* acquisition of the mutex are one step, since nothing happens between    *)
(* them.                                                                   *)
(***************************************************************************)
EXTENDS Naturals, Sequences, FiniteSets

CONSTANTS
  Producers, Consumers, Stoppers,
  Values,        \* every value is pushed at most once
  MaxSpurious,   \* bound on spurious wakeups
  NoThread       \* owner of a free mutex

Threads == Producers \union Consumers \union Stoppers

ASSUME RolesAssumption ==
  /\ Producers \intersect Consumers = {}
  /\ Producers \intersect Stoppers = {}
  /\ Consumers \intersect Stoppers = {}
  /\ NoThread \notin Threads

ASSUME FiniteAssumption == IsFiniteSet(Consumers)

ASSUME SpuriousAssumption == MaxSpurious \in Nat

VARIABLES
  queue_,     \* std::queue<T> queue_
  stop_,      \* bool stop_
  mutex_,     \* the thread that holds mutex_, or NoThread
  pc,         \* where each thread is
  arg,        \* arg[p]: the argument of p's current push
  offered,    \* history: the values that were passed to push()
  received,   \* history: received[c] are the values c popped, in order
  spurious    \* spurious wakeups so far

vars == <<queue_, stop_, mutex_, pc, arg, offered, received, spurious>>

ProducerPC == {"idle", "push", "notify"}
ConsumerPC == {"idle", "check", "block", "waiting", "woken", "done"}
StopperPC  == {"idle", "stop", "notify_all", "done"}

\* The locations at which a thread holds mutex_.
Critical == {"push", "notify", "check", "block", "stop"}

\* The wait set of not_empty_.
Waiting == {c \in Consumers : pc[c] = "waiting"}

Init ==
  /\ queue_ = <<>>
  /\ stop_ = FALSE
  /\ mutex_ = NoThread
  /\ pc = [t \in Threads |-> "idle"]
  /\ arg \in [Producers -> Values]
  /\ offered = {}
  /\ received = [c \in Consumers |-> <<>>]
  /\ spurious = 0

Go(t, to) == pc' = [pc EXCEPT ![t] = to]

\* std::unique_lock's constructor: t acquires the mutex when it is free.
Lock(t) ==
  /\ mutex_ = NoThread
  /\ mutex_' = t

Unlock == mutex_' = NoThread

-----------------------------------------------------------------------------
(***************************************************************************)
(* push(v)                                                                 *)
(***************************************************************************)
PushLock(p, v) ==
  /\ pc[p] = "idle"
  /\ v \notin offered
  /\ Lock(p)
  /\ Go(p, "push")
  /\ arg' = [arg EXCEPT ![p] = v]
  /\ offered' = offered \union {v}
  /\ UNCHANGED <<queue_, stop_, received, spurious>>

\* A stopped queue drops the value.
PushDrop(p) ==
  /\ pc[p] = "push"
  /\ stop_
  /\ Go(p, "idle")
  /\ Unlock
  /\ UNCHANGED <<queue_, stop_, arg, offered, received, spurious>>

PushEnqueue(p) ==
  /\ pc[p] = "push"
  /\ ~stop_
  /\ queue_' = Append(queue_, arg[p])
  /\ Go(p, "notify")
  /\ UNCHANGED <<stop_, mutex_, arg, offered, received, spurious>>

\* Mutation: a push that notifies only when the queue was empty before it.
NotifyOneWhenWasEmpty(p) ==
  /\ pc[p] = "notify"
  /\ IF Waiting = {} \/ Len(queue_) > 1
     THEN Go(p, "idle")
     ELSE \E c \in Waiting : pc' = [pc EXCEPT ![p] = "idle", ![c] = "woken"]
  /\ Unlock
  /\ UNCHANGED <<queue_, stop_, arg, offered, received, spurious>>

\* Mutation: a notify_one() that may wake a thread that is not waiting.
NotifyAnyThread(p) ==
  /\ pc[p] = "notify"
  /\ \E t \in Threads \ {p} : pc' = [pc EXCEPT ![p] = "idle", ![t] = "woken"]
  /\ Unlock
  /\ UNCHANGED <<queue_, stop_, arg, offered, received, spurious>>

\* not_empty_.notify_one() wakes any one waiter, if there is one; push then
\* returns, which releases the mutex.
NotifyOne(p) ==
  /\ pc[p] = "notify"
  /\ IF Waiting = {}
     THEN Go(p, "idle")
     ELSE \E c \in Waiting : pc' = [pc EXCEPT ![p] = "idle", ![c] = "woken"]
  /\ Unlock
  /\ UNCHANGED <<queue_, stop_, arg, offered, received, spurious>>

-----------------------------------------------------------------------------
(***************************************************************************)
(* pop()                                                                   *)
(***************************************************************************)

\* The first acquisition of the mutex, and the one inside wait() after a
\* wakeup: both are followed by an evaluation of the predicate.
PopLock(c) ==
  /\ pc[c] \in {"idle", "woken"}
  /\ Lock(c)
  /\ Go(c, "check")
  /\ UNCHANGED <<queue_, stop_, arg, offered, received, spurious>>

\* The predicate of not_empty_.wait().
Ready == queue_ # <<>> \/ stop_

PopTake(c) ==
  /\ pc[c] = "check"
  /\ Ready
  /\ queue_ # <<>>
  /\ queue_' = Tail(queue_)
  /\ received' = [received EXCEPT ![c] = Append(@, Head(queue_))]
  /\ Go(c, "idle")
  /\ Unlock
  /\ UNCHANGED <<stop_, arg, offered, spurious>>

\* pop() returns std::nullopt, which ends the consumer's loop.
PopNullopt(c) ==
  /\ pc[c] = "check"
  /\ Ready
  /\ queue_ = <<>>
  /\ Go(c, "done")
  /\ Unlock
  /\ UNCHANGED <<queue_, stop_, arg, offered, received, spurious>>

\* The predicate is false: wait() is about to block, still under the mutex.
PopUnready(c) ==
  /\ pc[c] = "check"
  /\ ~Ready
  /\ Go(c, "block")
  /\ UNCHANGED <<queue_, stop_, mutex_, arg, offered, received, spurious>>

\* wait() releases the mutex and enters the wait set atomically.
PopBlock(c) ==
  /\ pc[c] = "block"
  /\ Go(c, "waiting")
  /\ Unlock
  /\ UNCHANGED <<queue_, stop_, arg, offered, received, spurious>>

\* A condition variable may wake a waiter that nobody notified.
SpuriousWakeup(c) ==
  /\ pc[c] = "waiting"
  /\ spurious < MaxSpurious
  /\ spurious' = spurious + 1
  /\ Go(c, "woken")
  /\ UNCHANGED <<queue_, stop_, mutex_, arg, offered, received>>

-----------------------------------------------------------------------------
(***************************************************************************)
(* stop()                                                                  *)
(***************************************************************************)

\* Mutation: a stop() that sets stop_ without taking the mutex.
StopUnlocked(s) ==
  /\ pc[s] = "idle"
  /\ stop_' = TRUE
  /\ Go(s, "notify_all")
  /\ UNCHANGED <<queue_, mutex_, arg, offered, received, spurious>>

StopLock(s) ==
  /\ pc[s] = "idle"
  /\ Lock(s)
  /\ Go(s, "stop")
  /\ UNCHANGED <<queue_, stop_, arg, offered, received, spurious>>

StopSet(s) ==
  /\ pc[s] = "stop"
  /\ stop_' = TRUE
  /\ Go(s, "notify_all")
  /\ Unlock
  /\ UNCHANGED <<queue_, arg, offered, received, spurious>>

\* Mutation: a stop() that calls notify_one() instead of notify_all().
NotifySingle(s) ==
  /\ pc[s] = "notify_all"
  /\ IF Waiting = {}
     THEN Go(s, "done")
     ELSE \E c \in Waiting : pc' = [pc EXCEPT ![s] = "done", ![c] = "woken"]
  /\ UNCHANGED <<queue_, stop_, mutex_, arg, offered, received, spurious>>

\* not_empty_.notify_all(), after the mutex was released.
NotifyAll(s) ==
  /\ pc[s] = "notify_all"
  /\ pc' = [t \in Threads |->
              IF t = s THEN "done"
              ELSE IF t \in Waiting THEN "woken"
              ELSE pc[t]]
  /\ UNCHANGED <<queue_, stop_, mutex_, arg, offered, received, spurious>>

-----------------------------------------------------------------------------
Push(p) == PushDrop(p) \/ PushEnqueue(p) \/ NotifyOne(p)

Pop(c) ==
  \/ PopLock(c) \/ PopTake(c) \/ PopNullopt(c)
  \/ PopUnready(c) \/ PopBlock(c)

FinishStop(s) == StopSet(s) \/ NotifyAll(s)

Next ==
  \/ \E p \in Producers : (\E v \in Values : PushLock(p, v)) \/ Push(p)
  \/ \E c \in Consumers : Pop(c) \/ SpuriousWakeup(c)
  \/ \E s \in Stoppers : StopLock(s) \/ FinishStop(s)

Spec == Init /\ [][Next]_vars

(***************************************************************************)
(* A thread that started a call finishes it, and a consumer keeps popping. *)
(* Nobody has to push or to stop.  Weak fairness is enough: a queue sees   *)
(* finitely many calls, so the mutex is eventually free for each thread.   *)
(***************************************************************************)
Fairness ==
  /\ \A p \in Producers : WF_vars(Push(p))
  /\ \A c \in Consumers : WF_vars(Pop(c))
  /\ \A s \in Stoppers : WF_vars(FinishStop(s))

FairSpec == Spec /\ Fairness

-----------------------------------------------------------------------------
(***************************************************************************)
(* Properties                                                              *)
(***************************************************************************)

TypeOK ==
  /\ queue_ \in Seq(Values)
  /\ stop_ \in BOOLEAN
  /\ mutex_ \in Threads \union {NoThread}
  /\ pc \in [Threads -> ProducerPC \union ConsumerPC \union StopperPC]
  /\ \A p \in Producers : pc[p] \in ProducerPC
  /\ \A c \in Consumers : pc[c] \in ConsumerPC
  /\ \A s \in Stoppers : pc[s] \in StopperPC
  /\ arg \in [Producers -> Values]
  /\ offered \subseteq Values
  /\ received \in [Consumers -> Seq(Values)]
  /\ spurious \in 0..MaxSpurious

\* The threads that hold mutex_ are those inside a critical section, so two
\* threads never touch queue_ or stop_ at once.
MutualExclusion == \A t \in Threads : pc[t] \in Critical <=> mutex_ = t

\* Consumers inside pop() that will look at the queue before they block, and
\* producers (at most one) that still owe their notify_one().
Awake == {c \in Consumers : pc[c] \in {"woken", "check"}}
Notifying == {p \in Producers : pc[p] = "notify"}

\* While a consumer sleeps, every queued value is accounted for by a consumer
\* already on its way to the queue or by a notify_one() still to come:
\* push's notify_one per value never leaves a value behind with everyone
\* asleep, whichever thread wins the race for the mutex.
NoLostWakeup ==
  Waiting # {} =>
    \/ Len(queue_) <= Cardinality(Awake)
    \/ Notifying # {} /\ Len(queue_) <= Cardinality(Awake) + 1

\* A consumer sleeps on a stopped queue only while some stop() has its
\* notify_all() still to do, although stop() notifies outside the mutex.
StopReachesWaiters ==
  stop_ /\ Waiting # {} => \E s \in Stoppers : pc[s] = "notify_all"

\* Thread t can take a step of the call it is in, or a consumer its next pop().
CanGo(t) ==
  \/ pc[t] \in Critical \union {"notify_all"}
  \/ t \in Consumers /\ pc[t] \in {"idle", "woken"} /\ mutex_ = NoThread

\* Nothing gets stuck: when nobody can go on, no call holds the mutex, the
\* consumers took everything, and they sleep only in a queue that runs, waiting
\* for a value that was not pushed.
NeverStuck ==
  (\A t \in Threads : ~CanGo(t)) =>
    /\ mutex_ = NoThread
    /\ \A c \in Consumers :
         queue_ = <<>> /\ pc[c] = IF stop_ THEN "done" ELSE "waiting"

\* The monitor implements the queue it promises: accepted values leave in the
\* order they entered, each to one consumer, and nullopt means stopped and
\* drained.
FQ == INSTANCE FifoQueue WITH
        items <- queue_, closed <- stop_, received <- received,
        finished <- {c \in Consumers : pc[c] = "done"}

ImplementsFifoQueue == FQ!SafeSpec

\* What must go on does: values are taken while consumers ask for them, and a
\* stopped queue releases every consumer, so that join() on them cannot hang.
ImplementsLiveQueue == FQ!LiveSpec

=============================================================================

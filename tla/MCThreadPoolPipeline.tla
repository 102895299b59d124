------------------------ MODULE MCThreadPoolPipeline ------------------------
(* Instances of ThreadPoolPipeline for TLC. *)
EXTENDS ThreadPoolPipeline, TLC

CONSTANTS w1, w2, owner, other, t1, t2, t3, none, nullptr, threw, noresult

TwoWorkers == {w1, w2}
TwoClients == {owner, other}
OneClient == {owner}
TwoTasks == {t1, t2}
ThreeTasks == {t1, t2, t3}
LastIsNull == {t3}
NoNulls == {}

AllOutcomes == {"frame", "null", "throw"}
SomeBatches == {<<>>, <<t1>>, <<t1, t2>>, <<t1, t2, t3>>, <<t3>>, <<t2, t3>>}
OneBatch == {<<t1, t2>>}

\* Workers are interchangeable; tasks are not, because of the batches.
Symmetry == Permutations(Workers)

=============================================================================

---------------------------- MODULE MCThreadPool ----------------------------
(* Instances of ThreadPool for TLC. *)
EXTENDS ThreadPool, TLC

CONSTANTS w1, w2, owner, other, t1, t2, none

TwoWorkers == {w1, w2}
TwoClients == {owner, other}
OneClient == {owner}
OneTask == {t1}
TwoTasks == {t1, t2}

=============================================================================

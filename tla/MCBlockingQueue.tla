--------------------------- MODULE MCBlockingQueue ---------------------------
(* Instances of BlockingQueue for TLC. *)
EXTENDS BlockingQueue, TLC

CONSTANTS p1, p2, c1, c2, c3, s1, s2, v1, v2, none

MCProducers == {p1, p2}
MCConsumers == {c1, c2, c3}
MCStoppers == {s1, s2}
MCValues == {v1, v2}

=============================================================================

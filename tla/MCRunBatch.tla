----------------------------- MODULE MCRunBatch -----------------------------
(* Instances of RunBatch for TLC. *)
EXTENDS RunBatch

CONSTANTS f1, f2, f3, none, owner

TwoFrames == {f1, f2}
ThreeFrames == {f1, f2, f3}
Nobody == {}
NoThrow == {"frame", "null"}

\* No frames, a part of them, all of them, and a nullptr among them.
SomeBatches == {<<>>, <<f2>>, <<f1, f2>>, <<f1, f2, f3>>, <<f1, none, f3>>}
TwoBatches == {<<>>, <<f1, f2>>}

ThreeIds == 0..2
TwoIds == 0..1

=============================================================================

-------------------------- MODULE MCStagedPipeline --------------------------
(* Instances of StagedPipeline for TLC. *)
EXTENDS StagedPipeline, TLC

CONSTANTS f1, f2, f3, none, owner, other

TwoFrames == {f1, f2}
ThreeFrames == {f1, f2, f3}
OneSubmitter == {other}
NoSubmitter == {}

AllOutcomes == {"frame", "null", "throw"}
NoThrow == {"frame", "null"}
NoFailure == {"frame"}

=============================================================================

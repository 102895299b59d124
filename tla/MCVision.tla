------------------------------ MODULE MCVision ------------------------------
(***************************************************************************)
(* Detection, ModelManager and BenchmarkRunner for TLC.  They share no     *)
(* state, so each behaviour is one of one of them.                         *)
(***************************************************************************)
EXTENDS Detection, ModelManager, BenchmarkRunner, TLC

CONSTANTS i1, i2, i3, i4, ma, mb, mc, md

VARIABLE part

Init ==
  /\ DetectionInit /\ ManagerInit /\ BenchmarkInit
  /\ part \in {"detection", "models", "benchmark"}

Next ==
  /\ UNCHANGED part
  /\ \/ part = "detection" /\ DetectionNext /\ UNCHANGED <<manager, benchmark>>
     \/ part = "models" /\ ManagerNext /\ UNCHANGED <<detection, benchmark>>
     \/ part = "benchmark" /\ BenchmarkNext /\ UNCHANGED <<detection, manager>>

Spec == Init /\ [][Next]_<<part, detection, manager, benchmark>>

\* Three models, one of a task without pipeline; one name is not registered.
FourNames == {ma, mb, mc, md}
SomeRegistry == ma :> "detection" @@ mb :> "classification" @@ mc :> "unknown"
FourInferences == {i1, i2, i3, i4}

\* A picture that is enlarged, one that is reduced with rounding, both upright
\* and lying, and one whose short side vanishes.
SomeImages == { [w |-> 3, h |-> 2], [w |-> 7, h |-> 19], [w |-> 5, h |-> 5], [w |-> 40, h |-> 1] }

Threshold == [num |-> 2, den |-> 5]
Cfg(restore, mode, format, n) ==
  [restore |-> restore, resize_mode |-> mode, target_w |-> 8, target_h |-> 9,
   box_format |-> format, conf_threshold |-> 1, nms_threshold |-> Threshold,
   num_candidates |-> n]
SomeConfigs ==
  { Cfg(TRUE, "letterbox", "xywh", 3), Cfg(TRUE, "letterbox", "xyxy", 1),
    Cfg(TRUE, "stretch", "xywh", 2), Cfg(FALSE, "letterbox", "xywh", 3) }

\* Three boxes in a row, each of which overlaps the next but not the one after,
\* and one that reaches out of the picture.
Cand(x, y, w, h, s) == [x |-> x, y |-> y, w |-> w, h |-> h, scores |-> s]
SomeCandidates ==
  { Cand(box[1], box[2], box[3], box[4], s) :
      box \in { <<3, 4, 4, 4>>, <<4, 4, 4, 4>>, <<5, 4, 4, 4>>, <<0, 7, 7, 8>> },
      s \in { <<0, -1>>, <<1, 2>>, <<3, 1>> } }

=============================================================================

----------------------------- MODULE Detection -----------------------------
(***************************************************************************)
(* One run of a detection pipeline: the geometry of preprocessing, a model *)
(* that may answer anything, the decoding of its output and non-maximum    *)
(* suppression.  With restore set this is DetectionPipeline::run of the    *)
(* demo (preProcessor.cpp, postProcessor.cpp), where boxes are mapped back *)
(* to the original image; otherwise it is PreprocessStage, InferenceStage  *)
(* and PostprocessStage of OpenMachineLab, where they stay in the          *)
(* coordinates of the model's input.                                       *)
(*                                                                         *)
(* Floats are exact numbers.  A coordinate is an integer in a unit that    *)
(* makes all of them integers, half a pixel divided by the scale's         *)
(* numerator; the overlap of two boxes does not depend on the unit.        *)
(***************************************************************************)
EXTENDS Letterbox, Sequences, FiniteSetsExt

CONSTANTS
  Images,      \* sizes of images, [w, h]
  Configs,     \* pre- and postprocessing of the models
  Candidates   \* what a model may say of a candidate: x, y, w, h, scores

ASSUME DetectionAssumption ==
  /\ Images \subseteq [w : Nat \ {0}, h : Nat \ {0}]
  /\ Configs \subseteq
       [restore : BOOLEAN, resize_mode : {"letterbox", "stretch"},
        target_w : Nat \ {0}, target_h : Nat \ {0}, box_format : {"xywh", "xyxy"},
        conf_threshold : Int, nms_threshold : [num : Nat, den : Nat \ {0}],
        num_candidates : Nat]
  /\ Candidates \subseteq [x : Int, y : Int, w : Int, h : Int, scores : Seq(Int)]

VARIABLES
  phase,       \* "idle", "ready", "nms" or "done"
  image, cfg,  \* the input of the run
  info,        \* PreprocessInfo: ratio, padding on the left and the top, resized size
  output,      \* the candidates in the output of the model
  order,       \* detections: the numbers of their candidates, sorted
  at,          \* the index i of the suppression
  suppressed,  \* indices of detections
  kept         \* nms_result, the numbers of candidates again

detection == <<phase, image, cfg, info, output, order, at, suppressed, kept>>

NoInfo == [num |-> 1, den |-> 1, pad_left |-> 0, pad_top |-> 0, new_w |-> 0, new_h |-> 0]

DetectionInit ==
  /\ phase = "idle"   \* no run yet, whatever the first one will be
  /\ image \in Images /\ cfg \in Configs
  /\ info = NoInfo
  /\ output = <<>> /\ order = <<>> /\ at = 1 /\ suppressed = {} /\ kept = <<>>

-----------------------------------------------------------------------------
(***************************************************************************)
(* Preprocessing                                                           *)
(***************************************************************************)

\* In stretch mode the scale stays 1 and there is no padding.
Info(img, c) ==
  LET r == Ratio(img.w, img.h, c.target_w, c.target_h)
      new_w == Scaled(img.w, r)
      new_h == Scaled(img.h, r)
  IN  IF c.resize_mode = "letterbox"
      THEN [num |-> r.num, den |-> r.den,
            pad_left |-> PadBefore(c.target_w, new_w),
            pad_top |-> PadBefore(c.target_h, new_h),
            new_w |-> new_w, new_h |-> new_h]
      ELSE [NoInfo EXCEPT !.new_w = c.target_w, !.new_h = c.target_h]

\* cv::resize throws if one side of a long and thin image vanishes.  Whatever
\* throws before the model has run leaves everything as it is.
Preprocess(img, c) ==
  /\ phase \in {"idle", "done"}
  /\ info' = Info(img, c)
  /\ info'.new_w > 0 /\ info'.new_h > 0
  /\ phase' = "ready" /\ image' = img /\ cfg' = c
  /\ output' = <<>> /\ order' = <<>> /\ at' = 1 /\ suppressed' = {} /\ kept' = <<>>

-----------------------------------------------------------------------------
(***************************************************************************)
(* Decoding: confidence and box of a candidate                             *)
(***************************************************************************)

\* max_score starts at 0.
Confidence(c) == Max({0} \union {c.scores[k] : k \in DOMAIN c.scores})

\* The sides in the input of the model, in half pixels.
ModelBox(c, box_format) ==
  IF box_format = "xywh"
  THEN [left |-> 2 * c.x - c.w, top |-> 2 * c.y - c.h,
        right |-> 2 * c.x + c.w, bottom |-> 2 * c.y + c.h]
  ELSE [left |-> 2 * c.x, top |-> 2 * c.y, right |-> 2 * c.w, bottom |-> 2 * c.h]

Clip(v, limit) == IF v < 0 THEN 0 ELSE IF v > limit THEN limit ELSE v

\* Mutation: the padding is undone after the scale.
ScaledFirst(v, pad, len) == Clip(v * info.den - 2 * pad * info.num, 2 * info.num * len)

\* Undo the padding, divide by the scale, clip to the side of the image.
Restored(v, pad, len) == Clip((v - 2 * pad) * info.den, 2 * info.num * len)

Box(c) ==
  LET m == ModelBox(c, cfg.box_format) IN
  IF ~cfg.restore THEN m
  ELSE [left |-> Restored(m.left, info.pad_left, image.w),
        top |-> Restored(m.top, info.pad_top, image.h),
        right |-> Restored(m.right, info.pad_left, image.w),
        bottom |-> Restored(m.bottom, info.pad_top, image.h)]

\* The detections before suppression.  An output of another size than the
\* configuration says has none.
Detections(out) ==
  {k \in DOMAIN out : Len(out) = cfg.num_candidates
                      /\ Confidence(out[k]) >= cfg.conf_threshold}

\* std::sort by descending confidence is not stable: any order of equal ones.
Sorted(out) ==
  LET found == Detections(out) IN
  {s \in Bijection(1..Cardinality(found), found) : \A i, j \in DOMAIN s :
     i < j => Confidence(out[s[i]]) >= Confidence(out[s[j]])}

\* The model has run.
Decode(out) ==
  /\ phase = "ready"
  /\ phase' = "nms"
  /\ output' = out
  /\ order' \in Sorted(out)
  /\ UNCHANGED <<image, cfg, info, at, suppressed, kept>>

-----------------------------------------------------------------------------
(***************************************************************************)
(* Non-maximum suppression                                                 *)
(***************************************************************************)

Positive(v) == IF v < 0 THEN 0 ELSE v
Smaller(a, b) == IF a < b THEN a ELSE b
Larger(a, b) == IF a < b THEN b ELSE a

Intersection(a, b) ==
    Positive(Smaller(a.right, b.right) - Larger(a.left, b.left))
  * Positive(Smaller(a.bottom, b.bottom) - Larger(a.top, b.top))
Area(a) == (a.right - a.left) * (a.bottom - a.top)

\* computeIoU(a, b) > nms_threshold, without the division.  The 1e-6 in the
\* divisor keeps boxes without area from overlapping, as does the first conjunct.
Overlap(a, b) ==
  LET inter == Intersection(a, b) IN
  /\ inter > 0
  /\ inter * cfg.nms_threshold.den >
       cfg.nms_threshold.num * (Area(a) + Area(b) - inter)

OverlapAt(i, j) == Overlap(Box(output[order[i]]), Box(output[order[j]]))

\* Mutation: a suppressed detection suppresses others.
SuppressAll ==
  /\ phase = "nms" /\ at \in DOMAIN order
  /\ at' = at + 1
  /\ kept' = IF at \in suppressed THEN kept ELSE Append(kept, order[at])
  /\ suppressed' = suppressed \union
                   {j \in DOMAIN order : j > at /\ OverlapAt(at, j)}
  /\ UNCHANGED <<phase, image, cfg, info, output, order>>

\* One round of the loop over detections.
Suppress ==
  /\ phase = "nms" /\ at \in DOMAIN order
  /\ at' = at + 1
  /\ IF at \in suppressed
     THEN UNCHANGED <<kept, suppressed>>
     ELSE /\ kept' = Append(kept, order[at])
          /\ suppressed' = suppressed \union
                           {j \in DOMAIN order : j > at /\ OverlapAt(at, j)}
  /\ UNCHANGED <<phase, image, cfg, info, output, order>>

Return ==
  /\ phase = "nms" /\ at \notin DOMAIN order
  /\ phase' = "done"
  /\ UNCHANGED <<image, cfg, info, output, order, at, suppressed, kept>>

\* The model throws, or the demo does not find the labels in the end.
Throw ==
  /\ phase = "ready" \/ (phase = "nms" /\ at \notin DOMAIN order)
  /\ phase' = "idle"
  /\ output' = <<>> /\ order' = <<>> /\ at' = 1 /\ suppressed' = {} /\ kept' = <<>>
  /\ UNCHANGED <<image, cfg, info>>

DetectionNext ==
  \/ \E img \in Images, c \in Configs : Preprocess(img, c)
  \/ \E n \in 0..cfg.num_candidates : \E out \in [1..n -> Candidates] : Decode(out)
  \/ Suppress \/ Return \/ Throw

DetectionSpec == DetectionInit /\ [][DetectionNext]_detection

-----------------------------------------------------------------------------
(***************************************************************************)
(* Properties                                                              *)
(***************************************************************************)

\* Non-maximum suppression returns detections of which no two overlap by more
\* than the threshold, and leaves out a detection only because of one it
\* returns that has at least its confidence and overlaps it: "keep the
\* highest-confidence box and suppress any overlapping box"
\* (postProcessor.cpp:167-168), whatever the sort does with equal scores and
\* however suppressed boxes chain.
NmsKeepsTheBest ==
  phase = "done" =>
    /\ \A i, j \in DOMAIN kept : i # j =>
         kept[i] # kept[j] /\ ~Overlap(Box(output[kept[i]]), Box(output[kept[j]]))
    /\ \A c \in Detections(output) \ {kept[i] : i \in DOMAIN kept} :
         \E i \in DOMAIN kept :
           /\ Confidence(output[kept[i]]) >= Confidence(output[c])
           /\ Overlap(Box(output[kept[i]]), Box(output[c]))

\* A side of a restored box, put through the resizing (which maps len to new)
\* and the padding of the image again, is half a model pixel or less from where
\* the model saw it, or from the edge of the picture when it saw it in the padding.
ComesBack(v, restored, pad, new, len) ==
  LET seen == Clip(v - 2 * pad, 2 * new)
      back == restored * new - seen * info.num * len
  IN  -(info.num * len) <= back /\ back <= info.num * len

\* Boxes of a letterboxed image come back to the place in the original image
\* where the model saw them, although the resized image is rounded to whole
\* pixels and the padding to halves ("so that detection postprocess can map
\* model-output boxes back to original image coordinates", modelInfo.h:40-42).
BoxesComeBack ==
  (phase \in {"nms", "done"} /\ cfg.restore /\ cfg.resize_mode = "letterbox") =>
    \A k \in DOMAIN order :
      LET c == output[order[k]]
          m == ModelBox(c, cfg.box_format)
          b == Box(c)
      IN  /\ ComesBack(m.left, b.left, info.pad_left, info.new_w, image.w)
          /\ ComesBack(m.right, b.right, info.pad_left, info.new_w, image.w)
          /\ ComesBack(m.top, b.top, info.pad_top, info.new_h, image.h)
          /\ ComesBack(m.bottom, b.bottom, info.pad_top, info.new_h, image.h)

=============================================================================

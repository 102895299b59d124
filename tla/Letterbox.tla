----------------------------- MODULE Letterbox -----------------------------
(***************************************************************************)
(* The geometry that PreProcessor::letterbox of the demo and               *)
(* PreprocessStage::process of OpenMachineLab compute with the same code:  *)
(* an image is scaled to fit into the input of the model and padded to its *)
(* size.  The float r is the exact ratio r.num / r.den here.               *)
(***************************************************************************)
EXTENDS Integers

\* The smaller of target_w / w and target_h / h.
Ratio(w, h, target_w, target_h) ==
  IF target_w * h <= target_h * w THEN [num |-> target_w, den |-> w]
                                  ELSE [num |-> target_h, den |-> h]

\* std::round of len * r, which is not negative.
Scaled(len, r) == (2 * len * r.num + r.den) \div (2 * r.den)

\* pad_left or pad_top, pad_right or pad_bottom.
PadBefore(target, new) == (target - new) \div 2
PadAfter(target, new) == target - new - PadBefore(target, new)

=============================================================================

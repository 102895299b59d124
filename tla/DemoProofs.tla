----------------------------- MODULE DemoProofs -----------------------------
(***************************************************************************)
(* Proofs about the opencv_onnx_demo: Letterbox, Detection and             *)
(* ModelManager, for images and inputs of any size, any number of          *)
(* candidates and classes, whatever the model answers, any registry and    *)
(* any number of calls.                                                    *)
(***************************************************************************)
EXTENDS Detection, ModelManager, FiniteSetTheorems, TLAPS

-----------------------------------------------------------------------------
(* Arithmetic. *)

LEMMA Division ==
  ASSUME NEW a \in Int, NEW b \in Nat \ {0}
  PROVE  /\ a \div b \in Int
         /\ b * (a \div b) <= a /\ a < b * (a \div b) + b
<1>1. a \div b \in Int /\ a % b \in 0..(b - 1) /\ a = b * (a \div b) + (a % b)
  OBVIOUS
<1>2. b * (a \div b) \in Int
  BY <1>1
<1> DEFINE q == b * (a \div b)
<1> HIDE DEF q
<1>3. q <= a /\ a < q + b
  BY <1>1, <1>2 DEF q
<1>4. QED
  BY <1>1, <1>3 DEF q

LEMMA Products ==
  ASSUME NEW a \in Int, NEW b \in Int, NEW c \in Int
  PROVE  /\ a * b \in Int
         /\ a <= b /\ 0 <= c => a * c <= b * c /\ c * a <= c * b
         /\ a * b = b * a
         /\ (a * b) * c = a * (b * c)
         /\ (a + b) * c = a * c + b * c
         /\ (a - b) * c = a * c - b * c
  OBVIOUS

-----------------------------------------------------------------------------
(***************************************************************************)
(* Letterbox                                                               *)
(***************************************************************************)

\* std::round: half a pixel or less away, and not beyond the target.
LEMMA ScaledNear ==
  ASSUME NEW len \in Nat, NEW num \in Nat, NEW den \in Nat \ {0}, NEW target \in Nat,
         len * num <= target * den
  PROVE  LET s == Scaled(len, [num |-> num, den |-> den]) IN
         /\ s \in Nat /\ s <= target
         /\ 2 * (s * den) <= 2 * (len * num) + den
         /\ 2 * (len * num) < 2 * (s * den) + den
<1> DEFINE p == len * num
           s == (2 * p + den) \div (2 * den)
<1>1. p \in Nat /\ 2 * den \in Nat \ {0} /\ target * den \in Nat
  OBVIOUS
<1>2. Scaled(len, [num |-> num, den |-> den]) = s
  <2>1. 2 * len * num = 2 * p
    OBVIOUS
  <2>2. QED
    BY <2>1 DEF Scaled
<1> HIDE DEF p
<1>3. /\ s \in Int
      /\ (2 * den) * s <= 2 * p + den
      /\ 2 * p + den < (2 * den) * s + 2 * den
  <2>1. 2 * p + den \in Int
    BY <1>1
  <2>2. QED
    BY <1>1, <2>1, Division
<1> HIDE DEF s
<1>4. (2 * den) * s = 2 * (s * den) /\ s * den \in Int
  BY <1>3
<1>5. s >= 0
  <2> SUFFICES ASSUME s <= -1 PROVE FALSE
    BY <1>3
  <2>1. s * den <= (-1) * den
    BY <1>3, Products
  <2>2. QED
    BY <1>1, <1>3, <1>4, <2>1
<1>6. s <= target
  <2> SUFFICES ASSUME s >= target + 1 PROVE FALSE
    BY <1>3
  <2>1. (target + 1) * den <= s * den /\ (target + 1) * den = target * den + den
    BY <1>3, Products
  <2>2. p <= target * den
    BY DEF p
  <2>3. QED
    BY <1>1, <1>3, <1>4, <2>1, <2>2
<1>7. 2 * (s * den) <= 2 * p + den /\ 2 * p < 2 * (s * den) + den
  BY <1>1, <1>3, <1>4
<1>8. QED
  BY <1>2, <1>3, <1>5, <1>6, <1>7 DEF p

\* The ratio is such that neither side becomes larger than the target.
LEMMA RatioFits ==
  ASSUME NEW w \in Nat \ {0}, NEW h \in Nat \ {0},
         NEW tw \in Nat \ {0}, NEW th \in Nat \ {0}
  PROVE  LET r == Ratio(w, h, tw, th) IN
         /\ r = [num |-> r.num, den |-> r.den]
         /\ r.num \in Nat \ {0} /\ r.den \in Nat \ {0}
         /\ w * r.num <= tw * r.den /\ h * r.num <= th * r.den
<1>1. CASE tw * h <= th * w
  <2>1. Ratio(w, h, tw, th) = [num |-> tw, den |-> w]
    BY <1>1 DEF Ratio
  <2>2. w * tw <= tw * w /\ h * tw <= th * w
    BY <1>1, Products
  <2>3. QED
    BY <2>1, <2>2
<1>2. CASE ~(tw * h <= th * w)
  <2>1. Ratio(w, h, tw, th) = [num |-> th, den |-> h]
    BY <1>2 DEF Ratio
  <2>2. tw * h \in Int /\ th * w \in Int /\ w * th = th * w /\ h * th = th * h
    BY Products
  <2>3. w * th <= tw * h /\ h * th <= th * h
    BY <1>2, <2>2
  <2>4. QED
    BY <2>1, <2>3
<1>3. QED
  BY <1>1, <1>2

\* A letterboxed image fits into the input of the model: neither side is larger,
\* copyMakeBorder gets no negative padding, the padding makes up what is missing,
\* and the two sides of it differ by one pixel at most.
THEOREM LetterboxFits ==
  ASSUME NEW w \in Nat \ {0}, NEW h \in Nat \ {0},
         NEW tw \in Nat \ {0}, NEW th \in Nat \ {0}
  PROVE  LET r == Ratio(w, h, tw, th)
             Fits(len, target) ==
               LET new == Scaled(len, r)
                   before == PadBefore(target, new)
                   after == PadAfter(target, new)
               IN  /\ new \in Nat /\ before \in Nat /\ after \in Nat
                   /\ before + new + after = target
                   /\ before <= after /\ after <= before + 1
         IN  Fits(w, tw) /\ Fits(h, th)
<1> DEFINE r == Ratio(w, h, tw, th)
<1>1. ASSUME NEW len \in Nat, NEW target \in Nat, len * r.num <= target * r.den
      PROVE  LET new == Scaled(len, r)
                 before == PadBefore(target, new)
                 after == PadAfter(target, new)
             IN  /\ new \in Nat /\ before \in Nat /\ after \in Nat
                 /\ before + new + after = target
                 /\ before <= after /\ after <= before + 1
  <2> DEFINE new == Scaled(len, r)
  <2>1. new \in Nat /\ new <= target
    <3>1. r = [num |-> r.num, den |-> r.den] /\ r.num \in Nat /\ r.den \in Nat \ {0}
      BY RatioFits
    <3> HIDE DEF r
    <3>2. QED
      BY <1>1, <3>1, ScaledNear
  <2> HIDE DEF new, r
  <2>2. QED
    BY <2>1 DEF PadBefore, PadAfter, new
<1>2. QED
  BY <1>1, RatioFits

-----------------------------------------------------------------------------
(***************************************************************************)
(* A side of a box and back: t is twice its distance from the padding.     *)
(***************************************************************************)
LEMMA RoundTrip ==
  ASSUME NEW t \in Int, NEW new \in Nat, NEW len \in Nat, NEW num \in Nat,
         NEW den \in Nat \ {0},
         2 * (new * den) <= 2 * (len * num) + den,
         2 * (len * num) < 2 * (new * den) + den
  PROVE  LET back == Clip(t * den, 2 * num * len) * new - Clip(t, 2 * new) * num * len IN
         -(num * len) <= back /\ back <= num * len
<1> DEFINE q == len * num
           n == new * den
           d == t * den
           X == Clip(d, 2 * q)
           C == Clip(t, 2 * new)
<1>1. q \in Nat /\ n \in Nat /\ d \in Int
  OBVIOUS
<1>2. X \in Int /\ C \in Int
  BY <1>1 DEF Clip
<1>3. 2 * num * len = 2 * q /\ num * len = q /\ C * num * len = C * q
  <2>1. num * len = q
    BY Products
  <2>2. 2 * num * len = 2 * (num * len)
    BY Products
  <2>3. C * num * len = C * (num * len)
    BY <1>2, Products
  <2>4. QED
    BY <2>1, <2>2, <2>3
<1> SUFFICES -q <= X * new - C * q /\ X * new - C * q <= q
  BY <1>3
<1>4. 2 * n <= 2 * q + den /\ 2 * q < 2 * n + den
  OBVIOUS
<1>5. CASE t < 0
  <2>1. d <= 0
    <3>1. t * den <= 0 * den
      BY <1>5, Products
    <3>2. QED
      BY <3>1
  <2>2. X = 0 /\ C = 0
    BY <1>1, <1>5, <2>1 DEF Clip
  <2> HIDE DEF q, X, C
  <2>3. X * new = 0 /\ C * q = 0
    BY <1>1, <2>2
  <2>4. QED
    BY <1>1, <2>3
<1>6. CASE 0 <= t /\ t <= 2 * new /\ d <= 2 * q
  <2>1. d >= 0
    <3>1. 0 * den <= t * den
      BY <1>6, Products
    <3>2. QED
      BY <3>1
  <2>2. X = d /\ C = t
    BY <1>1, <1>6, <2>1 DEF Clip
  <2>3. X * new = t * n
    <3>1. (t * den) * new = t * (den * new) /\ den * new = new * den
      BY Products
    <3>2. QED
      BY <2>2, <3>1
  <2>4. t * (2 * n) <= t * (2 * q + den) /\ t * (2 * q) <= t * (2 * n + den)
    <3> HIDE DEF q, n, d
    <3>1. QED
      BY <1>1, <1>4, <1>6, Products
  <2>5. /\ t * (2 * n) = 2 * (t * n) /\ t * (2 * q) = 2 * (t * q)
        /\ t * (2 * q + den) = 2 * (t * q) + d /\ t * (2 * n + den) = 2 * (t * n) + d
        /\ t * n \in Int /\ t * q \in Int
    <3>1. /\ t * (2 * q + den) = t * (2 * q) + t * den
          /\ t * (2 * n + den) = t * (2 * n) + t * den
      OBVIOUS
    <3> HIDE DEF q, n
    <3>2. QED
      BY <1>1, <3>1
  <2> HIDE DEF q, n, d, X, C
  <2>6. 2 * (t * n) <= 2 * (t * q) + d /\ 2 * (t * q) <= 2 * (t * n) + d
    BY <2>4, <2>5
  <2>7. QED
    BY <1>1, <1>6, <2>2, <2>3, <2>5, <2>6
<1>7. CASE 0 <= t /\ t <= 2 * new /\ d > 2 * q
  <2>1. t = 2 * new
    <3> SUFFICES ASSUME t + 1 <= 2 * new PROVE FALSE
      BY <1>7
    <3>1. (t + 1) * den <= (2 * new) * den
      BY Products
    <3>2. (t + 1) * den = d + den /\ (2 * new) * den = 2 * n
      OBVIOUS
    <3> HIDE DEF q, n, d
    <3>3. QED
      BY <1>1, <1>4, <1>7, <3>1, <3>2
  <2>2. X = 2 * q /\ C = 2 * new
    BY <1>1, <1>7, <2>1 DEF Clip
  <2> HIDE DEF q, X, C
  <2>3. X * new = C * q
    BY <1>1, <2>2
  <2>4. QED
    BY <1>1, <1>2, <2>3
<1>8. CASE t > 2 * new /\ d <= 2 * q
  <2>1. (2 * new + 1) * den <= d
    BY <1>8, Products
  <2>2. (2 * new + 1) * den = 2 * n + den
    OBVIOUS
  <2>3. d = 2 * q
    <3> HIDE DEF q, n, d
    <3>1. QED
      BY <1>1, <1>4, <1>8, <2>1, <2>2
  <2>4. X = 2 * q /\ C = 2 * new
    BY <1>1, <1>8, <2>3 DEF Clip
  <2> HIDE DEF q, X, C
  <2>5. X * new = C * q
    BY <1>1, <2>4
  <2>6. QED
    BY <1>1, <1>2, <2>5
<1>9. CASE t > 2 * new /\ d > 2 * q
  <2>1. X = 2 * q /\ C = 2 * new
    BY <1>1, <1>9 DEF Clip
  <2> HIDE DEF q, X, C
  <2>2. X * new = C * q
    BY <1>1, <2>1
  <2>3. QED
    BY <1>1, <1>2, <2>2
<1>10. QED
  BY <1>1, <1>5, <1>6, <1>7, <1>8, <1>9

-----------------------------------------------------------------------------
(***************************************************************************)
(* The inductive invariant of a run.  The positions that the suppression   *)
(* has passed and kept are those before at that are not suppressed; what   *)
(* is suppressed is what one of them overlaps.                             *)
(***************************************************************************)
Passed == {i \in DOMAIN order : i < at /\ i \notin suppressed}

Types ==
  /\ phase \in {"idle", "ready", "nms", "done"}
  /\ image \in Images /\ cfg \in Configs
  /\ output \in Seq(Candidates)
  /\ at \in Nat \ {0}
  /\ kept \in Seq(Nat)

Fresh == phase = "ready" =>
  /\ info = Info(image, cfg)
  /\ at = 1 /\ suppressed = {} /\ kept = <<>>

Loop == phase \in {"nms", "done"} =>
  /\ info = Info(image, cfg)
  /\ order \in Sorted(output)
  /\ suppressed = {j \in DOMAIN order : \E i \in Passed : i < j /\ OverlapAt(i, j)}
  /\ \A k \in DOMAIN kept : \E i \in Passed : kept[k] = order[i]
  /\ \A i \in Passed : \E k \in DOMAIN kept : kept[k] = order[i]
  /\ \A k, l \in DOMAIN kept : k # l => kept[k] # kept[l]

Finished == phase = "done" => at \notin DOMAIN order

IInv == Types /\ Fresh /\ Loop /\ Finished

\* The sorted detections are each detection once, at the positions 1..n.
LEMMA SortedParts ==
  ASSUME NEW out \in Seq(Candidates), NEW s \in Sorted(out)
  PROVE  /\ \E n \in Nat : DOMAIN s = 1..n
         /\ \A i \in DOMAIN s : s[i] \in Detections(out) /\ s[i] \in DOMAIN out /\ s[i] \in Nat
         /\ \A i, j \in DOMAIN s : s[i] = s[j] => i = j
         /\ \A c \in Detections(out) : \E i \in DOMAIN s : s[i] = c
         /\ \A i, j \in DOMAIN s : i < j => Confidence(out[s[i]]) >= Confidence(out[s[j]])
<1> DEFINE found == Detections(out)
           n == Cardinality(found)
<1>1. found \subseteq 1..Len(out) /\ Len(out) \in Nat /\ DOMAIN out = 1..Len(out)
  BY DEF Detections
<1>2. IsFiniteSet(found)
  <2>1. IsFiniteSet(1..Len(out))
    BY <1>1, FS_Interval
  <2> HIDE DEF found
  <2>2. QED
    BY <1>1, <2>1, FS_Subset
<1>3. n \in Nat
  BY <1>2, FS_CardinalityType
<1>4. /\ s \in Bijection(1..n, found)
      /\ \A i, j \in DOMAIN s : i < j => Confidence(out[s[i]]) >= Confidence(out[s[j]])
  BY DEF Sorted
<1>5. /\ s \in [1..n -> found]
      /\ \A i, j \in DOMAIN s : s[i] = s[j] => i = j
      /\ \A c \in found : \E i \in 1..n : s[i] = c
  BY <1>4 DEF Bijection, Injection, Surjection, IsInjective
<1> HIDE DEF found, n
<1>6. DOMAIN s = 1..n
  BY <1>5
<1>7. \A i \in DOMAIN s : s[i] \in found /\ s[i] \in DOMAIN out /\ s[i] \in Nat
  <2>1. \A i \in DOMAIN s : s[i] \in found
    BY <1>5
  <2>2. \A x \in found : x \in DOMAIN out /\ x \in Nat
    BY <1>1
  <2>3. QED
    BY <2>1, <2>2
<1>8. QED
  BY <1>3, <1>4, <1>5, <1>6, <1>7 DEF found

\* The geometry is made of whole numbers, and rounded by half a pixel at most.
LEMMA InfoParts ==
  ASSUME NEW img \in Images, NEW c \in Configs
  PROVE  LET i == Info(img, c) IN
         /\ i.num \in Nat \ {0} /\ i.den \in Nat \ {0}
         /\ i.pad_left \in Int /\ i.pad_top \in Int
         /\ i.new_w \in Nat /\ i.new_h \in Nat
         /\ c.resize_mode = "letterbox" =>
              /\ 2 * (i.new_w * i.den) <= 2 * (img.w * i.num) + i.den
              /\ 2 * (img.w * i.num) < 2 * (i.new_w * i.den) + i.den
              /\ 2 * (i.new_h * i.den) <= 2 * (img.h * i.num) + i.den
              /\ 2 * (img.h * i.num) < 2 * (i.new_h * i.den) + i.den
<1>1. /\ img.w \in Nat \ {0} /\ img.h \in Nat \ {0}
      /\ c.target_w \in Nat \ {0} /\ c.target_h \in Nat \ {0}
  BY DetectionAssumption
<1> DEFINE r == Ratio(img.w, img.h, c.target_w, c.target_h)
           new_w == Scaled(img.w, r)
           new_h == Scaled(img.h, r)
<1>2. /\ r = [num |-> r.num, den |-> r.den] /\ r.num \in Nat \ {0} /\ r.den \in Nat \ {0}
      /\ img.w * r.num <= c.target_w * r.den /\ img.h * r.num <= c.target_h * r.den
  <2>1. ASSUME NEW w \in Nat \ {0}, NEW h \in Nat \ {0},
               NEW tw \in Nat \ {0}, NEW th \in Nat \ {0}
        PROVE  LET q == Ratio(w, h, tw, th) IN
               /\ q = [num |-> q.num, den |-> q.den] /\ q.num \in Nat \ {0} /\ q.den \in Nat \ {0}
               /\ w * q.num <= tw * q.den /\ h * q.num <= th * q.den
    BY RatioFits
  <2>2. QED
    BY <1>1, <2>1, Zenon
<1>3. CASE c.resize_mode = "letterbox"
  <2>1. Info(img, c) = [num |-> r.num, den |-> r.den,
                        pad_left |-> PadBefore(c.target_w, new_w),
                        pad_top |-> PadBefore(c.target_h, new_h),
                        new_w |-> new_w, new_h |-> new_h]
    BY <1>3 DEF Info
  <2> HIDE DEF r
  <2>2. /\ new_w \in Nat
        /\ 2 * (new_w * r.den) <= 2 * (img.w * r.num) + r.den
        /\ 2 * (img.w * r.num) < 2 * (new_w * r.den) + r.den
    BY <1>1, <1>2, ScaledNear
  <2>3. /\ new_h \in Nat
        /\ 2 * (new_h * r.den) <= 2 * (img.h * r.num) + r.den
        /\ 2 * (img.h * r.num) < 2 * (new_h * r.den) + r.den
    BY <1>1, <1>2, ScaledNear
  <2> HIDE DEF new_w, new_h
  <2>4. PadBefore(c.target_w, new_w) \in Int /\ PadBefore(c.target_h, new_h) \in Int
    BY <1>1, <2>2, <2>3 DEF PadBefore
  <2>5. QED
    BY <1>2, <2>1, <2>2, <2>3, <2>4
<1>4. CASE c.resize_mode # "letterbox"
  <2>1. Info(img, c) = [NoInfo EXCEPT !.new_w = c.target_w, !.new_h = c.target_h]
    BY <1>4 DEF Info
  <2>2. QED
    BY <1>1, <1>4, <2>1 DEF NoInfo
<1>5. QED
  BY <1>3, <1>4

-----------------------------------------------------------------------------
(***************************************************************************)
(* The invariant and each action                                           *)
(***************************************************************************)

LEMMA SuppressInvariant == IInv /\ Suppress => IInv'
<1> SUFFICES ASSUME IInv, Suppress PROVE IInv'
  OBVIOUS
<1>1. /\ phase = "nms" /\ at \in DOMAIN order /\ at' = at + 1
      /\ UNCHANGED <<phase, image, cfg, info, output, order>>
  BY DEF Suppress
<1>2. /\ info = Info(image, cfg) /\ order \in Sorted(output)
      /\ suppressed = {j \in DOMAIN order : \E i \in Passed : i < j /\ OverlapAt(i, j)}
      /\ \A k \in DOMAIN kept : \E i \in Passed : kept[k] = order[i]
      /\ \A i \in Passed : \E k \in DOMAIN kept : kept[k] = order[i]
      /\ \A k, l \in DOMAIN kept : k # l => kept[k] # kept[l]
  BY <1>1 DEF IInv, Loop
<1>3. /\ at \in Nat \ {0} /\ kept \in Seq(Nat) /\ output \in Seq(Candidates)
  BY DEF IInv, Types
<1>4. /\ \A i \in DOMAIN order : order[i] \in Nat /\ i \in Nat
      /\ \A i, j \in DOMAIN order : order[i] = order[j] => i = j
  BY <1>2, <1>3, SortedParts
<1>5. /\ \A i, j : OverlapAt(i, j)' <=> OverlapAt(i, j)
      /\ Sorted(output)' = Sorted(output)
  BY <1>1 DEF OverlapAt, Overlap, Box, Restored, Sorted, Detections
<1>6. CASE at \in suppressed
  <2>1. kept' = kept /\ suppressed' = suppressed
    BY <1>6 DEF Suppress
  <2>2. Passed' = Passed
    BY <1>1, <1>3, <1>4, <1>6, <2>1 DEF Passed
  <2>3. Types'
    BY <1>1, <1>3, <2>1 DEF IInv, Types
  <2>4. Loop'
    BY <1>1, <1>2, <1>5, <2>1, <2>2 DEF Loop
  <2>5. Fresh' /\ Finished'
    BY <1>1 DEF Fresh, Finished
  <2>6. QED
    BY <2>3, <2>4, <2>5 DEF IInv
<1>7. CASE at \notin suppressed
  <2>1. /\ kept' = Append(kept, order[at])
        /\ suppressed' = suppressed \union {j \in DOMAIN order : j > at /\ OverlapAt(at, j)}
    BY <1>7 DEF Suppress
  <2>2. Passed' = Passed \union {at}
    BY <1>1, <1>3, <1>4, <1>7, <2>1 DEF Passed
  <2>3. suppressed' = {j \in DOMAIN order : \E i \in Passed' : i < j /\ OverlapAt(i, j)}
    BY <1>1, <1>2, <1>4, <2>1, <2>2
  <2>4. /\ kept' \in Seq(Nat) /\ DOMAIN kept' = 1..(Len(kept) + 1)
        /\ DOMAIN kept = 1..Len(kept) /\ Len(kept) \in Nat
        /\ \A k \in DOMAIN kept : kept'[k] = kept[k]
        /\ kept'[Len(kept) + 1] = order[at]
    BY <1>1, <1>3, <1>4, <2>1
  <2>5. \A k \in DOMAIN kept' : k \in DOMAIN kept \/ k = Len(kept) + 1
    BY <2>4
  <2>6. \A k \in DOMAIN kept' : \E i \in Passed' : kept'[k] = order[i]
    BY <1>2, <2>2, <2>4, <2>5
  <2>7. \A i \in Passed' : \E k \in DOMAIN kept' : kept'[k] = order[i]
    <3>1. \E k \in DOMAIN kept' : kept'[k] = order[at]
      BY <2>4
    <3>2. ASSUME NEW i \in Passed PROVE \E k \in DOMAIN kept' : kept'[k] = order[i]
      <4>1. PICK k \in DOMAIN kept : kept[k] = order[i]
        BY <1>2
      <4>2. k \in DOMAIN kept'
        BY <2>4
      <4>3. QED
        BY <2>4, <4>1, <4>2
    <3>3. QED
      BY <2>2, <3>1, <3>2
  <2>8. \A k \in DOMAIN kept : kept[k] # order[at]
    BY <1>1, <1>2, <1>3, <1>4 DEF Passed
  <2>9. \A k, l \in DOMAIN kept' : k # l => kept'[k] # kept'[l]
    BY <1>2, <2>4, <2>5, <2>8
  <2>10. Types'
    BY <1>1, <1>3, <2>4 DEF IInv, Types
  <2>11. Loop'
    BY <1>1, <1>2, <1>5, <2>3, <2>6, <2>7, <2>9 DEF Loop
  <2>12. Fresh' /\ Finished'
    BY <1>1 DEF Fresh, Finished
  <2>13. QED
    BY <2>10, <2>11, <2>12 DEF IInv
<1>8. QED
  BY <1>6, <1>7

\* Detections are sorted, non-maximum suppression is in the middle of its work
\* or done: the inductive invariant of a run.
THEOREM Invariance == DetectionSpec => []IInv
<1>1. DetectionInit => IInv
  <2> SUFFICES ASSUME DetectionInit PROVE IInv
    OBVIOUS
  <2>1. output \in Seq(Candidates) /\ kept \in Seq(Nat)
    BY DEF DetectionInit
  <2>2. QED
    BY <2>1 DEF DetectionInit, IInv, Types, Fresh, Loop, Finished
<1>2. IInv /\ [DetectionNext]_detection => IInv'
  <2> SUFFICES ASSUME IInv, [DetectionNext]_detection PROVE IInv'
    OBVIOUS
  <2>1. ASSUME NEW img \in Images, NEW c \in Configs, Preprocess(img, c) PROVE IInv'
    <3>1. output' \in Seq(Candidates) /\ kept' \in Seq(Nat)
      BY <2>1 DEF Preprocess
    <3>2. QED
      BY <2>1, <3>1 DEF Preprocess, IInv, Types, Fresh, Loop, Finished
  <2>2. ASSUME NEW n \in 0..cfg.num_candidates, NEW out \in [1..n -> Candidates], Decode(out)
        PROVE  IInv'
    <3>0. cfg.num_candidates \in Nat
      BY DetectionAssumption DEF IInv, Types
    <3>1. n \in Nat
      BY <3>0
    <3>2. out \in Seq(Candidates)
      BY <3>1
    <3>3. /\ phase = "ready" /\ phase' = "nms" /\ output' = out /\ order' \in Sorted(out)'
          /\ UNCHANGED <<image, cfg, info, at, suppressed, kept>>
      BY <2>2 DEF Decode, Sorted, Detections
    <3>4. info = Info(image, cfg) /\ at = 1 /\ suppressed = {} /\ kept = <<>>
      BY <3>3 DEF IInv, Fresh
    <3>5. Types'
      BY <3>2, <3>3 DEF IInv, Types
    <3>6. \E m \in Nat : DOMAIN order' = 1..m
      <4>1. order' \in Sorted(out)
        BY <2>2 DEF Decode
      <4>2. QED
        BY <3>2, <4>1, SortedParts
    <3>7. Passed' = {}
      BY <3>3, <3>4, <3>6 DEF Passed
    <3>8. Loop'
      BY <3>3, <3>4, <3>7 DEF Loop
    <3>9. Fresh' /\ Finished'
      BY <3>3 DEF Fresh, Finished
    <3>10. QED
      BY <3>5, <3>8, <3>9 DEF IInv
  <2>3. CASE Suppress
    BY <2>3, SuppressInvariant
  <2>4. CASE Return
    <3>1. /\ phase = "nms" /\ phase' = "done" /\ at \notin DOMAIN order
          /\ UNCHANGED <<image, cfg, info, output, order, at, suppressed, kept>>
      BY <2>4 DEF Return
    <3>2. Passed' = Passed /\ \A i, j : OverlapAt(i, j)' <=> OverlapAt(i, j)
      BY <3>1 DEF Passed, OverlapAt, Overlap, Box, Restored
    <3>3. Sorted(output)' = Sorted(output)
      BY <3>1 DEF Sorted, Detections
    <3>4. Loop'
      BY <3>1, <3>2, <3>3 DEF IInv, Loop
    <3>5. QED
      BY <3>1, <3>4 DEF IInv, Types, Fresh, Finished
  <2>5. CASE Throw
    <3>1. output' \in Seq(Candidates) /\ kept' \in Seq(Nat)
      BY <2>5 DEF Throw
    <3>2. QED
      BY <2>5, <3>1 DEF Throw, IInv, Types, Fresh, Loop, Finished
  <2>6. CASE UNCHANGED detection
    <3>1. UNCHANGED <<phase, image, cfg, info, output, order, at, suppressed, kept>>
      BY <2>6 DEF detection
    <3>2. Passed' = Passed /\ \A i, j : OverlapAt(i, j)' <=> OverlapAt(i, j)
      BY <3>1 DEF Passed, OverlapAt, Overlap, Box, Restored
    <3>3. Sorted(output)' = Sorted(output)
      BY <3>1 DEF Sorted, Detections
    <3>4. Loop'
      BY <3>1, <3>2, <3>3 DEF IInv, Loop
    <3>5. QED
      BY <3>1, <3>4 DEF IInv, Types, Fresh, Finished
  <2>7. QED
    BY <2>1, <2>2, <2>3, <2>4, <2>5, <2>6 DEF DetectionNext
<1>3. QED
  BY <1>1, <1>2, PTL DEF DetectionSpec

-----------------------------------------------------------------------------
(***************************************************************************)
(* Overlapping boxes and restored sides                                    *)
(***************************************************************************)
Boxes == [left : Int, top : Int, right : Int, bottom : Int]

LEMMA OverlapSymmetric ==
  ASSUME NEW a \in Boxes, NEW b \in Boxes
  PROVE  Overlap(a, b) <=> Overlap(b, a)
<1>1. /\ a.left \in Int /\ a.top \in Int /\ a.right \in Int /\ a.bottom \in Int
      /\ b.left \in Int /\ b.top \in Int /\ b.right \in Int /\ b.bottom \in Int
  BY DEF Boxes
<1>2. \A x, y \in Int : Smaller(x, y) = Smaller(y, x) /\ Larger(x, y) = Larger(y, x)
  BY DEF Smaller, Larger
<1>3. Intersection(a, b) = Intersection(b, a)
  BY <1>1, <1>2 DEF Intersection
<1>4. Area(a) \in Int /\ Area(b) \in Int
  BY <1>1 DEF Area
<1> DEFINE p == Area(a)
           q == Area(b)
           i == Intersection(a, b)
           j == Intersection(b, a)
<1>5. i \in Int
  <2> DEFINE wide == Positive(Smaller(a.right, b.right) - Larger(a.left, b.left))
             high == Positive(Smaller(a.bottom, b.bottom) - Larger(a.top, b.top))
  <2>1. \A t, u, v, w \in Int : Positive(Smaller(t, u) - Larger(v, w)) \in Int
    BY DEF Positive, Smaller, Larger
  <2>2. wide \in Int /\ high \in Int
    BY <1>1, <2>1, Zenon
  <2>3. i = wide * high
    BY DEF Intersection
  <2> HIDE DEF wide, high, i
  <2>4. QED
    BY <2>2, <2>3
<1>6. p \in Int /\ q \in Int /\ i = j
  BY <1>3, <1>4
<1> HIDE DEF p, q, i, j
<1>7. p + q - i = q + p - j
  BY <1>5, <1>6
<1>8. QED
  BY <1>6, <1>7 DEF Overlap, p, q, i, j

LEMMA RestoredInteger ==
  ASSUME NEW v \in Int, NEW pad \in Int, NEW len \in Nat,
         info.num \in Nat, info.den \in Nat
  PROVE  Restored(v, pad, len) \in Int
  BY DEF Restored, Clip

LEMMA ModelBoxInteger ==
  ASSUME NEW c \in Candidates, NEW format \in {"xywh", "xyxy"}
  PROVE  ModelBox(c, format) \in Boxes
<1>1. c.x \in Int /\ c.y \in Int /\ c.w \in Int /\ c.h \in Int
  BY DetectionAssumption
<1>2. QED
  BY <1>1 DEF ModelBox, Boxes

\* The facts about the configuration, the image and the geometry of a run.
LEMMA RunParts ==
  ASSUME Types, info = Info(image, cfg)
  PROVE  /\ image.w \in Nat \ {0} /\ image.h \in Nat \ {0}
         /\ cfg.box_format \in {"xywh", "xyxy"} /\ cfg.restore \in BOOLEAN
         /\ info.num \in Nat \ {0} /\ info.den \in Nat \ {0}
         /\ info.pad_left \in Int /\ info.pad_top \in Int
         /\ info.new_w \in Nat /\ info.new_h \in Nat
<1>1. image \in [w : Nat \ {0}, h : Nat \ {0}] /\ cfg.box_format \in {"xywh", "xyxy"}
  BY DetectionAssumption DEF Types
<1>2. cfg.restore \in BOOLEAN
  BY DetectionAssumption DEF Types
<1>3. /\ info.num \in Nat \ {0} /\ info.den \in Nat \ {0}
      /\ info.pad_left \in Int /\ info.pad_top \in Int
      /\ info.new_w \in Nat /\ info.new_h \in Nat
  BY InfoParts DEF Types
<1>4. QED
  BY <1>1, <1>2, <1>3

LEMMA BoxInteger ==
  ASSUME Types, info = Info(image, cfg), NEW c \in Candidates
  PROVE  Box(c) \in Boxes
<1> DEFINE m == ModelBox(c, cfg.box_format)
<1>1. m \in Boxes
  BY RunParts, ModelBoxInteger
<1>2. m.left \in Int /\ m.top \in Int /\ m.right \in Int /\ m.bottom \in Int
  BY <1>1 DEF Boxes
<1> HIDE DEF m
<1>3. /\ Restored(m.left, info.pad_left, image.w) \in Int
      /\ Restored(m.top, info.pad_top, image.h) \in Int
      /\ Restored(m.right, info.pad_left, image.w) \in Int
      /\ Restored(m.bottom, info.pad_top, image.h) \in Int
  BY <1>2, RunParts, RestoredInteger
<1>4. CASE cfg.restore
  BY <1>3, <1>4 DEF Box, Boxes, m
<1>5. CASE ~cfg.restore
  BY <1>1, <1>5 DEF Box, m
<1>6. QED
  BY <1>4, <1>5

-----------------------------------------------------------------------------
(***************************************************************************)
(* Theorems                                                                *)
(***************************************************************************)

\* Non-maximum suppression keeps no two detections that overlap, and drops one
\* only for a kept one of at least its confidence.
THEOREM NmsKeepsTheBestHolds == DetectionSpec => []NmsKeepsTheBest
<1>1. IInv => NmsKeepsTheBest
  <2> SUFFICES ASSUME IInv, phase = "done" PROVE NmsKeepsTheBest
    BY DEF NmsKeepsTheBest
  <2>1. /\ info = Info(image, cfg) /\ order \in Sorted(output)
        /\ suppressed = {j \in DOMAIN order : \E i \in Passed : i < j /\ OverlapAt(i, j)}
        /\ \A k \in DOMAIN kept : \E i \in Passed : kept[k] = order[i]
        /\ \A i \in Passed : \E k \in DOMAIN kept : kept[k] = order[i]
        /\ \A k, l \in DOMAIN kept : k # l => kept[k] # kept[l]
    BY DEF IInv, Loop
  <2>2. Types /\ at \in Nat \ {0} /\ at \notin DOMAIN order /\ output \in Seq(Candidates)
    BY DEF IInv, Types, Finished
  <2>3. PICK n \in Nat : DOMAIN order = 1..n
    BY <2>1, <2>2, SortedParts
  <2>4. /\ \A i \in DOMAIN order : order[i] \in DOMAIN output /\ output[order[i]] \in Candidates
        /\ \A c \in Detections(output) : \E i \in DOMAIN order : order[i] = c
        /\ \A i, j \in DOMAIN order :
             i < j => Confidence(output[order[i]]) >= Confidence(output[order[j]])
    BY <2>1, <2>2, SortedParts
  <2>5. \A i, j \in DOMAIN order : OverlapAt(i, j) <=> OverlapAt(j, i)
    BY <2>1, <2>2, <2>4, BoxInteger, OverlapSymmetric DEF OverlapAt
  <2>6. \A i \in Passed : i \in DOMAIN order /\ i \notin suppressed
    BY DEF Passed
  <2>7. \A i, j \in Passed : i # j => ~OverlapAt(i, j)
    <3> SUFFICES ASSUME NEW i \in Passed, NEW j \in Passed, i # j, OverlapAt(i, j)
                 PROVE  FALSE
      OBVIOUS
    <3>1. CASE i < j
      BY <2>1, <2>6, <3>1
    <3>2. CASE j < i
      BY <2>1, <2>5, <2>6, <3>2
    <3>3. QED
      BY <2>3, <2>6, <3>1, <3>2
  <2>8. ASSUME NEW k \in DOMAIN kept, NEW l \in DOMAIN kept, k # l
        PROVE  kept[k] # kept[l] /\ ~Overlap(Box(output[kept[k]]), Box(output[kept[l]]))
    <3>1. PICK i \in Passed : kept[k] = order[i]
      BY <2>1
    <3>2. PICK j \in Passed : kept[l] = order[j]
      BY <2>1
    <3>3. kept[k] # kept[l] /\ i # j
      BY <2>1, <2>8, <3>1, <3>2
    <3>4. QED
      BY <2>7, <3>1, <3>2, <3>3 DEF OverlapAt
  <2>9. ASSUME NEW c \in Detections(output) \ {kept[k] : k \in DOMAIN kept}
        PROVE  \E k \in DOMAIN kept :
                 /\ Confidence(output[kept[k]]) >= Confidence(output[c])
                 /\ Overlap(Box(output[kept[k]]), Box(output[c]))
    <3>1. PICK j \in DOMAIN order : order[j] = c
      BY <2>4
    <3>2. j \notin Passed
      BY <2>1, <3>1
    <3>3. j \in suppressed
      BY <2>2, <2>3, <3>2 DEF Passed
    <3>4. PICK i \in Passed : i < j /\ OverlapAt(i, j)
      BY <2>1, <3>3
    <3>5. PICK k \in DOMAIN kept : kept[k] = order[i]
      BY <2>1
    <3>6. Confidence(output[order[i]]) >= Confidence(output[order[j]])
      BY <2>4, <2>6, <3>4
    <3>7. QED
      BY <3>1, <3>4, <3>5, <3>6 DEF OverlapAt
  <2>10. QED
    BY <2>8, <2>9 DEF NmsKeepsTheBest
<1>2. QED
  BY <1>1, Invariance, PTL

\* One side of a restored box.
LEMMA SideComesBack ==
  ASSUME info.num \in Nat \ {0}, info.den \in Nat \ {0},
         NEW v \in Int, NEW pad \in Int, NEW new \in Nat, NEW len \in Nat,
         2 * (new * info.den) <= 2 * (len * info.num) + info.den,
         2 * (len * info.num) < 2 * (new * info.den) + info.den
  PROVE  ComesBack(v, Restored(v, pad, len), pad, new, len)
<1> DEFINE t == v - 2 * pad
<1>1. t \in Int
  OBVIOUS
<1> HIDE DEF t
<1>2. LET back == Clip(t * info.den, 2 * info.num * len) * new
                    - Clip(t, 2 * new) * info.num * len
      IN  -(info.num * len) <= back /\ back <= info.num * len
  BY <1>1, RoundTrip
<1>3. QED
  BY <1>2 DEF ComesBack, Restored, t

\* A box comes back to where the model saw it, within half a pixel of the model,
\* for every size of the image and of the model's input.
THEOREM BoxesComeBackHolds == DetectionSpec => []BoxesComeBack
<1>1. IInv => BoxesComeBack
  <2> SUFFICES ASSUME IInv, phase \in {"nms", "done"}, cfg.restore,
                      cfg.resize_mode = "letterbox", NEW k \in DOMAIN order
               PROVE  LET c == output[order[k]]
                          m == ModelBox(c, cfg.box_format)
                          b == Box(c)
                      IN  /\ ComesBack(m.left, b.left, info.pad_left, info.new_w, image.w)
                          /\ ComesBack(m.right, b.right, info.pad_left, info.new_w, image.w)
                          /\ ComesBack(m.top, b.top, info.pad_top, info.new_h, image.h)
                          /\ ComesBack(m.bottom, b.bottom, info.pad_top, info.new_h, image.h)
    BY DEF BoxesComeBack
  <2> DEFINE c == output[order[k]]
             m == ModelBox(c, cfg.box_format)
  <2>1. Types /\ info = Info(image, cfg) /\ order \in Sorted(output)
        /\ output \in Seq(Candidates)
    BY DEF IInv, Loop, Types
  <2>2. c \in Candidates
    BY <2>1, SortedParts
  <2>3. m.left \in Int /\ m.top \in Int /\ m.right \in Int /\ m.bottom \in Int
    BY <2>1, <2>2, RunParts, ModelBoxInteger DEF Boxes
  <2>4. Box(c) = [left |-> Restored(m.left, info.pad_left, image.w),
                  top |-> Restored(m.top, info.pad_top, image.h),
                  right |-> Restored(m.right, info.pad_left, image.w),
                  bottom |-> Restored(m.bottom, info.pad_top, image.h)]
    BY DEF Box
  <2>5. /\ 2 * (info.new_w * info.den) <= 2 * (image.w * info.num) + info.den
        /\ 2 * (image.w * info.num) < 2 * (info.new_w * info.den) + info.den
        /\ 2 * (info.new_h * info.den) <= 2 * (image.h * info.num) + info.den
        /\ 2 * (image.h * info.num) < 2 * (info.new_h * info.den) + info.den
    BY <2>1, InfoParts DEF Types
  <2> HIDE DEF m
  <2>6. /\ ComesBack(m.left, Restored(m.left, info.pad_left, image.w),
                     info.pad_left, info.new_w, image.w)
        /\ ComesBack(m.right, Restored(m.right, info.pad_left, image.w),
                     info.pad_left, info.new_w, image.w)
    BY <2>1, <2>3, <2>5, RunParts, SideComesBack
  <2>7. /\ ComesBack(m.top, Restored(m.top, info.pad_top, image.h),
                     info.pad_top, info.new_h, image.h)
        /\ ComesBack(m.bottom, Restored(m.bottom, info.pad_top, image.h),
                     info.pad_top, info.new_h, image.h)
    BY <2>1, <2>3, <2>5, RunParts, SideComesBack
  <2>8. QED
    BY <2>4, <2>6, <2>7 DEF m
<1>2. QED
  BY <1>1, Invariance, PTL

-----------------------------------------------------------------------------
(***************************************************************************)
(* ModelManager                                                            *)
(***************************************************************************)

ManagerTypes ==
  /\ models \in [Names -> Inferences \union {None}]
  /\ made \in [Inferences -> Names \union {None}]
  /\ current \in Inferences \union {None}
  /\ pipe \in Inferences \union {None}

\* Only models of the registry are loaded.
Known == \A n \in Names : models[n] # None => n \in DOMAIN registry

ManagerInv == ManagerTypes /\ Known /\ OneSessionPerModel

\* load() keeps the invariant, and what it returns may be used: it is the entry
\* of models_ under the name it was made for.
LEMMA LoadedKeeps ==
  ASSUME ManagerInv, NEW n \in Names, NEW o \in Inferences, Loaded(n, o)
  PROVE  /\ models' \in [Names -> Inferences \union {None}]
         /\ made' \in [Inferences -> Names \union {None}]
         /\ Known'
         /\ \A m \in Names : models'[m] # None => made'[models'[m]] = m
         /\ \A x \in {current, pipe, o} \ {None} :
              made'[x] \in DOMAIN registry /\ models'[made'[x]] = x
<1>1. n \in DOMAIN registry
  BY DEF Loaded
<1>2. CASE models[n] # None
  <2>1. o = models[n] /\ models' = models /\ made' = made
    BY <1>2 DEF Loaded
  <2>2. made[o] = n
    BY <1>2, <2>1 DEF ManagerInv, OneSessionPerModel
  <2>3. QED
    BY <1>1, <2>1, <2>2 DEF ManagerInv, ManagerTypes, Known, OneSessionPerModel
<1>3. CASE models[n] = None
  <2>1. /\ made[o] = None
        /\ models' = [models EXCEPT ![n] = o]
        /\ made' = [made EXCEPT ![o] = n]
    BY <1>3 DEF Loaded
  <2>2. models' \in [Names -> Inferences \union {None}]
        /\ made' \in [Inferences -> Names \union {None}]
    BY <2>1 DEF ManagerInv, ManagerTypes
  <2>3. Known'
    BY <1>1, <2>1 DEF ManagerInv, ManagerTypes, Known
  <2>4. ASSUME NEW m \in Names, models'[m] # None
        PROVE  made'[models'[m]] = m
    <3>1. CASE m = n
      BY <2>1, <3>1 DEF ManagerInv, ManagerTypes
    <3>2. CASE m # n
      <4>1. models'[m] = models[m] /\ models[m] # None
        BY <2>1, <2>4, <3>2 DEF ManagerInv, ManagerTypes
      <4>2. made[models[m]] = m /\ models[m] # o
        BY <2>1, <4>1, ManagerAssumption DEF ManagerInv, OneSessionPerModel
      <4>3. QED
        BY <2>1, <4>1, <4>2 DEF ManagerInv, ManagerTypes
    <3>3. QED
      BY <3>1, <3>2
  <2>5. ASSUME NEW x \in {current, pipe} \ {None}
        PROVE  made'[x] \in DOMAIN registry /\ models'[made'[x]] = x
    <3>1. x \in Inferences /\ made[x] \in DOMAIN registry /\ models[made[x]] = x
      BY <2>5 DEF ManagerInv, ManagerTypes, OneSessionPerModel
    <3>2. made[x] \in Names /\ x # None /\ x # o /\ made[x] # n
      BY <1>3, <2>1, <2>5, <3>1, ManagerAssumption
    <3>3. made'[x] = made[x] /\ models'[made[x]] = models[made[x]]
      BY <2>1, <3>1, <3>2 DEF ManagerInv, ManagerTypes
    <3>4. QED
      BY <3>1, <3>3
  <2>6. made'[o] \in DOMAIN registry /\ models'[made'[o]] = o
    BY <1>1, <2>1 DEF ManagerInv, ManagerTypes
  <2>7. QED
    BY <2>2, <2>3, <2>4, <2>5, <2>6
<1>4. QED
  BY <1>2, <1>3

\* However models are loaded and selected, each has one session.
THEOREM OneSessionHolds == ManagerSpec => []OneSessionPerModel
<1>1. ManagerInit => ManagerInv
  BY DEF ManagerInit, ManagerInv, ManagerTypes, Known, OneSessionPerModel
<1>2. ManagerInv /\ [ManagerNext]_manager => ManagerInv'
  <2> SUFFICES ASSUME ManagerInv, [ManagerNext]_manager PROVE ManagerInv'
    OBVIOUS
  <2>1. ASSUME NEW n \in Names, NEW o \in Inferences, LoadModel(n, o)
        PROVE  ManagerInv'
    <3>1. Loaded(n, o) /\ current' = current /\ pipe' = pipe
      BY <2>1 DEF LoadModel
    <3>2. QED
      BY <3>1, LoadedKeeps DEF ManagerInv, ManagerTypes, OneSessionPerModel
  <2>2. ASSUME NEW n \in Names, NEW o \in Inferences, Select(n, o)
        PROVE  ManagerInv'
    <3>1. Loaded(n, o) /\ current' = o /\ pipe' = pipe
      BY <2>2 DEF Select
    <3>2. QED
      BY <3>1, LoadedKeeps DEF ManagerInv, ManagerTypes, OneSessionPerModel
  <2>3. ASSUME NEW o \in Inferences, CreatePipeline(o)
        PROVE  ManagerInv'
    <3>1. /\ o = current \/ \E n \in Names : o = models[n]
          /\ o # None /\ pipe' = o
          /\ models' = models /\ current' = current /\ made' = made
      BY <2>3 DEF CreatePipeline
    <3>2. made[o] \in DOMAIN registry /\ models[made[o]] = o
      BY <3>1 DEF ManagerInv, Known, OneSessionPerModel
    <3>3. QED
      BY <3>1, <3>2 DEF ManagerInv, ManagerTypes, Known, OneSessionPerModel
  <2>4. CASE UNCHANGED manager
    BY <2>4 DEF manager, ManagerInv, ManagerTypes, Known, OneSessionPerModel
  <2>5. QED
    BY <2>1, <2>2, <2>3, <2>4 DEF ManagerNext
<1>3. ManagerInv => OneSessionPerModel
  BY DEF ManagerInv
<1>4. QED
  BY <1>1, <1>2, <1>3, PTL DEF ManagerSpec

=============================================================================

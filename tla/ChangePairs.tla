----------------------------- MODULE ChangePairs ----------------------------
(***************************************************************************)
(* The way of a change query over two images: coregistration.py judges the *)
(* pair, tiling.py cuts each image on its own, the change adapter pairs    *)
(* the tiles by their offsets and stitching.py joins what each pair says.  *)
(*                                                                         *)
(* One axis is enough: an image is the ground it shows, a range that       *)
(* starts at `origin`, and the error of its georeferencing is `drift`.     *)
(* The network is external: of a pair it says which pixels changed.        *)
(***************************************************************************)
EXTENDS Tiling, Functions

CONSTANTS
  Pairs,        \* before and after images, tile size and overlap
  Negligible,   \* COREG_NEGLIGIBLE_OFFSET_PX
  MaxOffset     \* COREG_MAX_ALIGNMENT_THRESHOLD_PX

VARIABLES
  pair,
  stage,
  verdict,   \* CoregistrationResult
  matched,   \* the offsets at which both images have a tile
  answer     \* the ChangeMap, or why there is none

vars == <<pair, stage, verdict, matched, answer>>

(* An image has some width and may lie, and drift, anywhere.               *)
ImageTyped(image) == image.width \in Nat \ {0} /\ image.origin \in Int /\ image.drift \in Int

PairTyped(p) ==
  /\ p.engine \in {"model", "deterministic"}
  /\ ImageTyped(p.before) /\ ImageTyped(p.after)
  /\ Tileable(p.before.width, p.after.width, p.tile, p.overlap)

OffsetsOf(p, width) == Range(AxisOffsets(width, p.tile, Stride(p.tile, p.overlap)))

Pixels(p, width, off) == off..(off + Smaller(p.tile, width - off) - 1)

(* classify_alignment. *)
Classify(offset) ==
  [ aligned        |-> offset <= MaxOffset,
    auto_corrected |-> offset > Negligible /\ offset <= MaxOffset ]

Overlapping(a, b) ==
  Larger(a.origin, b.origin) < Smaller(a.origin + a.width, b.origin + b.width)

Drift(p) == IF p.after.drift < 0 THEN -p.after.drift ELSE p.after.drift

(* Slip: a pair without common ground has no offset to measure. *)
CoregistrationOfAnyPair(p) == Classify(Drift(p))

(* check_coregistration: what the overlapping ground says of the offset.   *)
CoregistrationOf(p) ==
  IF Overlapping(p.before, p.after)
  THEN Classify(Drift(p))
  ELSE [aligned |-> FALSE, auto_corrected |-> FALSE]

(* _pair_by_offset. *)
Matched(p) == OffsetsOf(p, p.before.width) \cap OffsetsOf(p, p.after.width)

(* What a tile pair can speak of: the pixels both of its tiles have. Which  *)
(* of them are valid, and which differ enough (detect_change), is any.     *)
Compared(p, off) == Pixels(p, p.before.width, off) \cap Pixels(p, p.after.width, off)

(* deterministic_change.py raises for tiles of two shapes: the pair is     *)
(* skipped with a warning.                                                 *)
Computable(p, off) ==
  p.engine = "deterministic" => Pixels(p, p.before.width, off) = Pixels(p, p.after.width, off)

Computed(p, offs) == {off \in offs : Computable(p, off)}

(* total_area_px: the tiles of `before` for the deterministic engine, the  *)
(* whole of `after` for a model.                                           *)
TotalPx(p, offs) ==
  IF p.engine = "deterministic"
  THEN SumFunction([off \in offs |-> Cardinality(Pixels(p, p.before.width, off))])
  ELSE p.after.width

(* merge_change_maps: pixels are summed, whatever the tiles share. *)
Aggregate(p, changed) ==
  [ px    |-> SumFunction([off \in DOMAIN changed |-> Cardinality(changed[off])]),
    total |-> TotalPx(p, matched), source |-> "sum" ]

(* Slip: the mosaic adds what overlapping tiles say of a pixel. *)
MosaicAdding(p, changed) == [Aggregate(p, changed) EXCEPT !.source = "mosaic"]

(* mosaic_and_recount_change_maps: where tiles overlap rasterio's merge    *)
(* keeps the first.                                                        *)
Mosaic(p, changed) ==
  LET first(x) == CHOOSE off \in DOMAIN changed :
                    /\ x \in Compared(p, off)
                    /\ \A o \in DOMAIN changed : o < off => x \notin Compared(p, o)
      shown == UNION {Compared(p, off) : off \in DOMAIN changed}
  IN  [ px    |-> Cardinality({x \in shown : x \in changed[first(x)]}),
        total |-> TotalPx(p, matched), source |-> "mosaic" ]

NoAnswer == [source |-> "none"]

Query(p) ==
  /\ pair = p
  /\ stage = "coregistration"
  /\ verdict = [aligned |-> FALSE, auto_corrected |-> FALSE]
  /\ matched = {}
  /\ answer = NoAnswer

Init == \E p \in Pairs : Query(p)

CheckCoregistration ==
  /\ stage = "coregistration"
  /\ verdict' = CoregistrationOf(pair)
  /\ stage' = "judged"
  /\ UNCHANGED <<pair, matched, answer>>

(* planner.py: a pair that is not aligned is refused. *)
Refuse ==
  /\ stage = "judged" /\ ~verdict.aligned
  /\ answer' = [source |-> "refused"]
  /\ stage' = "done"
  /\ UNCHANGED <<pair, verdict, matched>>

TileAndPair ==
  /\ stage = "judged" /\ verdict.aligned
  /\ matched' = Matched(pair)
  /\ stage' = "paired"
  /\ UNCHANGED <<pair, verdict, answer>>

NothingCompared ==
  /\ stage = "paired" /\ Computed(pair, matched) = {}
  /\ answer' = [source |-> "nothing"]
  /\ stage' = "done"
  /\ UNCHANGED <<pair, verdict, matched>>

(* infer and postprocess: each pair says what changed, on its own; a       *)
(* mosaic that fails, or a single pair, leaves the sum.                    *)
Compare ==
  /\ stage = "paired" /\ Computed(pair, matched) # {}
  /\ LET offs == Computed(pair, matched)
     IN  \E changed \in {f \in [offs -> SUBSET (0..(pair.before.width - 1))] :
                           \A off \in offs : f[off] \subseteq Compared(pair, off)} :
           \/ answer' = Aggregate(pair, changed)
           \/ Cardinality(matched) > 1 /\ answer' = Mosaic(pair, changed)
  /\ stage' = "done"
  /\ UNCHANGED <<pair, verdict, matched>>

Next == CheckCoregistration \/ Refuse \/ TileAndPair \/ NothingCompared \/ Compare

Spec == Init /\ [][Next]_vars
-----------------------------------------------------------------------------
Measured == answer # NoAnswer /\ answer.source \in {"sum", "mosaic"}

(* Change is only measured on a pair that shares ground and whose offset   *)
(* is tolerated, by whichever engine (coregistration.py:1-5).              *)
OnlyAlignedPairsMeasured ==
  Measured => Overlapping(pair.before, pair.after) /\ Drift(pair) <= MaxOffset

(* Two images of one frame are compared pixel for pixel, each on its own   *)
(* ground, whatever the tile size and overlap (tiling.py:15-20).           *)
SameFrameFullyCompared ==
  Measured /\ pair.before.origin = pair.after.origin /\ pair.before.width = pair.after.width =>
    UNION {Compared(pair, off) : off \in Computed(pair, matched)}
      = 0..(pair.before.width - 1)

(* A mosaic counts a pixel that several tiles show once, so it never       *)
(* exceeds what was compared nor 100 percent (stitching.py:357-364).       *)
MosaicCountsPixelsOnce ==
  Measured /\ answer.source = "mosaic" =>
    /\ answer.px <= Cardinality(UNION {Compared(pair, off) : off \in matched})
    /\ answer.px <= answer.total
=============================================================================

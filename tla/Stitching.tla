------------------------------ MODULE Stitching -----------------------------
(***************************************************************************)
(* backend/preprocessing/stitching.py: overlap of boxes and greedy         *)
(* suppression of the detections of one list. A detection is a record with *)
(* a label, a box in full-image pixels and a score. Masks, a finer         *)
(* overlap, are left out.                                                  *)
(***************************************************************************)
EXTENDS Tiling, Sublists, SequencesExt

CONSTANT IouPct   \* STITCH_IOU_THRESHOLD, in percent

(* box_iou(a, b) > threshold; a union without area counts as no overlap. *)
SameThing(a, b) ==
  LET inter == Area(Clipped(a, b))
      union == Area(a) + Area(b) - inter
  IN  union > 0 /\ 100 * inter > IouPct * union

(* Slip: the lowest score comes first. *)
PrecedesAscending(dets, i, j) ==
  \/ dets[i].score < dets[j].score
  \/ dets[i].score = dets[j].score /\ i < j

(* sorted(..., reverse=True) is stable: equal scores stay in order. *)
Precedes(dets, i, j) ==
  \/ dets[i].score > dets[j].score
  \/ dets[i].score = dets[j].score /\ i < j

Suppresses(d, e) == d.label = e.label /\ SameThing(d.box, e.box)

(* Slip: nothing is suppressed. *)
NmsKeepsAll(dets) == dets

(* nms: a detection is kept unless one that precedes it, and is kept,      *)
(* shows the same thing under the same label. The code lists what it keeps *)
(* label by label, the best first; here they stay in place.                *)
Nms(dets) ==
  LET kept[i \in DOMAIN dets] ==
        \A j \in DOMAIN dets :
          Precedes(dets, j, i) /\ Suppresses(dets[j], dets[i]) => ~kept[j]
  IN  ElementsAt(dets, {i \in DOMAIN dets : kept[i]})
=============================================================================

-------------------------------- MODULE Scene -------------------------------
(***************************************************************************)
(* The way of a query for objects, over one image or a radar and an        *)
(* optical image of one frame: tiling.py cuts each into overlapping tiles, *)
(* inference.py feeds them to the adapter batch by batch down the          *)
(* out-of-memory ladder (OomLadder), grounding_adapter.py and              *)
(* fusion_adapter.py move each box into the scene and suppress             *)
(* repetitions, and _merge_evidences joins the batches.                    *)
(*                                                                         *)
(* The network is external: a detector that misses nothing and reports of  *)
(* each object what a tile shows of it, with less certainty when the       *)
(* object is cut. Masks and the confidence of the whole are left out.      *)
(***************************************************************************)
EXTENDS OomLadder, Stitching

CONSTANTS
  Labels,   \* what a detector may call a thing
  Scenes    \* what an image may show, how it is tiled and detected

VARIABLES
  scene,
  tiles,      \* the tiles the planner hands to run_inference
  partial,    \* the evidences of the batches so far
  evidence

sceneVars == <<ladder, scene, tiles, partial, evidence>>

(* A scene has images of one size, a tile size, the overlap asked for,     *)
(* objects, and whether its detector also reports objects that a tile      *)
(* cuts. A query for a radar and an optical image has these two.          *)
Thing == [label : Labels, box : Box, score : Int]

SceneTyped(s) ==
  /\ Tileable(s.width, s.height, s.tile, s.overlap)
  /\ s.cuts \in BOOLEAN /\ s.objects \in Seq(Thing)
  /\ \A o \in Range(s.objects) : /\ o.box.x0 < o.box.x1 /\ o.box.x1 <= s.width
                                /\ o.box.y0 < o.box.y1 /\ o.box.y1 <= s.height
  /\ s.images \in Seq(Images) \ {<<>>}
  /\ s.entry \in CrossModels => Len(s.images) = 2

(* The tiles of the images follow each other.                              *)
SceneWindows(s) == Windows(s.width, s.height, s.tile, s.overlap)

SceneTiles(s) ==
  LET windows == SceneWindows(s)
  IN  FlattenSeq([k \in DOMAIN s.images |->
                    [i \in DOMAIN windows |-> [image |-> s.images[k], window |-> windows[i]]]])

RequestFor(s) ==
  LET all == SceneTiles(s)
  IN  [entry |-> s.entry, tiles |-> [i \in DOMAIN all |-> all[i].image]]

Visible(s, o, w) ==
  IF s.cuts THEN Area(Clipped(o.box, w)) > 0 ELSE Within(o.box, w)

(* model.ground on one tile: boxes in the tile's own pixels. *)
Ground(s, w) ==
  LET seen == ElementsAt(s.objects, {i \in DOMAIN s.objects : Visible(s, s.objects[i], w)})
  IN  [k \in DOMAIN seen |->
         [ label |-> seen[k].label,
           box   |-> Shifted(Clipped(seen[k].box, w), -w.x0, -w.y0),
           score |-> IF Within(seen[k].box, w) THEN seen[k].score ELSE seen[k].score - 1 ]]

(* box_px plus (col_off, row_off). *)
InScene(d, w) == [d EXCEPT !.box = Shifted(@, w.x0, w.y0)]

(* What a batch asks the model about: each tile, or (_pair_by_offset of    *)
(* fusion_adapter.py) each tile of the first image that has a partner.     *)
Looked(s, batch) ==
  LET windows(ts) == [i \in DOMAIN ts |-> ts[i].window]
      partnered(t) == /\ t.image = s.images[1]
                      /\ [image |-> s.images[2], window |-> t.window] \in Range(batch)
  IN  windows(IF s.entry \in CrossModels
              THEN ElementsAt(batch, {i \in DOMAIN batch : partnered(batch[i])})
              ELSE batch)

(* infer and postprocess of the adapters, up to suppression. *)
RawDetections(s, batch) ==
  LET windows == Looked(s, batch)
  IN  FlattenSeq([i \in DOMAIN windows |->
                    LET found == Ground(s, windows[i])
                    IN  [k \in DOMAIN found |-> InScene(found[k], windows[i])]])

(* Slip: the first batch's evidence is returned. *)
MergedFirst(evidences) == Head(evidences)

(* _merge_evidences: the batches' lists one after the other. *)
Merged(evidences) == FlattenSeq(evidences)

NoEvidence == [status |-> "none"]

Query(s) ==
  /\ Init
  /\ scene = s
  /\ tiles = <<>>
  /\ partial = <<>>
  /\ evidence = NoEvidence

SceneInit == \E s \in Scenes : Query(s)

Tile ==
  /\ tiles = <<>>
  /\ tiles' = SceneTiles(scene)
  /\ Start(RequestFor(scene))
  /\ UNCHANGED <<scene, partial, evidence>>

(* process_batch comes back with the evidence of a batch. *)
Detect ==
  /\ BatchOk
  /\ LET b == Batch(ladder)
     IN  partial' = Append(partial, Nms(RawDetections(scene, SubSeq(tiles, b.first, b.last))))
  /\ UNCHANGED <<scene, tiles, evidence>>

RunOut ==
  /\ BatchOom
  /\ UNCHANGED <<scene, tiles, partial, evidence>>

(* The query fails; nothing is merged. *)
Fail ==
  /\ BatchRaises
  /\ UNCHANGED <<scene, tiles, partial, evidence>>

Merge ==
  /\ Finish
  /\ evidence' =
       IF partial = <<>>
       THEN [status |-> "empty", detections |-> <<>>]
       ELSE [status |-> "merged", detections |-> Merged(partial)]
  /\ UNCHANGED <<scene, tiles, partial>>

SceneNext == Tile \/ Detect \/ RunOut \/ Fail \/ Merge

SceneSpec == SceneInit /\ [][SceneNext]_sceneVars

-----------------------------------------------------------------------------
(* The tiles cover the scene and none leaves it or is a sliver: along an   *)
(* axis longer than a tile each is a full tile (tiling.py:74-78).          *)
TilesCoverScene ==
  LET whole == [x0 |-> 0, y0 |-> 0, x1 |-> scene.width, y1 |-> scene.height]
      pixel(x, y) == [x0 |-> x, x1 |-> x + 1, y0 |-> y, y1 |-> y + 1]
  IN  tiles # <<>> =>
      /\ \A t \in Range(tiles) :
           /\ Within(t.window, whole)
           /\ t.window.x1 - t.window.x0 = Smaller(scene.tile, scene.width)
           /\ t.window.y1 - t.window.y0 = Smaller(scene.tile, scene.height)
      /\ \A image \in Range(scene.images), x \in 0..(scene.width - 1), y \in 0..(scene.height - 1) :
           \E t \in Range(tiles) : t.image = image /\ Within(pixel(x, y), t.window)

OverlapGiven(s) == s.tile - Stride(s.tile, s.overlap)

Fits(s, o) ==
  /\ \/ o.box.x1 - o.box.x0 <= OverlapGiven(s) \/ s.width <= s.tile
  /\ \/ o.box.y1 - o.box.y0 <= OverlapGiven(s) \/ s.height <= s.tile

(* End to end: an object no larger than the overlap is in the answer, at   *)
(* its place in the scene, however memory ran out on the way, unless each  *)
(* tile that shows it whole was dropped; and then a warning says so. It    *)
(* relates the grid, the coordinates, suppression, ladder and merge.       *)
ObjectsReported ==
  evidence # NoEvidence =>
    \A o \in Range(scene.objects) :
      Fits(scene, o) =>
        \/ \E d \in Range(evidence.detections) :
             /\ d.label = o.label /\ d.score >= o.score
             /\ d.box = o.box \/ SameThing(d.box, o.box)
        \/ /\ ladder.warnings > 0
           /\ \E i \in ladder.dropped : Within(o.box, tiles[i].window)

(* A batch's list names nothing twice, and what it left out is named by an *)
(* entry of at least its score (stitching.py:143-151). The evidences are   *)
(* only ever appended: it is enough to look at the last.                   *)
BatchesNameOnce ==
  partial # <<>> =>
    LET b == Last(ladder.partial)
        raw == RawDetections(scene, SubSeq(tiles, b.first, b.last))
        dets == Last(partial)
    IN  /\ \A i, j \in DOMAIN dets : i # j => ~Suppresses(dets[i], dets[j])
        /\ \A d \in Range(raw) :
             \E e \in Range(dets) : e = d \/ (Suppresses(e, d) /\ e.score >= d.score)

(* What the documentation says of the answer: "before this fix, the same   *)
(* real-world object near a tile boundary could come back as two separate  *)
(* boxes" (docs/SYSTEM_DESIGN.md:115). Suppression runs within a batch;    *)
(* after out of memory an object in two tiles of two batches is named      *)
(* twice.                                                                  *)
AnswerNamesOnce ==
  evidence # NoEvidence =>
    \A i, j \in DOMAIN evidence.detections :
      i # j => ~Suppresses(evidence.detections[i], evidence.detections[j])
=============================================================================

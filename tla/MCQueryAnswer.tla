--------------------------- MODULE MCQueryAnswer ----------------------------
(***************************************************************************)
(* Instances of QueryAnswer for TLC.                                       *)
(*                                                                         *)
(* Scenes: of one image or two, one tile, more along an axis or both,      *)
(* tiles of 4 pixels, overlaps that round each way, one or two objects.    *)
(* Pairs: frames that are equal, shifted, of two sizes or apart, offsets   *)
(* up to beyond the limit. Evidence: each task, each kind of warning and   *)
(* the values next to each threshold; 0.74996 is rounded up to it.         *)
(***************************************************************************)
EXTENDS QueryAnswer

MCQuantization == [m \in {"grounding", "fusion"} |-> "8bit"]
MCRequests ==
  {[entry |-> "grounding", tiles |-> [i \in 1..n |-> "optical"]] : n \in 1..9}
  \cup {[entry |-> "fusion", tiles |-> [i \in 1..(2 * n) |-> IF i <= n THEN "optical" ELSE "radar"]] :
          n \in 1..4}

BoxesIn(w, h) ==
  {b \in [x0 : 0..(w - 1), y0 : 0..(h - 1), x1 : 1..w, y1 : 1..h] :
     /\ b.x0 < b.x1 /\ b.y0 < b.y1 /\ b.x1 - b.x0 \in 2..3 /\ b.y1 - b.y0 \in 2..3}
TopBoxesIn(w, h) == {b \in BoxesIn(w, h) : b.y0 = 0 /\ b.y1 = 2}

Ship(b) == [label |-> "ship", box |-> b, score |-> 50000]

ObjectsIn(w, h) ==
  {<<Ship(a)>> : a \in BoxesIn(w, h)}
  \cup {<<Ship(a), [label |-> l, box |-> b, score |-> 76000]>> :
          a \in {x \in TopBoxesIn(w, h) : x.x1 = x.x0 + 2}, b \in TopBoxesIn(w, h), l \in {"ship", "dock"}}

MCScenes ==
  [ entry : {"fusion"}, images : {<<"optical", "radar">>}, width : {9}, height : {3},
    tile : {4}, overlap : {15}, cuts : BOOLEAN, objects : {<<Ship(a)>> : a \in TopBoxesIn(9, 3)} ]
  \cup
  [ entry : {"fusion"}, images : {<<"optical", "radar">>}, width : {3, 6}, height : {3},
    tile : {4}, overlap : {15}, cuts : BOOLEAN, objects : {<<Ship(a)>> : a \in TopBoxesIn(3, 3)} ]
  \cup
  UNION {[ entry : {"grounding"}, images : {<<"optical">>}, width : {z[1]}, height : {z[2]},
           tile : {4}, overlap : {0, 15, 50}, cuts : BOOLEAN,
           objects : ObjectsIn(z[1], z[2]) ] : z \in {<<4, 3>>, <<6, 4>>, <<5, 5>>, <<9, 3>>}}

MCPairs ==
  [ engine : {"model", "deterministic"}, tile : {3}, overlap : {0, 34},
    before : [origin : {0}, width : {2, 5}, drift : {0}],
    after  : [origin : {0, 1, 5}, width : {2, 5, 6}, drift : {0, 2, 3}] ]

Numbers(n) == [numbers |-> n]
Warning(k, n) == [kind |-> k, numbers |-> n]
Nothing == [absent |-> TRUE]

(* What the models of the other tasks, the planner and a failed web search *)
(* may leave: a description with or without numbers, a change map, scores  *)
(* on either side of the thresholds, warnings.                             *)
MCEvidences ==
  {e \in [ task     : {"SINGLE_IMAGE_VQA", "CHANGE_VQA", "OPTICAL_SAR_FUSION", "UNSUPPORTED"},
           scores   : {<<>>, <<24000>>, <<25000, 90000>>},
           change   : {Nothing, [px |-> 200000, pct |-> 4610, conf |-> 74000]},
           vqa      : {Nothing, Numbers({300000})},
           stats    : {<<>>, <<81230>>},
           conf     : {Nothing, [value |-> 24999], [value |-> 74996]},
           warnings : { {}, {Warning("co-registration", {})}, {Warning("preprocessing", {})},
                        {Warning("other", {800000})},
                        {Warning("co-registration", {}), Warning("other", {800000})} } ] :
     e.change # Nothing => e.task \in {"CHANGE_VQA", "OPTICAL_SAR_FUSION"}}
=============================================================================

------------------------------- MODULE Ladder -------------------------------
(***************************************************************************)
(* backend/model_registry/inference.py: the bookkeeping of                 *)
(* _run_with_oom_ladder as operators on its local state, and what the      *)
(* adapters ask of a batch.                                                *)
(*                                                                         *)
(* `remaining` is always a suffix of the tiles: it is represented by how   *)
(* many tiles before it were handled (processed or dropped).               *)
(***************************************************************************)
EXTENDS Integers, Sequences

CONSTANTS
  Models,        \* names of the registry's entries
  Quantization,  \* Quantization[m]: the tier entry m asks for
  CrossModels,   \* the entries that serve tasks over a pair of images
  Images,        \* identities of images
  Requests       \* the requests run_inference may get

Quants == {"none", "8bit", "4bit"}

Request == [entry : Models, tiles : Seq(Images)]

(* The registry knows the tier of each entry, and no call is without tiles.*)
RegistryServes ==
  /\ Quantization \in [Models -> Quants]
  /\ Requests \subseteq Request
  /\ \A r \in Requests : r.tiles # <<>>

(* _QUANT_FALLBACK, from the largest copy of a model to the smallest. *)
NextTier(q) == IF q = "none" THEN "8bit" ELSE "4bit"
LastTier == "4bit"
Rank(q) == CASE q = "none" -> 2 [] q = "8bit" -> 1 [] OTHER -> 0

NewLadder(r) ==
  [ status   |-> "running",
    request  |-> r,
    handled  |-> 0,                  \* remaining = tiles[handled + 1 ..]
    size     |-> Len(r.tiles),       \* batch_size
    quant    |-> Quantization[r.entry],
    partial  |-> <<>>,               \* batches that gave evidence
    dropped  |-> {},                 \* positions of the tiles given up
    warnings |-> 0 ]                 \* how many

(* No call is being served. *)
Idle == [status |-> "idle"]

Left(l) == Len(l.request.tiles) - l.handled

(* remaining[:batch_size], which a slice cuts at the end of the list. *)
BatchEnd(l) == l.handled + (IF l.size < Left(l) THEN l.size ELSE Left(l))
Batch(l) == [first |-> l.handled + 1, last |-> BatchEnd(l), quant |-> l.quant]

ImagesOf(l, b) == {l.request.tiles[i] : i \in b.first..b.last}

(* The change and fusion adapters need tiles of exactly two images. *)
Accepted(l, b) ==
  l.request.entry \in CrossModels =>
    \E x, y \in Images : x # y /\ ImagesOf(l, b) = {x, y}

(* Slip: the batch is processed, one tile of it is taken off the list. *)
ProcessedTakesOneOff(l) ==
  [l EXCEPT !.handled = @ + 1, !.partial = Append(@, Batch(l))]

Processed(l) == [l EXCEPT !.handled = BatchEnd(l), !.partial = Append(@, Batch(l))]

(* What an out-of-memory error leads to: a smaller batch, or else a lower  *)
(* tier, or else one tile fewer.                                           *)
Shrunk(l) ==
  [l EXCEPT !.size = IF @ \div 2 > 1 THEN @ \div 2 ELSE 1, !.warnings = @ + 1]

(* Slip: the batch size starts again, the tier stays. *)
SizeResetOnly(l) == [l EXCEPT !.size = Left(l), !.warnings = @ + 1]

SteppedDown(l) ==
  [l EXCEPT !.quant = NextTier(@), !.size = Left(l), !.warnings = @ + 1]

TileDropped(l) ==
  [l EXCEPT !.handled = @ + 1,
            !.dropped = @ \cup {l.handled + 1},
            !.size = IF Left(l) > 1 THEN Left(l) - 1 ELSE 1,
            !.warnings = @ + 2]

(* Slip: a batch of one that runs out of memory is dropped at any tier. *)
OutOfMemoryDropsEarly(l, next) ==
  \/ l.size > 1 /\ next = Shrunk(l)
  \/ l.size = 1 /\ next = TileDropped(l)

OutOfMemory(l, next) ==
  \/ l.size > 1 /\ next = Shrunk(l)
  \/ l.size = 1 /\ l.quant # LastTier /\ next = SteppedDown(l)
  \/ l.size = 1 /\ l.quant = LastTier /\ next = TileDropped(l)

Raised(l, cause) == [l EXCEPT !.status = cause]

(* The loop is over: the evidences are merged, or there are none. *)
Ended(l) == [l EXCEPT !.status = IF l.partial = <<>> THEN "empty" ELSE "answered"]
-----------------------------------------------------------------------------
(* What the locals always are. A batch size of zero would take empty       *)
(* batches for ever.                                                       *)
LadderRecord ==
  [ status   : {"running", "answered", "empty", "model_error", "adapter_error"},
    request  : Request,
    handled  : Nat,
    size     : Nat \ {0},
    quant    : Quants,
    partial  : Seq([first : Nat, last : Nat, quant : Quants]),
    dropped  : SUBSET Nat,
    warnings : Nat ]

LadderTyped(l) == l = Idle \/ l \in LadderRecord

Covered(l) == UNION {l.partial[i].first..l.partial[i].last : i \in DOMAIN l.partial}

(* Whatever ran out of memory and in which order: each tile handled so far *)
(* is in exactly one batch that gave evidence, in order, or was dropped    *)
(* (inference.py:89-110; merged counts and detections would otherwise miss *)
(* a tile or count it twice).                                              *)
TilesAccounted(l) ==
  l # Idle =>
    /\ Covered(l) \cup l.dropped = 1..l.handled
    /\ Covered(l) \cap l.dropped = {}
    /\ \A i, j \in DOMAIN l.partial : i < j => l.partial[i].last < l.partial[j].first
    /\ l.status \in {"answered", "empty"} => Left(l) = 0

(* A tile is given up only on the last tier, and an answer without a       *)
(* warning is one batch of all tiles at the tier the registry asks for     *)
(* ("explicit entry in Evidence.warnings", inference.py:53-55).            *)
LossIsLastResort(l) ==
  l # Idle =>
    /\ l.dropped # {} => l.quant = LastTier
    /\ l.status = "answered" /\ l.warnings = 0 =>
         l.partial = << [ first |-> 1, last |-> Len(l.request.tiles),
                          quant |-> Quantization[l.request.entry] ] >>

(* A turn of the loop descends in the tiles left, or else in the tier, or  *)
(* else in the batch size.                                                 *)
Descends(l, m) ==
  \/ Left(m) < Left(l)
  \/ Left(m) = Left(l) /\ Rank(m.quant) < Rank(l.quant)
  \/ Left(m) = Left(l) /\ m.quant = l.quant /\ m.size < l.size

=============================================================================

------------------------- MODULE MCInferenceRuntime -------------------------
(* Instances of InferenceRuntime for TLC, with the registry's own figures: *)
(* models.yaml's tiers and _estimate_vram_mb's footprints, in 100 MB.      *)
EXTENDS InferenceRuntime, TLC

AllModels == {"vlm", "grounding", "change"}
Registry  == ("vlm" :> "4bit") @@ ("grounding" :> "none") @@ ("change" :> "8bit")
Footprint == ("none" :> 60) @@ ("8bit" :> 32) @@ ("4bit" :> 18)
PairModels == {"change"}

(* A tile of each of two images, one tile, and three of one image. *)
MCRequests ==
  { [entry |-> "change",    tiles |-> <<"a", "b">>],
    [entry |-> "grounding", tiles |-> <<"a">>],
    [entry |-> "vlm",       tiles |-> <<"a", "a", "a">>] }

Symmetry == Permutations(Threads)
=============================================================================

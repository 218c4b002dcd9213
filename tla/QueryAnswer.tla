----------------------------- MODULE QueryAnswer ----------------------------
(***************************************************************************)
(* The way of one query from its images to its answer: a query for objects *)
(* through Scene, a change query through ChangePairs, any other with what  *)
(* its model returned; the evidence then goes to EvidenceResponse, as in   *)
(* backend/agent/planner.py.                                               *)
(***************************************************************************)
EXTENDS Integers, Sequences, FiniteSets

CONSTANTS
  Kinds,         \* which of the three ways a query may take
  (* Scene *)
  Models, Quantization, CrossModels, Images, Requests, IouPct, Labels, Scenes,
  (* ChangePairs *)
  Pairs, Negligible, MaxOffset, ChangeConfidence,
  (* EvidenceResponse *)
  Evidences, Clients, Inventions, MaxRetries

VARIABLES
  kind,     \* of the way: "scene", "change" or "other"
  ladder, scene, tiles, partial, found,
  pair, stage, verdict, matched, measured,
  client, evidence, asked, last, text, response

sceneVars == <<ladder, scene, tiles, partial, found>>
pairVars == <<pair, stage, verdict, matched, measured>>
gateVars == <<client, evidence, asked, last, text, response>>
vars == <<kind, sceneVars, pairVars, gateVars>>

Grounding == INSTANCE Scene WITH evidence <- found
Change == INSTANCE ChangePairs WITH answer <- measured
Gate == INSTANCE EvidenceResponse

ASSUME SettingsAssumption ==
  /\ IouPct \in 0..100
  /\ Negligible \in Nat /\ MaxOffset \in Nat /\ Negligible <= MaxOffset
  /\ MaxRetries \in Nat

ASSUME RegistryAssumption == Grounding!RegistryServes

(* A scene is tiled into a request the ladder takes. *)
ASSUME ScenesAssumption ==
  Scenes # {} /\ \A s \in Scenes : Grounding!SceneTyped(s) /\ Grounding!RequestFor(s) \in Requests

ASSUME PairsAssumption ==
  Pairs # {} /\ (\A p \in Pairs : Change!PairTyped(p)) /\ ChangeConfidence \in Int

ASSUME EvidencesAssumption ==
  /\ \A e \in Evidences : Gate!WellFormed(e)
  /\ Inventions \subseteq Int

AnyScene == CHOOSE s \in Scenes : TRUE
AnyPair == CHOOSE p \in Pairs : TRUE

Caveat(n) == IF n = 0 THEN {} ELSE {[kind |-> "other", numbers |-> {}]}
NoSource == [task |-> "none", scores |-> <<>>, change |-> Gate!Absent, vqa |-> Gate!Absent,
             stats |-> <<>>, conf |-> Gate!Absent, warnings |-> {}]

MeanOf(scores) == Gate!MeanScore([scores |-> scores])

(* The adapter's evidence of each batch, merged: the confidence is the *)
(* mean of the batches' means, and a batch that found nothing warns.       *)
GroundingEvidence ==
  LET scoresOf(dets) == [i \in DOMAIN dets |-> dets[i].score]
      hits == Grounding!ElementsAt(partial, {b \in DOMAIN partial : partial[b] # <<>>})
      means == [b \in DOMAIN hits |-> MeanOf(scoresOf(hits[b]))]
      silent == Len(partial) - Len(hits)
  IN  [NoSource EXCEPT
         !.task = IF scene.entry \in CrossModels THEN "OPTICAL_SAR_FUSION" ELSE "GROUNDING",
         !.scores = scoresOf(found.detections),
         !.conf = IF hits = <<>> THEN Gate!Absent ELSE [value |-> MeanOf(means)],
         !.warnings = Caveat(ladder.warnings + silent)]

AreaPct == (Gate!Percent(Gate!One) * measured.px) \div measured.total

(* What the planner or the change engine makes of a pair. The              *)
(* deterministic engine says the numbers in prose (_change_answer), too.   *)
ChangeEvidence ==
  CASE measured.source = "refused" ->
         [NoSource EXCEPT !.task = "CHANGE_DETECTION",
                          !.warnings = {[kind |-> "co-registration", numbers |-> {}]}]
    [] measured.source = "nothing" ->
         [NoSource EXCEPT !.task = "CHANGE_DETECTION", !.warnings = Caveat(1)]
    [] OTHER ->
         [NoSource EXCEPT
            !.task = "CHANGE_DETECTION",
            !.change = [ px   |-> Gate!One * measured.px,
                         pct  |-> AreaPct, conf |-> ChangeConfidence ],
            !.vqa = IF pair.engine = "model" THEN Gate!Absent
                    ELSE [numbers |-> { Gate!One * measured.px, Gate!Fmt(AreaPct),
                                        Gate!Percent(ChangeConfidence) }],
            !.conf = [value |-> ChangeConfidence],
            !.warnings = Caveat(Cardinality(matched \ Change!Computed(pair, matched)))]

(* A query takes one way: the inputs of the others are any.                *)
Init ==
  /\ kind \in Kinds
  /\ \E s \in IF kind = "scene" THEN Scenes ELSE {AnyScene} : Grounding!Query(s)
  /\ \E p \in IF kind = "change" THEN Pairs ELSE {AnyPair} : Change!Query(p)
  /\ \E c \in IF kind = "other" THEN Clients ELSE {FALSE} : Gate!Configured(c)

Locate ==
  /\ kind = "scene"
  /\ Grounding!SceneNext
  /\ UNCHANGED <<kind, pairVars, gateVars>>

Measure ==
  /\ kind = "change"
  /\ Change!Next
  /\ UNCHANGED <<kind, sceneVars, gateVars>>

HandOver ==
  /\ \/ kind = "scene" /\ found # Grounding!NoEvidence /\ Gate!Receive(GroundingEvidence)
     \/ kind = "change" /\ stage = "done" /\ Gate!Receive(ChangeEvidence)
     \/ kind = "other" /\ \E e \in Evidences : Gate!Receive(e)
  /\ UNCHANGED <<kind, sceneVars, pairVars>>

Judge ==
  /\ Gate!Deliberate
  /\ UNCHANGED <<kind, sceneVars, pairVars>>

Next == Locate \/ Measure \/ HandOver \/ Judge

Spec == Init /\ [][Next]_vars
-----------------------------------------------------------------------------
(* Without a warning an answer never claims more matches than there are    *)
(* things to see, when the detector does not split them                    *)
(* (grounding_adapter.py:8-13). A threshold of 100 percent, which nothing  *)
(* refuses, switches suppression off.                                      *)
CountNotInflated ==
  kind = "scene" /\ Gate!Answered /\ ~scene.cuts /\ evidence.warnings = {} /\ IouPct < 100 =>
    Len(evidence.scores) <= Len(scene.objects)

(* Tiles cover their scene, whatever its size, and so a pair of one frame  *)
(* is compared in full; see Scene and ChangePairs.                         *)
TilesCoverImages == Grounding!TilesCoverScene /\ Change!SameFrameFullyCompared

(* See EvidenceResponse. And a pair the planner refuses is never answered, *)
(* and the reader is told that it is for the alignment                     *)
(* (validator.py:49-55): the verdict of the co-registration has to survive *)
(* as the marker of a warning.                                             *)
AbstentionsAskNobody ==
  /\ Gate!AbstentionsAskNobody
  /\ kind = "change" /\ measured.source = "refused" /\ response # Gate!Absent =>
       response.abstained /\ response.reason = "alignment"

(* See EvidenceResponse. And what the planner and the adapters hand over   *)
(* is evidence the gate can work with: a change query that is not          *)
(* refused has a change map for its template (templates.py:42-48).         *)
NumbersTrace ==
  /\ Gate!NumbersTrace
  /\ evidence # Gate!Absent => Gate!WellFormed(evidence)

(* The other properties of the parts, of the whole. *)
ObjectsReported == Grounding!ObjectsReported
BatchesNameOnce == Grounding!BatchesNameOnce
OnlyAlignedPairsMeasured == Change!OnlyAlignedPairsMeasured
MosaicCountsPixelsOnce == Change!MosaicCountsPixelsOnce
WeakestLinkSpeaks == Gate!WeakestLinkSpeaks
CaveatsReachReader == Gate!CaveatsReachReader

(* What the documents say and the code does not do: see Scene.             *)
AnswerNamesOnce == Grounding!AnswerNamesOnce
=============================================================================

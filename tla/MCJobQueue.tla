----------------------------- MODULE MCJobQueue -----------------------------
(* Instances of JobQueue for TLC: what requests clients submit.            *)
EXTENDS JobQueue, Intent, TLC

Ask(words) == [words |-> words, starts |-> TRUE, asks |-> TRUE]
Optical(n) == [i \in 1..n |-> "OPTICAL"]

Plain == Submitted(Ask({}), <<>>, Optical(1), FALSE, "DEEP")

(* One plain question over one image: the gate with its queue is what      *)
(* interests here.                                                         *)
PlainRequests == {Plain}

(* One request per way through the planner: out of scope; one image        *)
(* without and with a search; two images, whose question calls for a       *)
(* search, does not, or does so for the conversation before it.            *)
AllRequests ==
  { Submitted(Ask({"out_of_scope"}), <<>>, Optical(1), FALSE, "DEEP"),
    Submitted(Ask({"grounding", "recency"}), <<>>, Optical(1), TRUE, "FAST"),
    Submitted(Ask({"caption"}), <<>>, Optical(1), TRUE, "RESEARCH"),
    Submitted(Ask({"change"}), <<>>, Optical(2), TRUE, "DEEP"),
    Submitted(Ask({"change", "explain"}), <<>>, Optical(2), TRUE, "DEEP"),
    Submitted(Ask({"change"}), <<Ask({})>>, Optical(2), TRUE, "DEEP") }

(* Whatever is asked of whichever images, also after other turns, is a     *)
(* request the planner is made for.                                        *)
ASSUME QuestionsAreRequests ==
  \A question \in Text, before \in SUBSET Keywords,
     images \in UNION {[1..n -> {"OPTICAL", "SAR"}] : n \in 0..3} :
    \A history \in {<<>>, <<[Ask({}) EXCEPT !.words = before]>>} :
      Submitted(question, history, images, TRUE, "DEEP") \in Request

Symmetry == Permutations(Jobs)
=============================================================================

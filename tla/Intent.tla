-------------------------------- MODULE Intent --------------------------------
(***************************************************************************)
(* backend/agent/intent.py and search_decision.py: what a question and its *)
(* images make of a request, and how main.py puts earlier turns before it. *)
(*                                                                         *)
(* A text is the kinds of keyword it contains, whether it starts with a    *)
(* question word and whether it ends with a question mark.                 *)
(***************************************************************************)
EXTENDS Integers, Sequences

Keywords == {"out_of_scope", "grounding", "caption", "change", "recency", "explain"}

Text == [words : SUBSET Keywords, starts : BOOLEAN, asks : BOOLEAN]

(* The turns of a conversation that are kept. *)
Remembered == 8

Recent(history) ==
  SubSeq(history, IF Len(history) > Remembered THEN Len(history) - Remembered + 1 ELSE 1,
         Len(history))

(* _build_execution_query: after a heading, the turns, and a label that    *)
(* holds the word "current", comes the question.                           *)
ExecutionQuery(question, history) ==
  LET said == UNION {Recent(history)[i].words : i \in DOMAIN Recent(history)}
  IN  IF history = <<>> THEN question
      ELSE [ words |-> question.words \cup said \cup {"recency"},
             starts |-> FALSE, asks |-> question.asks ]

-----------------------------------------------------------------------------
Names(text, kind) == kind \in text.words

Question(text) == text.starts \/ text.asks

(* Two images: one optical and one radar image are fused unless change is  *)
(* asked for.                                                              *)
PairTask(text, images) ==
  IF {images[1], images[2]} = {"OPTICAL", "SAR"} /\ ~Names(text, "change")
  THEN [task |-> "OPTICAL_SAR_FUSION", confidence |-> 80]
  ELSE [ task |-> IF Question(text) THEN "CHANGE_VQA" ELSE "CHANGE_DETECTION",
         confidence |-> 75 ]

ImageTask(text) ==
  IF Names(text, "grounding") THEN [task |-> "GROUNDING", confidence |-> 85]
  ELSE IF Names(text, "caption") THEN [task |-> "CAPTIONING", confidence |-> 85]
  ELSE [task |-> "SINGLE_IMAGE_VQA", confidence |-> 50]

(* _deterministic_classify; images is the sequence of their modalities.    *)
Guess(text, images) ==
  IF Len(images) \notin 1..2 THEN [task |-> "UNSUPPORTED", confidence |-> 100]
  ELSE IF Names(text, "out_of_scope") THEN [task |-> "UNSUPPORTED", confidence |-> 90]
  ELSE IF Len(images) = 1 THEN ImageTask(text)
  ELSE PairTask(text, images)

(* HeuristicFallbackClassifier: the same guess, with more confidence. *)
SecondGuess(text, images) ==
  LET g == Guess(text, images)
  IN  [g EXCEPT !.confidence = IF g.task = "UNSUPPORTED" THEN 0 ELSE 80]

(* classify_intent. *)
Classified(text, images) ==
  IF Guess(text, images).confidence >= 65
  THEN Guess(text, images).task
  ELSE IF SecondGuess(text, images).confidence >= 60
       THEN SecondGuess(text, images).task
       ELSE "UNSUPPORTED"

(* should_search_web. *)
Signals(text) == Names(text, "recency") \/ Names(text, "explain")

(* What the planner sees of a submission (queue.py, JobQueue!Request).     *)
ClassOf(task) ==
  CASE task = "UNSUPPORTED" -> "unsupported"
    [] task \in {"CHANGE_DETECTION", "CHANGE_VQA", "OPTICAL_SAR_FUSION"} -> "cross"
    [] OTHER -> "single"

Submitted(question, history, images, web, mode) ==
  LET text == ExecutionQuery(question, history)
  IN  [ task |-> ClassOf(Classified(text, images)), images |-> Len(images),
        web |-> web, mode |-> mode, signal |-> Signals(text) ]
=============================================================================

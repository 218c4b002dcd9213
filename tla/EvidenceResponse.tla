-------------------------- MODULE EvidenceResponse --------------------------
(***************************************************************************)
(* backend/evidence: validate_and_respond turns the evidence of a query    *)
(* into an answer or an abstention. Numbers are in units of 0.00001; a     *)
(* text is the set of numbers it shows, whether the caveats follow it, and *)
(* who wrote it. The language model is external: it may raise, send a text *)
(* that is no format string, or prose with tokens and digits of its own.   *)
(*                                                                         *)
(* Left out: wording, digits inside labels, and the names of tokens.       *)
(***************************************************************************)
EXTENDS Integers, Sequences, FiniteSetsExt, Functions

CONSTANTS
  Evidences,      \* what run_inference or the planner may hand over
  Clients,        \* whether an llm_client is configured: a set of BOOLEANs
  Inventions,     \* numbers the language model may type by itself
  MaxRetries      \* MAX_LLM_REGENERATION_ATTEMPTS

VARIABLES
  client,
  evidence,
  asked,      \* how often the client was called for this query
  last,       \* what came of the last call
  text,       \* what generate_explanation returns
  response

vars == <<client, evidence, asked, last, text, response>>

One == 100000
Percent(x) == 100 * x
High == 75000       \* CONFIDENCE_HIGH_THRESHOLD
Medium == 40000     \* CONFIDENCE_MEDIUM_THRESHOLD
WeakFloor == 25000  \* WEAK_EVIDENCE_FLOOR

Absent == [absent |-> TRUE]

Nearest(x, unit) ==
  LET q == x \div unit
      r == 2 * (x % unit)
  IN  unit * (IF r > unit \/ (r = unit /\ q % 2 = 1) THEN q + 1 ELSE q)

(* _fmt: two decimals. At a tie the code goes by the binary fraction; here *)
(* a tie goes to the even neighbour.                                       *)
Fmt(x) == Nearest(x, 1000)
-----------------------------------------------------------------------------
(* What the evidence holds. *)
Said(e) == IF e.vqa = Absent THEN {} ELSE e.vqa.numbers
CaveatNumbers(e) == UNION {w.numbers : w \in e.warnings}

MeanScore(e) == Nearest(SumFunction(e.scores), Len(e.scores)) \div Len(e.scores)

Signals(e) ==
  (IF e.conf = Absent THEN {} ELSE {e.conf.value})
  \cup (IF e.scores = <<>> THEN {} ELSE {MeanScore(e)})
  \cup (IF e.change = Absent THEN {} ELSE {e.change.conf})

(* Slip: the strongest signal speaks for the evidence. *)
StrongestSignal(e) == IF Signals(e) = {} THEN Absent ELSE [value |-> Max(Signals(e))]

(* _derive_value: the weakest link of the chain, rounded to four decimals. *)
FourthDecimal == 10
ConfidenceValue(e) ==
  IF Signals(e) = {} THEN Absent ELSE [value |-> Nearest(Min(Signals(e)), FourthDecimal)]

Band(v) ==
  CASE v = Absent -> "LOW"
    [] v # Absent /\ v.value >= High -> "HIGH"
    [] v # Absent /\ v.value < High /\ v.value >= Medium -> "MEDIUM"
    [] OTHER -> "LOW"
-----------------------------------------------------------------------------
(* validator.py: the first reason that applies, or none. *)
Marked(e, kind) == \E w \in e.warnings : w.kind = kind

NoSignal(e) == e.scores = <<>> /\ e.change = Absent /\ e.vqa = Absent /\ e.stats = <<>>

Weak(e) ==
  /\ e.conf # Absent /\ e.conf.value < WeakFloor
  /\ \A s \in Range(e.scores) : s < WeakFloor
  /\ e.change = Absent \/ e.change.conf < WeakFloor

(* Slip: the marker of a co-registration refusal is misspelt (config.py    *)
(* tells of it).                                                           *)
ReasonUnmarked(e) ==
  IF e.task = "UNSUPPORTED" THEN "unsupported"
  ELSE IF NoSignal(e) THEN "empty"
  ELSE IF Weak(e) THEN "weak"
  ELSE "none"

Reason(e) ==
  IF e.task = "UNSUPPORTED" THEN "unsupported"
  ELSE IF Marked(e, "co-registration") THEN "alignment"
  ELSE IF Marked(e, "preprocessing") THEN "preparation"
  ELSE IF NoSignal(e) THEN "empty"
  ELSE IF Weak(e) THEN "weak"
  ELSE "none"
-----------------------------------------------------------------------------
(* grounding.py: the numbers an answer may show, and the tokens' display.  *)
Allowed(e) ==
  Range(e.stats)
  \cup (IF e.change = Absent THEN {}
        ELSE {e.change.px, e.change.pct, e.change.conf, Percent(e.change.conf)})
  \cup (IF e.scores = <<>> THEN {}
        ELSE {One * Len(e.scores), MeanScore(e), Percent(MeanScore(e))}
             \cup Range(e.scores) \cup {Percent(s) : s \in Range(e.scores)})
  \cup (IF e.conf = Absent THEN {} ELSE {e.conf.value, Percent(e.conf.value)})
  \cup Said(e)
  \cup CaveatNumbers(e)

ScoreTokens(e) ==
  IF e.scores = <<>> THEN {}
  ELSE { One * Len(e.scores), Fmt(Percent(Min(Range(e.scores)))),
         Fmt(Percent(Max(Range(e.scores)))) }

AreaTokens(e) ==
  IF e.change = Absent THEN {} ELSE {Fmt(e.change.pct), Fmt(Percent(e.change.conf))}

Tokens(e) ==
  {Fmt(x) : x \in Range(e.stats)}
  \cup ScoreTokens(e) \cup AreaTokens(e)
  \cup (IF e.scores = <<>> THEN {} ELSE {Fmt(Percent(MeanScore(e)))})
  \cup (IF e.change = Absent THEN {} ELSE {e.change.px})
  \cup (IF e.conf = Absent THEN {} ELSE {Fmt(Percent(e.conf.value))})

(* Slip: a relative tolerance of 5 becomes one of 50 percent. *)
IsGroundedLoosely(v, allowed) ==
  \E a \in allowed : \/ Nearest(v, 10000) = Nearest(a, 10000)
                     \/ 2 * (IF v > a THEN v - a ELSE a - v) <= a

(* claim_check.py: equal to one decimal, or within 5 percent. *)
IsGrounded(v, allowed) ==
  \E a \in allowed : \/ Nearest(v, 10000) = Nearest(a, 10000)
                     \/ 20 * (IF v > a THEN v - a ELSE a - v) <= a

ClaimsHold(numbers, e) == \A v \in numbers : IsGrounded(v, Allowed(e))
-----------------------------------------------------------------------------
(* templates.py. *)
GenericNumbers(e) == IF e.vqa = Absent THEN Tokens(e) ELSE Said(e)

TemplateNumbers(e) ==
  CASE e.task = "GROUNDING" ->
         IF e.scores = <<>> THEN GenericNumbers(e) ELSE ScoreTokens(e)
    [] e.task = "CHANGE_DETECTION" ->
         IF e.vqa = Absent THEN AreaTokens(e) \cup {e.change.px} ELSE Said(e)
    [] e.task = "CHANGE_VQA" ->
         IF e.change = Absent THEN GenericNumbers(e) ELSE Said(e) \cup AreaTokens(e)
    [] OTHER -> Said(e)

(* Slip: the caveats are left to the caller. *)
WithoutCaveats(numbers, e, author) == [author |-> author, numbers |-> numbers, caveats |-> {}]

(* warnings_suffix: every warning follows the text. The code leaves out    *)
(* those spelt "coregistration", which nothing sends.                      *)
WithCaveats(numbers, e, author) ==
  [author |-> author, numbers |-> numbers \cup CaveatNumbers(e), caveats |-> e.warnings]

Template(e) == WithCaveats(TemplateNumbers(e), e, "template")
(* Well-formed evidence: everything that counts is a number, and a change  *)
(* query that is answered without prose has measured a change; without one *)
(* its template would raise.                                               *)
WellFormed(e) ==
  /\ e.scores \in Seq(Int) /\ Range(e.stats) \subseteq Int
  /\ e.scores # <<>> => MeanScore(e) \in Int
  /\ e.change # Absent => e.change.px \in Int /\ e.change.pct \in Int /\ e.change.conf \in Int
  /\ e.conf # Absent => e.conf.value \in Int
  /\ Said(e) \subseteq Int /\ CaveatNumbers(e) \subseteq Int
  /\ e.task = "CHANGE_DETECTION" /\ e.vqa = Absent /\ Reason(e) = "none" => e.change # Absent
-----------------------------------------------------------------------------
Configured(c) ==
  /\ client = c
  /\ evidence = Absent
  /\ asked = 0
  /\ last = "none"
  /\ text = Absent
  /\ response = Absent

Init == \E c \in Clients : Configured(c)

Receive(e) ==
  /\ evidence = Absent
  /\ evidence' = e
  /\ UNCHANGED <<client, asked, last, text, response>>

Abstain ==
  /\ evidence # Absent /\ response = Absent
  /\ Reason(evidence) # "none"
  /\ response' = [abstained |-> TRUE, reason |-> Reason(evidence), band |-> "LOW"]
  /\ UNCHANGED <<client, evidence, asked, last, text>>

Explaining == evidence # Absent /\ Reason(evidence) = "none" /\ text = Absent

MayAsk == client /\ last # "raised" /\ asked <= MaxRetries

(* The client itself fails: it is not asked again. *)
ClientRaises ==
  /\ Explaining /\ MayAsk
  /\ asked' = asked + 1
  /\ last' = "raised"
  /\ UNCHANGED <<client, evidence, text, response>>

(* What it sends cannot be formatted: one of the attempts is spent. *)
ClientSendsNoFormat ==
  /\ Explaining /\ MayAsk
  /\ asked' = asked + 1
  /\ last' = "malformed"
  /\ UNCHANGED <<client, evidence, text, response>>

(* It sends prose with tokens, perhaps with a number of its own. *)
ClientWrites ==
  /\ Explaining /\ MayAsk
  /\ asked' = asked + 1
  /\ \E used \in SUBSET Tokens(evidence), typed \in {{}} \cup {{n} : n \in Inventions} :
       IF ClaimsHold(used \cup typed, evidence)
       THEN /\ text' = WithCaveats(used \cup typed, evidence, "client")
            /\ last' = "accepted"
       ELSE last' = "leaked" /\ UNCHANGED text
  /\ UNCHANGED <<client, evidence, response>>

FallBack ==
  /\ Explaining /\ ~MayAsk
  /\ text' = Template(evidence)
  /\ UNCHANGED <<client, evidence, asked, last, response>>

(* The outermost check: a text that fails is replaced by the template. *)
Respond ==
  /\ text # Absent /\ response = Absent
  /\ LET final == IF ClaimsHold(text.numbers, evidence) THEN text ELSE Template(evidence)
     IN  response' = [ abstained |-> FALSE,
                       author |-> final.author, numbers |-> final.numbers,
                       caveats |-> final.caveats,
                       band |-> Band(ConfidenceValue(evidence)) ]
  /\ UNCHANGED <<client, evidence, asked, last, text>>

Deliberate ==
  Abstain \/ ClientRaises \/ ClientSendsNoFormat \/ ClientWrites \/ FallBack \/ Respond

Next == (\E e \in Evidences : Receive(e)) \/ Deliberate

Spec == Init /\ [][Next]_vars
-----------------------------------------------------------------------------
Answered == response # Absent /\ ~response.abstained

(* No number of an answer is the language model's own: each is within 0.1  *)
(* or 5 percent of one in the evidence, but for those the template rounds  *)
(* for display (architecture.md:235). The prompt, the check of the prose,  *)
(* the retries and the final check together must see to it.                *)
NumbersTrace ==
  Answered =>
    \A n \in response.numbers \ Tokens(evidence) :
      \E a \in Allowed(evidence) :
        LET gap == IF n > a THEN n - a ELSE a - n
        IN  gap <= 10000 \/ 20 * gap <= a

(* An abstention never touches the language model (validator.py:5-6), and  *)
(* neither a refused pair nor an unprepared image is ever answered, by     *)
(* whichever signal the evidence holds besides.                            *)
AbstentionsAskNobody ==
  response # Absent =>
    /\ response.abstained => asked = 0 /\ text = Absent
    /\ Marked(evidence, "co-registration") \/ Marked(evidence, "preprocessing")
         => response.abstained /\ response.reason \in {"alignment", "preparation", "unsupported"}

(* "response confidence never overstates the weakest link"                 *)
(* (confidence.py:39-43): an answer in a band has no signal below it, but  *)
(* by half of the fourth decimal, to which the value is rounded before it  *)
(* is given its band: 0.74996 is HIGH.                                     *)
WeakestLinkSpeaks ==
  Answered /\ response.band # "LOW" =>
    \A s \in Signals(evidence) :
      2 * ((IF response.band = "HIGH" THEN High ELSE Medium) - s) <= FourthDecimal

(* A warning the evidence carries reaches the reader, whoever wrote the    *)
(* text and whichever check replaced it (templates.py:68-79).              *)
CaveatsReachReader == Answered => response.caveats = evidence.warnings
=============================================================================

-------------------------- MODULE QueryAnswerProofs -------------------------
(***************************************************************************)
(* Proofs about QueryAnswer: for every scene, pair and evidence, whatever  *)
(* memory, the network and the language model do.                          *)
(***************************************************************************)
EXTENDS QueryAnswer, FiniteSetTheorems, SequenceTheorems, TLAPS

Facts == INSTANCE OperatorProofs

(* The operators of the parts are those the lemmas speak of.               *)
LEMMA SameCardinality ==
  ASSUME NEW S
  PROVE  /\ Grounding!Cardinality(S) = Cardinality(S) /\ Change!Cardinality(S) = Cardinality(S)
         /\ Gate!Cardinality(S) = Cardinality(S) /\ Facts!Cardinality(S) = Cardinality(S)
         /\ Facts!IsFiniteSet(S) = IsFiniteSet(S)
BY DEF Grounding!Cardinality, Change!Cardinality, Gate!Cardinality, Facts!Cardinality, Cardinality,
  Grounding!IsFiniteSet, Change!IsFiniteSet, Gate!IsFiniteSet, Facts!IsFiniteSet, IsFiniteSet

LEMMA SameAxes ==
  ASSUME NEW dim, NEW tile, NEW stride
  PROVE  /\ Grounding!AxisOffsets(dim, tile, stride) = Facts!AxisOffsets(dim, tile, stride)
         /\ Change!AxisOffsets(dim, tile, stride) = Facts!AxisOffsets(dim, tile, stride)
BY Zenon, SameCardinality DEF Grounding!AxisOffsets, Change!AxisOffsets, Facts!AxisOffsets

LEMMA SameStride ==
  ASSUME NEW tile, NEW overlap
  PROVE  /\ Grounding!Stride(tile, overlap) = Facts!Stride(tile, overlap)
         /\ Change!Stride(tile, overlap) = Facts!Stride(tile, overlap)
BY DEF Grounding!Stride, Change!Stride, Facts!Stride, Grounding!Rounded, Change!Rounded, Facts!Rounded,
       Grounding!Larger, Change!Larger, Facts!Larger

LEMMA SameWindows ==
  ASSUME NEW w, NEW h, NEW t, NEW o
  PROVE  Grounding!Windows(w, h, t, o) = Facts!Windows(w, h, t, o)
BY SameAxes, SameStride DEF Grounding!Windows, Facts!Windows, Grounding!Smaller, Facts!Smaller

LEMMA SameJoin ==
  ASSUME NEW lists
  PROVE  Grounding!FlattenSeq(lists) = Facts!FlattenSeq(lists)
BY DEF Grounding!FlattenSeq, Facts!FlattenSeq

LEMMA SameSublist ==
  ASSUME NEW list, NEW I
  PROVE  Grounding!ElementsAt(list, I) = Facts!ElementsAt(list, I)
BY Zenon DEF Grounding!ElementsAt, Facts!ElementsAt, Grounding!Cardinality, Facts!Cardinality

LEMMA SameSums ==
  ASSUME NEW f
  PROVE  /\ Change!SumFunction(f) = Facts!SumFunctionOnSet(f, DOMAIN f)
         /\ Gate!SumFunction(f) = Facts!SumFunctionOnSet(f, DOMAIN f)
BY DEF Change!SumFunction, Gate!SumFunction, Change!SumFunctionOnSet, Gate!SumFunctionOnSet, Facts!SumFunctionOnSet,
  Change!FoldFunctionOnSet, Gate!FoldFunctionOnSet, Facts!FoldFunctionOnSet, Change!MapThenFoldSet, Gate!MapThenFoldSet, Facts!MapThenFoldSet
-----------------------------------------------------------------------------

(* A text shows the evidence's own numbers, but for what the client typed. *)
Sources(e) == Gate!Tokens(e) \cup Gate!Said(e) \cup Gate!CaveatNumbers(e)

Progress ==
  /\ evidence = Gate!Absent => asked = 0 /\ text = Gate!Absent /\ response = Gate!Absent
  /\ evidence # Gate!Absent => Gate!WellFormed(evidence)
  /\ evidence # Gate!Absent /\ Gate!Reason(evidence) # "none" => asked = 0 /\ text = Gate!Absent
  /\ response # Gate!Absent /\ Gate!Reason(evidence) = "none" => text # Gate!Absent

TextTraces ==
  text # Gate!Absent => /\ text.numbers \subseteq Sources(evidence) \cup Inventions
                   /\ text.caveats = evidence.warnings

BandIsWeakest == Gate!Answered => response.band = Gate!Band(Gate!ConfidenceValue(evidence))

AnswerInv ==
  /\ Progress
  /\ TextTraces
  /\ Gate!NumbersTrace
  /\ Gate!AbstentionsAskNobody
  /\ BandIsWeakest
  /\ Gate!CaveatsReachReader
-----------------------------------------------------------------------------
(* Rounding to one decimal moves a number by at most half of one.          *)
LEMMA NearestMovesLittle ==
  ASSUME NEW x \in Int
  PROVE  /\ Gate!Nearest(x, 10000) \in Int
         /\ Gate!Nearest(x, 10000) - x <= 5000
         /\ x - Gate!Nearest(x, 10000) <= 5000
<1>1. PICK q, r : q = x \div 10000 /\ r = x % 10000
  OBVIOUS
<1>0. q \in Int /\ r \in 0..9999 /\ x = 10000 * q + r
  <2>1. q \in Int /\ x = 10000 * q + r
    BY <1>1
  <2>2. r \in Int /\ 0 <= r /\ r < 10000
    BY <1>1
  <2> QED
    BY <2>1, <2>2
<1>2. CASE 2 * r > 10000 \/ (2 * r = 10000 /\ q % 2 = 1)
  <2>1. 2 * r >= 10000
    BY <1>0, <1>2
  <2>2. Gate!Nearest(x, 10000) = 10000 * (q + 1)
    BY <1>0, <1>1, <1>2 DEF Gate!Nearest
  <2> QED
    BY <1>0, <2>1, <2>2
<1>3. CASE ~(2 * r > 10000 \/ (2 * r = 10000 /\ q % 2 = 1))
  <2>1. 2 * r <= 10000
    BY <1>0, <1>3
  <2>2. Gate!Nearest(x, 10000) = 10000 * q
    BY <1>0, <1>1, <1>3 DEF Gate!Nearest
  <2> QED
    BY <1>0, <2>1, <2>2
<1> QED
  BY <1>2, <1>3

(* So two numbers that are equal to one decimal are within 0.1.            *)
LEMMA NearestIsNear ==
  ASSUME NEW n \in Int, NEW a \in Int, Gate!Nearest(n, 10000) = Gate!Nearest(a, 10000)
  PROVE  (IF n > a THEN n - a ELSE a - n) <= 10000
BY NearestMovesLittle

(* The minimum of at most three numbers is below each of them.             *)
LEMMA MinOfThree ==
  ASSUME NEW a \in Int, NEW b \in Int, NEW c \in Int,
         NEW S, S \subseteq {a, b, c}, S # {}
  PROVE  Gate!Min(S) \in S /\ \A y \in S : Gate!Min(S) <= y
<1>1. \E x \in S : \A y \in S : x <= y
  <2>1. ASSUME NEW u \in Int, NEW v \in Int, NEW w \in Int, u <= v, v <= w,
               S \subseteq {u, v, w}
        PROVE  \E x \in S : \A y \in S : x <= y
    <3>1. /\ u \in S => \A y \in S : u <= y
          /\ u \notin S => \A y \in S : v <= y
          /\ u \notin S /\ v \notin S => \A y \in S : w <= y
      BY <2>1
    <3>2. PICK z \in S : TRUE
      OBVIOUS
    <3>3. z \in {u, v, w}
      BY <2>1, <3>2
    <3> QED
      BY <3>1, <3>2, <3>3
  <2>2. \/ a <= b /\ b <= c
        \/ a <= c /\ c <= b
        \/ b <= a /\ a <= c
        \/ b <= c /\ c <= a
        \/ c <= a /\ a <= b
        \/ c <= b /\ b <= a
    OBVIOUS
  <2>3. /\ S \subseteq {a, c, b} /\ S \subseteq {b, a, c} /\ S \subseteq {b, c, a}
        /\ S \subseteq {c, a, b} /\ S \subseteq {c, b, a}
    OBVIOUS
  <2> QED
    BY <2>1, <2>2, <2>3
<1> QED
  BY <1>1 DEF Gate!Min

(* Every number an answer may show is an integer.                          *)
LEMMA AllowedAreNumbers ==
  ASSUME NEW e, Gate!WellFormed(e)
  PROVE  Gate!Allowed(e) \subseteq Int
<1>1. Gate!Range(e.stats) \subseteq Int
  BY DEF Gate!WellFormed
<1>2. ASSUME e.change # Gate!Absent
      PROVE  {e.change.px, e.change.pct, e.change.conf, Gate!Percent(e.change.conf)} \subseteq Int
  BY <1>2 DEF Gate!WellFormed, Gate!Percent
<1>3. ASSUME e.scores # <<>>
      PROVE  {Gate!One * Len(e.scores), Gate!MeanScore(e), Gate!Percent(Gate!MeanScore(e))}
             \cup Gate!Range(e.scores) \cup {Gate!Percent(s) : s \in Gate!Range(e.scores)} \subseteq Int
  <2>1. Gate!Range(e.scores) \subseteq Int /\ Len(e.scores) \in Nat /\ Gate!MeanScore(e) \in Int
    BY <1>3 DEF Gate!WellFormed, Gate!Range
  <2> HIDE DEF Gate!MeanScore
  <2> QED
    BY <2>1 DEF Gate!One, Gate!Percent
<1>4. ASSUME e.conf # Gate!Absent
      PROVE  {e.conf.value, Gate!Percent(e.conf.value)} \subseteq Int
  BY <1>4 DEF Gate!WellFormed, Gate!Percent
<1>5. Gate!Said(e) \subseteq Int /\ Gate!CaveatNumbers(e) \subseteq Int
  BY DEF Gate!WellFormed, Gate!Said, Gate!CaveatNumbers
<1> QED
  BY <1>1, <1>2, <1>3, <1>4, <1>5 DEF Gate!Allowed

(* What the check of the claims lets through is within 0.1 or 5 percent.   *)
LEMMA GroundedIsNear ==
  ASSUME NEW e, Gate!WellFormed(e), NEW n \in Int, Gate!IsGrounded(n, Gate!Allowed(e))
  PROVE  \E a \in Gate!Allowed(e) :
           LET gap == IF n > a THEN n - a ELSE a - n
           IN  gap <= 10000 \/ 20 * gap <= a
<1>1. PICK a \in Gate!Allowed(e) : \/ Gate!Nearest(n, 10000) = Gate!Nearest(a, 10000)
                              \/ 20 * (IF n > a THEN n - a ELSE a - n) <= a
  BY DEF Gate!IsGrounded
<1>2. a \in Int
  BY <1>1, AllowedAreNumbers
<1>3. CASE Gate!Nearest(n, 10000) = Gate!Nearest(a, 10000)
  <2>1. (IF n > a THEN n - a ELSE a - n) <= 10000
    BY <1>2, <1>3, NearestIsNear
  <2> QED
    BY <1>1, <2>1
<1>4. CASE 20 * (IF n > a THEN n - a ELSE a - n) <= a
  BY <1>1, <1>4
<1> QED
  BY <1>1, <1>3, <1>4

(* The templates show only numbers of the evidence.                        *)
LEMMA TemplateTraces ==
  ASSUME NEW e, Gate!WellFormed(e), Gate!Reason(e) = "none"
  PROVE  /\ Gate!Template(e).numbers \subseteq Sources(e)
         /\ Gate!Template(e).caveats = e.warnings
<1>1. Gate!GenericNumbers(e) \subseteq Gate!Tokens(e) \cup Gate!Said(e)
  BY DEF Gate!GenericNumbers
<1>2. Gate!ScoreTokens(e) \subseteq Gate!Tokens(e) /\ Gate!AreaTokens(e) \subseteq Gate!Tokens(e)
  BY DEF Gate!Tokens
<1>3. e.change # Gate!Absent => e.change.px \in Gate!Tokens(e)
  BY DEF Gate!Tokens
<1>4. e.task = "CHANGE_DETECTION" /\ e.vqa = Gate!Absent => e.change # Gate!Absent
  BY DEF Gate!WellFormed
<1>5. Gate!TemplateNumbers(e) \subseteq Gate!Tokens(e) \cup Gate!Said(e)
  BY <1>1, <1>2, <1>3, <1>4 DEF Gate!TemplateNumbers
<1> QED
  BY <1>5 DEF Gate!Template, Gate!WithCaveats, Sources
-----------------------------------------------------------------------------
(* The evidence arrives before anything is asked or said of it.            *)
LEMMA ReceiveOK ==
  ASSUME AnswerInv, NEW e, Gate!WellFormed(e), Gate!Receive(e)
  PROVE  AnswerInv'
BY DEF Gate!Receive, AnswerInv, Progress, TextTraces, Gate!NumbersTrace, Gate!AbstentionsAskNobody,
       BandIsWeakest, Gate!CaveatsReachReader, Gate!Answered

LEMMA AbstainOK ==
  ASSUME AnswerInv, Gate!Abstain
  PROVE  AnswerInv'
<1> USE DEF Gate!Abstain
<1>1. Progress' /\ TextTraces'
  BY DEF AnswerInv, Progress, TextTraces
<1>2. ~Gate!Answered'
  BY DEF Gate!Answered
<1>3. Gate!Reason(evidence) \in {"unsupported", "alignment", "preparation", "empty", "weak"}
  BY DEF Gate!Reason
<1>4. Gate!Marked(evidence, "co-registration") \/ Gate!Marked(evidence, "preprocessing")
        => Gate!Reason(evidence) \in {"alignment", "preparation", "unsupported"}
  BY DEF Gate!Reason
<1>5. Gate!AbstentionsAskNobody'
  BY <1>4 DEF AnswerInv, Progress, Gate!AbstentionsAskNobody, Gate!Marked
<1> QED
  BY <1>1, <1>2, <1>5 DEF AnswerInv, Gate!NumbersTrace, BandIsWeakest, Gate!CaveatsReachReader

(* A call that brings no text leaves what is answered alone.               *)
LEMMA FailedCallOK ==
  ASSUME AnswerInv, Gate!Explaining, response = Gate!Absent, UNCHANGED <<evidence, text, response>>
  PROVE  AnswerInv'
BY DEF AnswerInv, Gate!Explaining, Progress, TextTraces, Gate!NumbersTrace, Gate!AbstentionsAskNobody,
       BandIsWeakest, Gate!CaveatsReachReader, Gate!Answered

(* A text of the client's is kept with its caveats, or the call is spent.  *)
LEMMA ClientWritesOK ==
  ASSUME AnswerInv, response = Gate!Absent, Gate!ClientWrites
  PROVE  AnswerInv'
<1> USE DEF Gate!ClientWrites
<1>1. Gate!Explaining /\ UNCHANGED <<client, evidence, response>>
  OBVIOUS
<1>2. Progress'
  BY <1>1 DEF AnswerInv, Progress, Gate!Explaining
<1>3. TextTraces'
  <2>1. PICK used \in SUBSET Gate!Tokens(evidence), typed \in {{}} \cup {{n} : n \in Inventions} :
          IF Gate!ClaimsHold(used \cup typed, evidence)
          THEN text' = Gate!WithCaveats(used \cup typed, evidence, "client")
          ELSE UNCHANGED text
    OBVIOUS
  <2>2. used \cup typed \subseteq Gate!Tokens(evidence) \cup Inventions
    BY <2>1
  <2>3. CASE text' = Gate!WithCaveats(used \cup typed, evidence, "client")
    BY <1>1, <2>2, <2>3 DEF TextTraces, Gate!WithCaveats, Sources
  <2>4. CASE UNCHANGED text
    BY <1>1, <2>4 DEF AnswerInv, TextTraces
  <2> QED
    BY <2>1, <2>3, <2>4
<1>4. response' = Gate!Absent
  BY <1>1
<1>5. Gate!NumbersTrace' /\ BandIsWeakest' /\ Gate!CaveatsReachReader' /\ Gate!AbstentionsAskNobody'
  BY <1>4 DEF Gate!NumbersTrace, BandIsWeakest, Gate!CaveatsReachReader, Gate!AbstentionsAskNobody, Gate!Answered
<1> QED
  BY <1>2, <1>3, <1>5 DEF AnswerInv

LEMMA FallBackOK ==
  ASSUME AnswerInv, response = Gate!Absent, Gate!FallBack
  PROVE  AnswerInv'
<1> USE DEF Gate!FallBack
<1>1. Gate!Explaining /\ Gate!WellFormed(evidence)
  BY DEF AnswerInv, Progress, Gate!Explaining
<1>2. Gate!Template(evidence).numbers \subseteq Sources(evidence)
      /\ Gate!Template(evidence).caveats = evidence.warnings
  BY <1>1, TemplateTraces DEF Gate!Explaining
<1>3. Progress' /\ TextTraces'
  BY <1>1, <1>2 DEF AnswerInv, Progress, Gate!Explaining, TextTraces
<1>4. Gate!NumbersTrace' /\ BandIsWeakest' /\ Gate!CaveatsReachReader' /\ Gate!AbstentionsAskNobody'
  BY DEF Gate!NumbersTrace, BandIsWeakest, Gate!CaveatsReachReader, Gate!AbstentionsAskNobody, Gate!Answered
<1> QED
  BY <1>3, <1>4 DEF AnswerInv

(* What is sent passed the check of the claims, or is the template.        *)
LEMMA RespondOK ==
  ASSUME AnswerInv, Gate!Respond
  PROVE  AnswerInv'
<1> USE DEF Gate!Respond
<1>1. /\ Gate!WellFormed(evidence) /\ evidence # Gate!Absent /\ Gate!Reason(evidence) = "none"
      /\ UNCHANGED <<client, evidence, asked, last, text>>
  BY DEF AnswerInv, Progress
<1>2. Gate!WellFormed(evidence)
  BY <1>1
<1> DEFINE final == IF Gate!ClaimsHold(text.numbers, evidence) THEN text ELSE Gate!Template(evidence)
           near(n) == \E a \in Gate!Allowed(evidence) :
                        LET gap == IF n > a THEN n - a ELSE a - n
                        IN  gap <= 10000 \/ 20 * gap <= a
<1>3. response' = [ abstained |-> FALSE,
                    author |-> final.author, numbers |-> final.numbers,
                    caveats |-> final.caveats,
                    band |-> Gate!Band(Gate!ConfidenceValue(evidence)) ]
  OBVIOUS
<1>4. /\ Gate!Template(evidence).numbers \subseteq Sources(evidence)
      /\ Gate!Template(evidence).caveats = evidence.warnings
  BY <1>1, <1>2, TemplateTraces
<1>5. final.numbers \subseteq Sources(evidence) \cup Inventions /\ final.caveats = evidence.warnings
  BY <1>4 DEF AnswerInv, TextTraces
<1>6. \A n \in Gate!Said(evidence) \cup Gate!CaveatNumbers(evidence) : near(n)
  <2> TAKE n \in Gate!Said(evidence) \cup Gate!CaveatNumbers(evidence)
  <2>1. n \in Gate!Allowed(evidence) /\ n \in Int
    BY <1>2, AllowedAreNumbers DEF Gate!Allowed
  <2>2. (IF n > n THEN n - n ELSE n - n) <= 10000
    BY <2>1
  <2> QED
    BY <2>1, <2>2
<1>7. \A n \in final.numbers \ Gate!Tokens(evidence) : near(n)
  <2>1. CASE Gate!ClaimsHold(text.numbers, evidence)
    <3> SUFFICES ASSUME NEW n \in text.numbers, n \notin Gate!Tokens(evidence)
                 PROVE  near(n)
      BY <2>1
    <3>1. Gate!IsGrounded(n, Gate!Allowed(evidence))
      BY <2>1 DEF Gate!ClaimsHold
    <3>2. n \in Gate!Said(evidence) \cup Gate!CaveatNumbers(evidence) \cup Inventions
      BY DEF AnswerInv, TextTraces, Sources
    <3>3. n \in Int
      BY <3>2, <1>2, EvidencesAssumption DEF Gate!WellFormed
    <3> QED
      BY <1>2, <3>1, <3>3, GroundedIsNear
  <2>2. CASE ~Gate!ClaimsHold(text.numbers, evidence)
    <3>1. final.numbers \ Gate!Tokens(evidence) \subseteq Gate!Said(evidence) \cup Gate!CaveatNumbers(evidence)
      BY <2>2, <1>4 DEF Sources
    <3> QED
      BY <3>1, <1>6
  <2> QED
    BY <2>1, <2>2
<1> HIDE DEF final, near
<1>8. Gate!NumbersTrace'
  BY <1>1, <1>3, <1>7 DEF Gate!NumbersTrace, near
<1>9. Gate!AbstentionsAskNobody'
  BY <1>1, <1>3 DEF Gate!AbstentionsAskNobody, Gate!Reason, Gate!Marked
<1>10. Gate!CaveatsReachReader' /\ BandIsWeakest'
  BY <1>1, <1>3, <1>5 DEF Gate!CaveatsReachReader, BandIsWeakest, Gate!Answered
<1>11. Progress' /\ TextTraces'
  BY <1>1 DEF AnswerInv, Progress, TextTraces
<1> QED
  BY <1>8, <1>9, <1>10, <1>11 DEF AnswerInv

(* The minimum of the signals is a signal, below the others.               *)
LEMMA ConfidenceIsLeast ==
  ASSUME NEW e, Gate!WellFormed(e), Gate!Signals(e) # {}
  PROVE  /\ Gate!Min(Gate!Signals(e)) \in Gate!Signals(e) /\ Gate!Signals(e) \subseteq Int
         /\ \A s \in Gate!Signals(e) : Gate!Min(Gate!Signals(e)) <= s
<1> DEFINE a == IF e.conf = Gate!Absent THEN 0 ELSE e.conf.value
           b == IF e.scores = <<>> THEN 0 ELSE Gate!MeanScore(e)
           c == IF e.change = Gate!Absent THEN 0 ELSE e.change.conf
<1>1. a \in Int /\ b \in Int /\ c \in Int
  BY DEF Gate!WellFormed
<1>2. Gate!Signals(e) \subseteq {a, b, c}
  BY DEF Gate!Signals
<1> HIDE DEF a, b, c
<1> QED
  BY <1>1, <1>2, MinOfThree
-----------------------------------------------------------------------------
(* What a change query has done at each stage of its way.                  *)
PairInv ==
  /\ Change!PairTyped(pair)
  /\ stage \in {"coregistration", "judged", "paired", "done"}
  /\ stage # "coregistration" => verdict = Change!CoregistrationOf(pair)
  /\ measured = Change!NoAnswer <=> stage # "done"
  /\ stage = "paired" => verdict.aligned /\ matched = Change!Matched(pair)
  /\ stage = "done" => measured.source \in {"refused", "nothing", "sum", "mosaic"}
  /\ stage = "done" /\ measured.source = "refused" => ~verdict.aligned
  /\ Change!Measured =>
       /\ verdict.aligned /\ matched = Change!Matched(pair)
       /\ measured.px \in Nat /\ measured.total \in Nat \ {0}
  /\ Change!MosaicCountsPixelsOnce

(* The pixels of a tile are some of its image's, and the offsets of both    *)
(* images are finitely many.                                               *)
LEMMA PixelsHold ==
  ASSUME NEW p, Change!PairTyped(p),
         NEW image, image \in {p.before, p.after}, NEW off \in Change!OffsetsOf(p, image.width)
  PROVE  /\ Change!Pixels(p, image.width, off) \subseteq 0..(image.width - 1)
         /\ off \in Change!Pixels(p, image.width, off)
<1>1. PICK tile, overlap, dim : tile = p.tile /\ overlap = p.overlap /\ dim = image.width
  OBVIOUS
<1>2. tile \in Nat \ {0} /\ overlap \in 0..99 /\ dim \in Nat \ {0}
  BY <1>1 DEF Change!PairTyped, Change!ImageTyped, Change!Tileable
<1>3. PICK stride, offs : stride = Facts!Stride(tile, overlap) /\ offs = Facts!AxisOffsets(dim, tile, stride)
  OBVIOUS
<1>4. stride \in 1..tile
  BY <1>2, <1>3, Facts!StrideHolds
<1>5. Facts!AxisCovered(dim, tile, stride, offs)
  BY <1>2, <1>3, <1>4, Facts!AxisOffsetsHold
<1>6. Change!AxisOffsets(dim, tile, Change!Stride(tile, overlap)) = offs
  BY <1>3, SameAxes, SameStride
<1>7. PICK i \in 1..Len(offs) : off = offs[i]
  BY <1>1, <1>5, <1>6 DEF Change!OffsetsOf, Change!Range, Facts!AxisCovered
<1>8. off \in Nat /\ off + Facts!Smaller(tile, dim) <= dim
      /\ Facts!Smaller(tile, dim - off) = Facts!Smaller(tile, dim)
  BY <1>5, <1>7 DEF Facts!AxisCovered, Facts!OffsetFits
<1>9. Change!Pixels(p, dim, off) = off..(off + Facts!Smaller(tile, dim) - 1)
  BY <1>1, <1>8 DEF Change!Pixels, Change!Smaller, Facts!Smaller
<1>10. Facts!Smaller(tile, dim) \in Nat \ {0}
  BY <1>2 DEF Facts!Smaller
<1> QED BY <1>1, <1>2, <1>8, <1>9, <1>10

(* The offsets of an image along its axis are finitely many.               *)
LEMMA OffsetsHold ==
  ASSUME NEW p, Change!PairTyped(p), NEW image, image \in {p.before, p.after}
  PROVE  /\ Change!OffsetsOf(p, image.width) \subseteq 0..image.width
         /\ IsFiniteSet(Change!OffsetsOf(p, image.width))
<1>1. PICK dim \in Nat \ {0} : dim = image.width
  BY DEF Change!PairTyped, Change!ImageTyped
<1>2. \A off \in Change!OffsetsOf(p, image.width) : off \in 0..dim
  <2> TAKE off \in Change!OffsetsOf(p, image.width)
  <2>1. off \in Change!Pixels(p, image.width, off)
        /\ Change!Pixels(p, image.width, off) \subseteq 0..(image.width - 1)
    BY PixelsHold
  <2> QED BY <1>1, <2>1
<1>3. IsFiniteSet(0..dim)
  BY FS_Interval
<1> QED BY <1>1, <1>2, <1>3, FS_Subset

(* Two images of one frame share every tile, and so every pixel.           *)
LEMMA FrameCompared ==
  ASSUME NEW p, Change!PairTyped(p), p.before.width = p.after.width
  PROVE  UNION {Change!Compared(p, off) : off \in Change!Computed(p, Change!Matched(p))}
           = 0..(p.before.width - 1)
<1>1. PICK tile, overlap, dim : tile = p.tile /\ overlap = p.overlap /\ dim = p.before.width
  OBVIOUS
<1>2. tile \in Nat \ {0} /\ overlap \in 0..99 /\ dim \in Nat \ {0}
  BY <1>1 DEF Change!PairTyped, Change!ImageTyped, Change!Tileable
<1>3. PICK stride, offs : stride = Facts!Stride(tile, overlap) /\ offs = Facts!AxisOffsets(dim, tile, stride)
  OBVIOUS
<1>4. stride \in 1..tile
  BY <1>2, <1>3, Facts!StrideHolds
<1>5. Facts!AxisCovered(dim, tile, stride, offs)
  BY <1>2, <1>3, <1>4, Facts!AxisOffsetsHold
<1>6. Change!AxisOffsets(dim, tile, Change!Stride(tile, overlap)) = offs
  BY <1>3, SameAxes, SameStride
<1>7. /\ Change!OffsetsOf(p, p.before.width) = {offs[i] : i \in 1..Len(offs)}
      /\ Change!OffsetsOf(p, p.after.width) = {offs[i] : i \in 1..Len(offs)}
  BY <1>1, <1>5, <1>6 DEF Change!OffsetsOf, Change!Range, Facts!AxisCovered
<1>8. Change!Computed(p, Change!Matched(p)) = {offs[i] : i \in 1..Len(offs)}
  BY <1>1, <1>7 DEF Change!Computed, Change!Computable, Change!Matched
<1>9. \A off : Change!Compared(p, off) = Change!Pixels(p, p.before.width, off)
  BY DEF Change!Compared
<1>10. \A off \in {offs[i] : i \in 1..Len(offs)} :
         Change!Pixels(p, p.before.width, off) \subseteq 0..(p.before.width - 1)
  BY <1>7, PixelsHold
<1>11. \A x \in 0..(dim - 1) : \E off \in {offs[i] : i \in 1..Len(offs)} :
         x \in Change!Pixels(p, p.before.width, off)
  <2> TAKE x \in 0..(dim - 1)
  <2>1. x + 1 \in 1..dim /\ Facts!Short(dim, tile, stride, x, x + 1)
    BY <1>2, <1>4 DEF Facts!Short
  <2>2. PICK i \in 1..Len(offs) : offs[i] <= x /\ x + 1 <= offs[i] + Facts!Smaller(tile, dim)
    BY <1>5, <2>1 DEF Facts!AxisCovered
  <2>3. offs[i] \in Nat /\ Facts!Smaller(tile, dim - offs[i]) = Facts!Smaller(tile, dim)
    BY <1>5 DEF Facts!AxisCovered, Facts!OffsetFits
  <2>4. Facts!Smaller(tile, dim) \in Nat
    BY <1>2 DEF Facts!Smaller
  <2>5. Change!Pixels(p, p.before.width, offs[i]) = offs[i]..(offs[i] + Facts!Smaller(tile, dim) - 1)
    BY <1>1, <2>3 DEF Change!Pixels, Change!Smaller, Facts!Smaller
  <2>6. x \in Change!Pixels(p, p.before.width, offs[i])
    BY <2>2, <2>3, <2>4, <2>5
  <2> QED BY <2>6
<1> QED BY <1>1, <1>8, <1>9, <1>10, <1>11

(* A union has no more elements than its parts together.                   *)
Joint(f, S) == UNION {f[x] : x \in S}
Sizes(f, S) == [x \in S |-> Cardinality(f[x])]

LEMMA UnionIsNoLarger ==
  ASSUME NEW S, IsFiniteSet(S), NEW f, \A x \in S : IsFiniteSet(f[x])
  PROVE  /\ IsFiniteSet(Joint(f, S))
         /\ Facts!SumFunctionOnSet(Sizes(f, S), S) \in Nat
         /\ Cardinality(Joint(f, S)) <= Facts!SumFunctionOnSet(Sizes(f, S), S)
<1> DEFINE n == Sizes(f, S)
<1> USE DEF Sizes
<1> DEFINE U(s) == UNION {f[x] : x \in s}
           Sum(s) == Facts!SumFunctionOnSet(n, s)
           F == {s \in SUBSET S : IsFiniteSet(U(s)) /\ Sum(s) \in Nat /\ Cardinality(U(s)) <= Sum(s)}
<1>1. {} \in F
  <2>1. U({}) = {} /\ Sum({}) = 0
    BY Facts!SumOfNone
  <2> HIDE DEF U, Sum
  <2> QED BY <2>1, FS_EmptySet
<1>2. ASSUME NEW s \in F, NEW x \in S \ s PROVE s \cup {x} \in F
  <2>1. PICK t : t = s \cup {x}
    OBVIOUS
  <2>2. t \subseteq S /\ IsFiniteSet(t) /\ x \in t /\ t \ {x} = s
    BY <2>1, FS_Subset
  <2>3. \A y \in t : n[y] \in Int
    BY <2>2, FS_CardinalityType
  <2>4. Sum(t) = n[x] + Sum(t \ {x})
    BY <2>2, <2>3, Facts!SumTakesAny, SameCardinality
  <2>5. U(t) = f[x] \cup U(s)
    BY <2>1
  <2>6. /\ IsFiniteSet(f[x]) /\ IsFiniteSet(U(s)) /\ n[x] = Cardinality(f[x])
        /\ Sum(s) \in Nat /\ Cardinality(U(s)) <= Sum(s)
    OBVIOUS
  <2> HIDE DEF U, Sum
  <2>7. /\ IsFiniteSet(f[x] \cup U(s)) /\ IsFiniteSet(f[x] \cap U(s))
        /\ Cardinality(f[x] \cup U(s)) = Cardinality(f[x]) + Cardinality(U(s)) - Cardinality(f[x] \cap U(s))
        /\ Cardinality(f[x] \cap U(s)) \in Nat /\ Cardinality(f[x]) \in Nat /\ Cardinality(U(s)) \in Nat
    BY <2>6, FS_Union, FS_Intersection, FS_CardinalityType
  <2>8. Sum(t) = n[x] + Sum(s)
    BY <2>2, <2>4
  <2>9. Sum(t) \in Nat /\ Cardinality(U(t)) <= Sum(t) /\ IsFiniteSet(U(t))
    BY <2>5, <2>6, <2>7, <2>8
  <2> QED BY <2>1, <2>2, <2>9
<1>3. S \in F
  <2>1. F \in SUBSET SUBSET S
    OBVIOUS
  <2> HIDE DEF F
  <2> QED BY <1>1, <1>2, <2>1, Facts!FiniteInduction, SameCardinality
<1> QED BY <1>3 DEF Joint

(* There is something to compare, and no more of it than is counted.       *)
LEMMA TotalHolds ==
  ASSUME NEW p, Change!PairTyped(p), NEW offs, offs = Change!Matched(p), offs # {},
         NEW shown, shown = UNION {Change!Compared(p, off) : off \in offs}
  PROVE  /\ Change!TotalPx(p, offs) \in Nat \ {0}
         /\ IsFiniteSet(offs) /\ IsFiniteSet(shown) /\ shown \subseteq 0..(p.before.width - 1)
         /\ Cardinality(shown) \in Nat /\ Cardinality(shown) <= Change!TotalPx(p, offs)
<1> DEFINE ofBefore(off) == Change!Pixels(p, p.before.width, off)
           ofAfter(off) == Change!Pixels(p, p.after.width, off)
           f == [off \in offs |-> ofBefore(off)]
           n == [off \in offs |-> Cardinality(f[off])]
           whole == UNION {f[off] : off \in offs}
<1>1. /\ p.before.width \in Nat \ {0} /\ p.after.width \in Nat \ {0}
      /\ p.engine \in {"model", "deterministic"}
  BY DEF Change!PairTyped, Change!ImageTyped
<1>2. offs \subseteq Change!OffsetsOf(p, p.before.width)
      /\ offs \subseteq Change!OffsetsOf(p, p.after.width)
  BY DEF Change!Matched
<1>3. IsFiniteSet(offs)
  BY <1>2, OffsetsHold, FS_Subset
<1>4. \A off \in offs : /\ ofBefore(off) \subseteq 0..(p.before.width - 1) /\ off \in ofBefore(off)
                        /\ ofAfter(off) \subseteq 0..(p.after.width - 1)
  BY <1>2, PixelsHold
<1>5. IsFiniteSet(0..(p.before.width - 1)) /\ IsFiniteSet(0..(p.after.width - 1))
      /\ Cardinality(0..(p.after.width - 1)) = p.after.width
  <2>1. p.before.width - 1 \in Int /\ p.after.width - 1 \in Int /\ 0 \in Int
    BY <1>1
  <2>2. /\ IsFiniteSet(0..(p.before.width - 1)) /\ IsFiniteSet(0..(p.after.width - 1))
        /\ Cardinality(0..(p.after.width - 1))
             = IF 0 > p.after.width - 1 THEN 0 ELSE (p.after.width - 1) - 0 + 1
    BY <2>1, FS_Interval
  <2> QED BY <1>1, <2>2
<1>6. /\ shown \subseteq 0..(p.before.width - 1) /\ shown \subseteq 0..(p.after.width - 1)
      /\ shown \subseteq whole
  <2>1. \A off \in offs : Change!Compared(p, off) = ofBefore(off) \cap ofAfter(off)
    BY DEF Change!Compared
  <2> HIDE DEF ofBefore, ofAfter
  <2> QED BY <1>4, <2>1
<1>7. IsFiniteSet(shown) /\ Cardinality(shown) \in Nat
  BY <1>5, <1>6, FS_Subset, FS_CardinalityType
<1>8. CASE p.engine = "deterministic"
  <2>1. \A off \in offs : IsFiniteSet(f[off])
    <3> HIDE DEF ofBefore
    <3> QED BY <1>4, <1>5, FS_Subset
  <2>2. /\ IsFiniteSet(whole) /\ Facts!SumFunctionOnSet(n, offs) \in Nat
        /\ Cardinality(whole) <= Facts!SumFunctionOnSet(n, offs)
    <3>1. whole = Joint(f, offs) /\ n = Sizes(f, offs)
      BY DEF Joint, Sizes
    <3> HIDE DEF f, whole, n
    <3> QED BY <1>3, <2>1, <3>1, UnionIsNoLarger
  <2>3. Change!TotalPx(p, offs) = Facts!SumFunctionOnSet(n, offs)
    <3>1. n = [off \in offs |-> Change!Cardinality(Change!Pixels(p, p.before.width, off))]
      BY SameCardinality
    <3>2. DOMAIN n = offs
      OBVIOUS
    <3>3. Change!TotalPx(p, offs) = Change!SumFunction(n)
      <4> HIDE DEF n
      <4> QED BY <1>8, <3>1 DEF Change!TotalPx
    <3> HIDE DEF n
    <3> QED BY <3>2, <3>3, SameSums
  <2>4. whole # {}
    <3>1. PICK off \in offs : TRUE
      OBVIOUS
    <3>2. off \in f[off]
      BY <1>4, <3>1
    <3> QED BY <3>2
  <2> HIDE DEF whole, n
  <2>5. Cardinality(whole) \in Nat /\ Cardinality(whole) # 0 /\ Cardinality(shown) <= Cardinality(whole)
    BY <1>6, <2>2, <2>4, FS_Subset, FS_CardinalityType, FS_EmptySet
  <2> QED BY <1>3, <1>6, <1>7, <2>2, <2>3, <2>5
<1>9. CASE p.engine = "model"
  <2>1. Change!TotalPx(p, offs) = p.after.width
    BY <1>9 DEF Change!TotalPx
  <2>2. Cardinality(shown) <= p.after.width
    <3>1. PICK frame : frame = 0..(p.after.width - 1)
      OBVIOUS
    <3>2. Cardinality(shown) <= Cardinality(frame)
      BY <1>5, <1>6, <3>1, FS_Subset
    <3> QED BY <1>5, <3>1, <3>2
  <2> QED BY <1>1, <1>3, <1>6, <1>7, <2>1, <2>2
<1> QED BY <1>1, <1>8, <1>9

(* What the tile pairs say adds up to a change map, whatever they say.     *)
LEMMA CompareHolds ==
  ASSUME NEW p, Change!PairTyped(p), matched = Change!Matched(p),
         NEW offs, offs = Change!Computed(p, matched), offs # {},
         NEW changed, DOMAIN changed = offs,
         \A off \in offs : changed[off] \subseteq Change!Compared(p, off),
         NEW map, map \in {Change!Aggregate(p, changed), Change!Mosaic(p, changed)}
  PROVE  /\ map.px \in Nat /\ map.total \in Nat \ {0} /\ map.source \in {"sum", "mosaic"}
         /\ map.source = "mosaic" =>
              /\ map.px <= Change!Cardinality(UNION {Change!Compared(p, off) : off \in matched})
              /\ map.px <= map.total
<1> DEFINE shown == UNION {Change!Compared(p, off) : off \in matched}
           seen == UNION {Change!Compared(p, off) : off \in offs}
           n == [off \in offs |-> Cardinality(changed[off])]
<1>1. offs \subseteq matched /\ matched # {}
  BY DEF Change!Computed
<1>2. /\ Change!TotalPx(p, matched) \in Nat \ {0}
      /\ IsFiniteSet(matched) /\ IsFiniteSet(shown)
      /\ Cardinality(shown) \in Nat /\ Cardinality(shown) <= Change!TotalPx(p, matched)
  BY <1>1, TotalHolds
<1>3. CASE map = Change!Aggregate(p, changed)
  <2>1. \A off \in offs : changed[off] \subseteq shown
    BY <1>1
  <2>2. IsFiniteSet(offs) /\ \A off \in offs : n[off] \in Nat
    <3> HIDE DEF shown
    <3> QED BY <1>1, <1>2, <2>1, FS_Subset, FS_CardinalityType
  <2>3. Facts!SumFunctionOnSet(n, offs) \in Nat
    <3> HIDE DEF n
    <3> QED BY <2>2, Facts!SumOfNaturals, SameCardinality
  <2>4. n = [off \in DOMAIN changed |-> Change!Cardinality(changed[off])] /\ DOMAIN n = offs
    BY SameCardinality
  <2>5. map.px = Change!SumFunction(n) /\ map.total = Change!TotalPx(p, matched) /\ map.source = "sum"
    <3> HIDE DEF n
    <3> QED BY <1>3, <2>4 DEF Change!Aggregate
  <2> HIDE DEF n
  <2> QED BY <1>2, <2>3, <2>4, <2>5, SameSums
<1>4. CASE map = Change!Mosaic(p, changed)
  <2>1. PICK few \in SUBSET seen : map.px = Change!Cardinality(few)
    BY <1>4 DEF Change!Mosaic
  <2>2. few \subseteq shown
    BY <1>1
  <2>3. map.total = Change!TotalPx(p, matched) /\ map.source = "mosaic"
    BY <1>4 DEF Change!Mosaic
  <2> HIDE DEF shown
  <2>4. map.px = Cardinality(few) /\ Cardinality(few) <= Cardinality(shown) /\ Cardinality(few) \in Nat
    BY <1>2, <2>1, <2>2, FS_Subset, FS_CardinalityType, SameCardinality
  <2>5. map.px <= Change!TotalPx(p, matched) /\ map.px <= Change!Cardinality(shown)
    BY <1>2, <2>4, SameCardinality
  <2> QED BY <1>2, <2>3, <2>4, <2>5 DEF shown
<1> QED BY <1>3, <1>4

(* A change query keeps PairInv at every step.                             *)
LEMMA PairBegins ==
  ASSUME NEW p \in Pairs, Change!Query(p)
  PROVE  PairInv
BY PairsAssumption DEF Change!Query, PairInv, Change!Measured, Change!NoAnswer, Change!MosaicCountsPixelsOnce

LEMMA PairSteps ==
  ASSUME PairInv, Change!Next
  PROVE  PairInv'
<1>1. CASE Change!CheckCoregistration
  BY <1>1 DEF PairInv, Change!CheckCoregistration, Change!Measured, Change!MosaicCountsPixelsOnce
<1>2. CASE Change!Refuse
  <2>1. measured' # Change!NoAnswer /\ ~Change!Measured' /\ measured'.source = "refused"
    BY <1>2 DEF Change!Refuse, Change!NoAnswer, Change!Measured
  <2> QED BY <1>2, <2>1 DEF PairInv, Change!Refuse, Change!MosaicCountsPixelsOnce
<1>3. CASE Change!TileAndPair
  BY <1>3 DEF PairInv, Change!TileAndPair, Change!Measured, Change!MosaicCountsPixelsOnce
<1>4. CASE Change!NothingCompared
  <2>1. measured' # Change!NoAnswer /\ ~Change!Measured' /\ measured'.source = "nothing"
    BY <1>4 DEF Change!NothingCompared, Change!NoAnswer, Change!Measured
  <2> QED BY <1>4, <2>1 DEF PairInv, Change!NothingCompared, Change!MosaicCountsPixelsOnce
<1>5. CASE Change!Compare
  <2>1. /\ stage = "paired" /\ stage' = "done" /\ UNCHANGED <<pair, verdict, matched>>
        /\ Change!PairTyped(pair) /\ verdict = Change!CoregistrationOf(pair)
        /\ verdict.aligned /\ matched = Change!Matched(pair)
    BY <1>5 DEF Change!Compare, PairInv
  <2>2. PICK offs : offs = Change!Computed(pair, matched)
    OBVIOUS
  <2>3. PICK changed \in [offs -> SUBSET (0..(pair.before.width - 1))] :
          /\ offs # {}
          /\ \A off \in offs : changed[off] \subseteq Change!Compared(pair, off)
          /\ measured' \in {Change!Aggregate(pair, changed), Change!Mosaic(pair, changed)}
    BY <1>5, <2>2 DEF Change!Compare
  <2>4. DOMAIN changed = offs
    OBVIOUS
  <2>5. /\ measured'.px \in Nat /\ measured'.total \in Nat \ {0}
        /\ measured'.source \in {"sum", "mosaic"}
        /\ measured'.source = "mosaic" =>
             /\ measured'.px <= Change!Cardinality(UNION {Change!Compared(pair, off) : off \in matched})
             /\ measured'.px <= measured'.total
    BY <2>1, <2>2, <2>3, <2>4, CompareHolds
  <2>6. measured' # Change!NoAnswer
    BY <2>5 DEF Change!NoAnswer
  <2>7. Change!MosaicCountsPixelsOnce'
    BY <2>1, <2>5 DEF Change!MosaicCountsPixelsOnce
  <2> QED BY <2>1, <2>5, <2>6, <2>7 DEF PairInv, Change!Measured
<1> QED BY <1>1, <1>2, <1>3, <1>4, <1>5 DEF Change!Next

(* A measured pair was judged to lie on common ground within the limit.    *)
LEMMA AlignedIsClose ==
  ASSUME PairInv
  PROVE  Change!OnlyAlignedPairsMeasured /\ Change!SameFrameFullyCompared
<1>1. Change!OnlyAlignedPairsMeasured
  <2> SUFFICES ASSUME Change!Measured
               PROVE  Change!Overlapping(pair.before, pair.after) /\ Change!Drift(pair) <= MaxOffset
    BY DEF Change!OnlyAlignedPairsMeasured
  <2>1. verdict = Change!CoregistrationOf(pair) /\ verdict.aligned
    BY DEF PairInv, Change!Measured, Change!NoAnswer
  <2> QED BY <2>1 DEF Change!CoregistrationOf, Change!Classify
<1>2. Change!SameFrameFullyCompared
  BY FrameCompared DEF Change!SameFrameFullyCompared, PairInv
<1> QED BY <1>1, <1>2
-----------------------------------------------------------------------------
LEMMA SameLadder ==
  /\ Grounding!Idle = Facts!Idle
  /\ Grounding!RegistryServes <=> Facts!RegistryServes
  /\ \A r : Grounding!NewLadder(r) = Facts!NewLadder(r)
  /\ \A l : /\ Grounding!Left(l) = Facts!Left(l)
            /\ Grounding!Batch(l) = Facts!Batch(l)
            /\ Grounding!Processed(l) = Facts!Processed(l)
            /\ Grounding!Ended(l) = Facts!Ended(l)
            /\ \A m : Grounding!OutOfMemory(l, m) <=> Facts!OutOfMemory(l, m)
            /\ \A c : Grounding!Raised(l, c) = Facts!Raised(l, c)
BY DEF Grounding!Idle, Facts!Idle, Grounding!RegistryServes, Facts!RegistryServes, Grounding!NewLadder, Facts!NewLadder,
  Grounding!Left, Facts!Left, Grounding!BatchEnd, Facts!BatchEnd, Grounding!Batch, Facts!Batch, Grounding!Processed, Facts!Processed,
  Grounding!Ended, Facts!Ended, Grounding!OutOfMemory, Facts!OutOfMemory, Grounding!Raised, Facts!Raised,
  Grounding!Shrunk, Facts!Shrunk, Grounding!SteppedDown, Facts!SteppedDown, Grounding!TileDropped, Facts!TileDropped,
  Grounding!NextTier, Facts!NextTier, Grounding!LastTier, Facts!LastTier, Grounding!Quants, Facts!Quants, Grounding!Request, Facts!Request

(* What a detector reports, in pixels of the scene or of a tile.           *)
Detection ==
  [label : Labels, box : [x0 : Int, x1 : Int, y0 : Int, y1 : Int], score : Int]

Tile == [image : Images, window : Grounding!Box]

(* To show the same thing is mutual.                                       *)
LEMMA SuppressionIsMutual ==
  ASSUME NEW d \in Detection, NEW e \in Detection, Grounding!Suppresses(d, e)
  PROVE  Grounding!Suppresses(e, d)
<1>1. Grounding!Clipped(d.box, e.box) = Grounding!Clipped(e.box, d.box)
  BY DEF Detection, Grounding!Clipped, Grounding!Larger, Grounding!Smaller
<1>2. Grounding!Area(d.box) \in Int /\ Grounding!Area(e.box) \in Int
      /\ Grounding!Area(Grounding!Clipped(d.box, e.box)) \in Int
  <2>1. \A a \in Int, b \in Int : a * b \in Int
    OBVIOUS
  <2>2. \A b \in [x0 : Int, x1 : Int, y0 : Int, y1 : Int] : Grounding!Area(b) \in Int
    BY <2>1 DEF Grounding!Area, Grounding!Larger
  <2>3. Grounding!Clipped(d.box, e.box) \in [x0 : Int, x1 : Int, y0 : Int, y1 : Int]
    BY DEF Detection, Grounding!Clipped, Grounding!Larger, Grounding!Smaller
  <2> QED BY <2>2, <2>3 DEF Detection
<1>3. Grounding!SameThing(e.box, d.box)
  BY <1>1, <1>2 DEF Grounding!Suppresses, Grounding!SameThing
<1> QED BY <1>3 DEF Grounding!Suppresses

(* nms: what is left names nothing twice, and what was left out is named   *)
(* by an entry of at least its score.                                      *)
LEMMA NmsHolds ==
  ASSUME NEW raw \in Seq(Detection), NEW dets, dets = Grounding!Nms(raw)
  PROVE  /\ dets \in Seq(Detection)
         /\ \A i, j \in DOMAIN dets : i # j => ~Grounding!Suppresses(dets[i], dets[j])
         /\ \A i \in DOMAIN raw : \E j \in DOMAIN dets :
              dets[j] = raw[i] \/ (Grounding!Suppresses(dets[j], raw[i]) /\ dets[j].score >= raw[i].score)
         /\ \A j \in DOMAIN dets : \E i \in DOMAIN raw : dets[j] = raw[i]
<1> DEFINE S == DOMAIN raw
           Over(j, i) == Grounding!Precedes(raw, j, i) /\ Grounding!Suppresses(raw[j], raw[i])
           P == {q \in S \X S : Grounding!Precedes(raw, q[1], q[2])}
           R == {q \in S \X S : Over(q[1], q[2])}
<1>1. PICK n \in Nat : n = Len(raw) /\ S = 1..n /\ \A i \in 1..n : raw[i] \in Detection /\ raw[i].score \in Int
  <2>1. \A d \in Detection : d.score \in Int
    BY DEF Detection
  <2> QED BY <2>1
<1>2. \A i, j \in 1..n : <<j, i>> \in P <=> Grounding!Precedes(raw, j, i)
  BY <1>1
<1>3. /\ P \in SUBSET ((1..n) \X (1..n))
      /\ \A i \in 1..n : <<i, i>> \notin P
      /\ \A i, j, k \in 1..n : <<i, j>> \in P /\ <<j, k>> \in P => <<i, k>> \in P
  <2>1. P \in SUBSET ((1..n) \X (1..n))
    BY <1>1
  <2>2. \A i \in 1..n : ~Grounding!Precedes(raw, i, i)
    BY <1>1 DEF Grounding!Precedes
  <2>3. \A i, j, k \in 1..n : Grounding!Precedes(raw, i, j) /\ Grounding!Precedes(raw, j, k)
          => Grounding!Precedes(raw, i, k)
    BY <1>1 DEF Grounding!Precedes
  <2> HIDE DEF P
  <2> QED BY <1>2, <2>1, <2>2, <2>3
<1>4. \A i, j \in 1..n : i # j => Grounding!Precedes(raw, i, j) \/ Grounding!Precedes(raw, j, i)
  BY <1>1 DEF Grounding!Precedes
<1>5. PICK rank \in [1..n -> Nat] : /\ \A i \in 1..n : rank[i] <= n
                                    /\ \A i, j \in 1..n : <<j, i>> \in P => rank[j] < rank[i]
  <2> HIDE DEF P
  <2> QED BY <1>3, Facts!RankExists
<1>6. \A i, j \in 1..n : <<j, i>> \in R <=> Over(j, i)
  BY <1>1
<1>7. \E kept : Facts!Kernel(1..n, R, kept)
  <2>1. \A i, j \in 1..n : <<j, i>> \in R => rank[j] < rank[i]
    <3> HIDE DEF P, R
    <3> QED BY <1>2, <1>5, <1>6
  <2> HIDE DEF R
  <2> QED BY <1>5, <2>1, Facts!KernelExists
<1> DEFINE Solves(kept) == kept = [i \in S |-> \A j \in S : Over(j, i) => ~kept[j]]
<1>8. \E kept : Solves(kept)
  <2>1. PICK kept : kept = [i \in 1..n |-> \A j \in 1..n : <<j, i>> \in R => ~kept[j]]
    BY <1>7 DEF Facts!Kernel
  <2>2. Solves(kept)
    <3> HIDE DEF R, Over
    <3> QED BY <1>1, <1>6, <2>1
  <2> QED BY <2>2
<1>9. PICK kept : Solves(kept) /\ dets = Grounding!ElementsAt(raw, {i \in S : kept[i]})
  <2>1. Solves(CHOOSE k : Solves(k))
    <3> HIDE DEF Solves
    <3> QED BY <1>8
  <2>2. dets = Grounding!ElementsAt(raw, {i \in S : (CHOOSE k : Solves(k))[i]})
    BY DEF Grounding!Nms
  <2> HIDE DEF Solves
  <2> QED BY <2>1, <2>2
<1>10. \A i \in S : kept[i] <=> \A j \in S : Over(j, i) => ~kept[j]
  <2> HIDE DEF Over
  <2> QED BY <1>9
<1>11. PICK I \in SUBSET (1..Len(raw)) : I = {i \in S : kept[i]}
  BY <1>1
<1>12. dets \in Seq(Detection) /\ Len(dets) \in Nat /\ \E at : Facts!Picks(at, dets, raw, I)
  BY <1>9, <1>11, SameSublist, Facts!SublistPicks
<1>13. PICK at : /\ DOMAIN dets = 1..Len(dets) /\ at \in [DOMAIN dets -> I]
                 /\ \A p \in DOMAIN dets : dets[p] = raw[at[p]]
                 /\ \A p, q \in DOMAIN dets : p < q => at[p] < at[q]
                 /\ \A i \in I : \E p \in DOMAIN dets : at[p] = i
  <2>1. DOMAIN dets = 1..Len(dets)
    BY <1>12
  <2>2. PICK at : Facts!Picks(at, dets, raw, I)
    BY <1>12
  <2>3. /\ at \in [DOMAIN dets -> I]
        /\ \A p \in DOMAIN dets : dets[p] = raw[at[p]]
        /\ \A p, q \in DOMAIN dets : p < q => at[p] < at[q]
        /\ \A i \in I : \E p \in DOMAIN dets : at[p] = i
    BY <2>1, <2>2 DEF Facts!Picks
  <2> QED BY Zenon, <2>1, <2>3
<1>14. ASSUME NEW p \in DOMAIN dets, NEW q \in DOMAIN dets, p # q
       PROVE  ~Grounding!Suppresses(dets[p], dets[q])
  <2>1. PICK i, j : i = at[p] /\ j = at[q]
    OBVIOUS
  <2>2. i \in I /\ j \in I /\ i # j /\ dets[p] = raw[i] /\ dets[q] = raw[j]
    <3>1. i \in I /\ j \in I /\ dets[p] = raw[i] /\ dets[q] = raw[j]
      BY <1>13, <2>1
    <3>2. p \in Nat /\ q \in Nat /\ i \in Nat /\ j \in Nat
      BY <1>1, <1>11, <1>13, <3>1
    <3>3. p < q \/ q < p
      BY <1>14, <3>2
    <3> QED BY <1>13, <2>1, <3>1, <3>2, <3>3
  <2>3. raw[i] \in Detection /\ raw[j] \in Detection /\ i \in 1..n /\ j \in 1..n /\ kept[i] /\ kept[j]
    BY <1>1, <1>11, <2>2
  <2>4. ~Over(i, j) /\ ~Over(j, i)
    <3> HIDE DEF Over
    <3> QED BY <1>1, <1>10, <2>3
  <2> QED BY <1>4, <2>2, <2>3, <2>4, SuppressionIsMutual
<1>15. ASSUME NEW i \in DOMAIN raw
       PROVE  \E j \in DOMAIN dets :
                \/ dets[j] = raw[i]
                \/ Grounding!Suppresses(dets[j], raw[i]) /\ dets[j].score >= raw[i].score
  <2>1. CASE kept[i]
    <3>1. i \in I
      BY <1>11, <2>1
    <3> QED BY <1>13, <3>1
  <2>2. CASE ~kept[i]
    <3>1. PICK j \in S : Over(j, i) /\ kept[j]
      <4> HIDE DEF Over
      <4> QED BY <1>10, <2>2
    <3>2. PICK p \in DOMAIN dets : at[p] = j
      BY <1>11, <1>13, <3>1
    <3>3. dets[p] = raw[j] /\ raw[j].score >= raw[i].score
      BY <1>1, <1>13, <3>1, <3>2 DEF Grounding!Precedes
    <3> QED BY <3>1, <3>2, <3>3
  <2> QED BY <2>1, <2>2
<1>16. \A j \in DOMAIN dets : \E i \in DOMAIN raw : dets[j] = raw[i]
  BY <1>11, <1>13
<1> QED BY <1>12, <1>14, <1>15, <1>16

(* The tiles of a scene are those of its images, one after the other.      *)
TilesAre(all, images, windows) ==
  /\ \A p \in DOMAIN all : \E k \in DOMAIN images, i \in DOMAIN windows :
       all[p] = [image |-> images[k], window |-> windows[i]]
  /\ \A k \in DOMAIN images, i \in DOMAIN windows : \E p \in DOMAIN all :
       all[p] = [image |-> images[k], window |-> windows[i]]

LEMMA TilesHold ==
  ASSUME NEW s, Grounding!SceneTyped(s), NEW all, all = Grounding!SceneTiles(s),
         NEW windows, windows = Grounding!SceneWindows(s)
  PROVE  /\ windows \in Seq(Grounding!Box) /\ windows # <<>>
         /\ s.images \in Seq(Images) /\ s.images # <<>>
         /\ all \in Seq(Tile) /\ all # <<>> /\ TilesAre(all, s.images, windows)
<1>1. windows \in Seq(Grounding!Box) /\ windows # <<>>
  <2>1. PICK width, height, tile, overlap :
          width = s.width /\ height = s.height /\ tile = s.tile /\ overlap = s.overlap
    OBVIOUS
  <2>2. Facts!Tileable(width, height, tile, overlap)
    BY <2>1 DEF Grounding!SceneTyped, Grounding!Tileable, Facts!Tileable
  <2>3. windows = Facts!Windows(width, height, tile, overlap)
    BY <2>1, SameWindows DEF Grounding!SceneWindows
  <2>4. windows \in Seq(Facts!Box) /\ windows # <<>>
    BY <2>2, <2>3, Facts!WindowsHold
  <2> QED BY <2>4 DEF Facts!Box, Grounding!Box
<1>2. s.images \in Seq(Images) /\ s.images # <<>>
  BY DEF Grounding!SceneTyped
<1> DEFINE of(k) == [i \in DOMAIN windows |-> [image |-> s.images[k], window |-> windows[i]]]
           lists == [k \in DOMAIN s.images |-> of(k)]
<1>3. PICK m \in Nat \ {0}, n \in Nat \ {0} :
        /\ DOMAIN windows = 1..m /\ DOMAIN s.images = 1..n
        /\ \A i \in 1..m : windows[i] \in Grounding!Box
        /\ \A k \in 1..n : s.images[k] \in Images
  <2>1. Len(windows) \in Nat \ {0} /\ Len(s.images) \in Nat \ {0}
    BY <1>1, <1>2, EmptySeq, LenProperties
  <2>2. DOMAIN windows = 1..Len(windows) /\ DOMAIN s.images = 1..Len(s.images)
    BY <1>1, <1>2, LenProperties
  <2>3. /\ \A i \in 1..Len(windows) : windows[i] \in Grounding!Box
        /\ \A k \in 1..Len(s.images) : s.images[k] \in Images
    BY <1>1, <1>2, ElementOfSeq
  <2> QED BY <2>1, <2>2, <2>3
<1>4. \A k \in 1..n : of(k) \in Seq(Tile)
  BY <1>3 DEF Tile
<1>5. lists \in Seq(Seq(Tile)) /\ DOMAIN lists = 1..n
  <2> HIDE DEF of
  <2> QED BY <1>3, <1>4
<1>6. all = Facts!FlattenSeq(lists)
  BY SameJoin DEF Grounding!SceneTiles, Grounding!SceneWindows
<1> HIDE DEF lists
<1>7. all \in Seq(Tile) /\ Facts!HoldsAll(all, lists)
  BY <1>5, <1>6, Facts!JoinedHold
<1>8. \A k \in 1..n : DOMAIN lists[k] = 1..m /\ \A i \in 1..m :
        lists[k][i] = [image |-> s.images[k], window |-> windows[i]]
  BY <1>3 DEF lists
<1> HIDE DEF of
<1>10. \A p \in DOMAIN all : \E k \in 1..n, i \in 1..m :
         all[p] = [image |-> s.images[k], window |-> windows[i]]
  <2> TAKE p \in DOMAIN all
  <2>1. PICK k \in DOMAIN lists : \E i \in DOMAIN lists[k] : all[p] = lists[k][i]
    BY <1>7 DEF Facts!HoldsAll
  <2>2. PICK i \in DOMAIN lists[k] : all[p] = lists[k][i]
    BY <2>1
  <2>3. k \in 1..n /\ i \in 1..m
    BY <1>5, <1>8
  <2> QED BY <1>8, <2>2, <2>3
<1>11. \A k \in 1..n, i \in 1..m : \E p \in DOMAIN all :
         all[p] = [image |-> s.images[k], window |-> windows[i]]
  <2> TAKE k \in 1..n, i \in 1..m
  <2>1. k \in DOMAIN lists /\ i \in DOMAIN lists[k]
    BY <1>5, <1>8
  <2>2. PICK p \in DOMAIN all : all[p] = lists[k][i]
    BY <1>7, <2>1 DEF Facts!HoldsAll
  <2> QED BY <1>8, <2>2
<1>12. all # <<>>
  <2>1. PICK p \in DOMAIN all : all[p] = [image |-> s.images[1], window |-> windows[1]]
    BY <1>3, <1>11
  <2> QED BY <2>1
<1>13. TilesAre(all, s.images, windows)
  <2>1. PICK images : images = s.images
    OBVIOUS
  <2>2. /\ DOMAIN images = 1..n /\ DOMAIN windows = 1..m
        /\ \A p \in DOMAIN all : \E k \in 1..n, i \in 1..m :
             all[p] = [image |-> images[k], window |-> windows[i]]
        /\ \A k \in 1..n, i \in 1..m : \E p \in DOMAIN all :
             all[p] = [image |-> images[k], window |-> windows[i]]
    BY <1>3, <1>10, <1>11, <2>1
  <2>3. TilesAre(all, images, windows)
    <3>1. ASSUME NEW p \in DOMAIN all
          PROVE  \E k \in DOMAIN images, i \in DOMAIN windows :
                   all[p] = [image |-> images[k], window |-> windows[i]]
      <4>1. PICK k \in 1..n, i \in 1..m : all[p] = [image |-> images[k], window |-> windows[i]]
        BY <2>2
      <4>2. k \in DOMAIN images /\ i \in DOMAIN windows
        BY <2>2
      <4> QED BY <4>1, <4>2
    <3>2. ASSUME NEW k \in DOMAIN images, NEW i \in DOMAIN windows
          PROVE  \E p \in DOMAIN all : all[p] = [image |-> images[k], window |-> windows[i]]
      <4>1. k \in 1..n /\ i \in 1..m
        BY <2>2
      <4> QED BY <2>2, <4>1
    <3> QED BY <3>1, <3>2 DEF TilesAre
  <2> QED BY <2>1, <2>3
<1> QED BY <1>1, <1>2, <1>7, <1>12, <1>13

(* They cover each image, and none leaves it or is a sliver.               *)
LEMMA TilesCover ==
  ASSUME Grounding!SceneTyped(scene), tiles = Grounding!SceneTiles(scene)
  PROVE  Grounding!TilesCoverScene
<1>1. PICK width, height, tile, overlap, stride, windows :
        /\ width = scene.width /\ height = scene.height /\ tile = scene.tile /\ overlap = scene.overlap
        /\ stride = Facts!Stride(tile, overlap) /\ windows = Facts!Windows(width, height, tile, overlap)
  OBVIOUS
<1>2. /\ Facts!Tileable(width, height, tile, overlap)
      /\ width \in Nat \ {0} /\ height \in Nat \ {0} /\ tile \in Nat \ {0} /\ overlap \in 0..99
  BY <1>1 DEF Grounding!SceneTyped, Grounding!Tileable, Facts!Tileable
<1>3. stride \in 1..tile
  BY <1>1, <1>2, Facts!StrideHolds
<1>4. /\ windows \in Seq(Facts!Box)
      /\ Facts!WindowsFit(width, height, tile, windows)
      /\ Facts!WindowsShow(width, height, tile, stride, windows)
  BY <1>1, <1>2, Facts!WindowsHold
<1>5. windows = Grounding!SceneWindows(scene)
  BY <1>1, SameWindows DEF Grounding!SceneWindows
<1>6. /\ \A p \in DOMAIN tiles : \E k \in DOMAIN scene.images, i \in DOMAIN windows :
           tiles[p] = [image |-> scene.images[k], window |-> windows[i]]
      /\ \A k \in DOMAIN scene.images, i \in DOMAIN windows : \E p \in DOMAIN tiles :
           tiles[p] = [image |-> scene.images[k], window |-> windows[i]]
  BY <1>5, TilesHold DEF TilesAre
<1>7. \A i \in DOMAIN windows : windows[i].x0 \in Nat /\ windows[i].y0 \in Nat
  <2>1. \A i \in DOMAIN windows : windows[i] \in Facts!Box
    BY <1>4
  <2> QED BY <2>1 DEF Facts!Box
<1>8. Facts!Smaller(tile, width) = Grounding!Smaller(tile, width) /\ Facts!Smaller(tile, width) \in Nat
      /\ Facts!Smaller(tile, height) = Grounding!Smaller(tile, height) /\ Facts!Smaller(tile, height) \in Nat
  BY <1>2 DEF Facts!Smaller, Grounding!Smaller
<1> DEFINE whole == [x0 |-> 0, y0 |-> 0, x1 |-> scene.width, y1 |-> scene.height]
           pixel(x, y) == [x0 |-> x, x1 |-> x + 1, y0 |-> y, y1 |-> y + 1]
<1>9. \A p \in DOMAIN tiles :
        /\ Grounding!Within(tiles[p].window, whole)
        /\ tiles[p].window.x1 - tiles[p].window.x0 = Grounding!Smaller(scene.tile, scene.width)
        /\ tiles[p].window.y1 - tiles[p].window.y0 = Grounding!Smaller(scene.tile, scene.height)
  <2> TAKE p \in DOMAIN tiles
  <2>1. PICK i \in DOMAIN windows : tiles[p].window = windows[i]
    BY <1>6
  <2> QED BY <1>1, <1>4, <1>7, <1>8, <2>1 DEF Grounding!Within, Facts!WindowsFit
<1>10. ASSUME NEW k \in DOMAIN scene.images, NEW x \in 0..(width - 1), NEW y \in 0..(height - 1)
       PROVE  \E p \in DOMAIN tiles :
                tiles[p].image = scene.images[k] /\ Grounding!Within(pixel(x, y), tiles[p].window)
  <2>1. /\ x + 1 \in 1..width /\ y + 1 \in 1..height
        /\ Facts!Short(width, tile, stride, x, x + 1) /\ Facts!Short(height, tile, stride, y, y + 1)
    BY <1>2, <1>3 DEF Facts!Short
  <2>2. PICK i \in DOMAIN windows : /\ windows[i].x0 <= x /\ x + 1 <= windows[i].x1
                                    /\ windows[i].y0 <= y /\ y + 1 <= windows[i].y1
    BY <1>4, <2>1 DEF Facts!WindowsShow, Facts!Shows
  <2>3. PICK p \in DOMAIN tiles : tiles[p] = [image |-> scene.images[k], window |-> windows[i]]
    BY <1>6
  <2> QED BY <1>7, <2>2, <2>3 DEF Grounding!Within
<1> HIDE DEF whole, pixel
<1>11. \A t \in Grounding!Range(tiles) :
         /\ Grounding!Within(t.window, whole)
         /\ t.window.x1 - t.window.x0 = Grounding!Smaller(scene.tile, scene.width)
         /\ t.window.y1 - t.window.y0 = Grounding!Smaller(scene.tile, scene.height)
  BY <1>9 DEF Grounding!Range
<1>12. \A image \in Grounding!Range(scene.images), x \in 0..(width - 1), y \in 0..(height - 1) :
         \E t \in Grounding!Range(tiles) : t.image = image /\ Grounding!Within(pixel(x, y), t.window)
  BY <1>10 DEF Grounding!Range
<1> QED BY <1>1, <1>11, <1>12 DEF Grounding!TilesCoverScene, whole, pixel
-----------------------------------------------------------------------------
(* A batch of tiles gives a list of detections, before suppression.        *)
LEMMA WindowsOfTiles ==
  ASSUME NEW batch \in Seq(Tile)
  PROVE  [i \in DOMAIN batch |-> batch[i].window] \in Seq(Grounding!Box)
<1>1. PICK n \in Nat : n = Len(batch) /\ DOMAIN batch = 1..n /\ \A i \in 1..n : batch[i] \in Tile
  OBVIOUS
<1>2. \A t \in Tile : t.window \in Grounding!Box
  BY DEF Tile
<1>3. [i \in DOMAIN batch |-> batch[i].window] \in [1..n -> Grounding!Box]
  BY <1>1, <1>2
<1> QED BY <1>3

LEMMA LookedHolds ==
  ASSUME NEW s, NEW batch \in Seq(Tile)
  PROVE  Grounding!Looked(s, batch) \in Seq(Grounding!Box)
<1> DEFINE partnered(t) == /\ t.image = s.images[1]
                           /\ [image |-> s.images[2], window |-> t.window] \in Grounding!Range(batch)
<1>1. PICK I \in SUBSET (1..Len(batch)) : I = {i \in DOMAIN batch : partnered(batch[i])}
  <2>1. DOMAIN batch = 1..Len(batch)
    BY LenProperties
  <2> HIDE DEF partnered
  <2> QED BY <2>1
<1>2. PICK sub : sub = Facts!ElementsAt(batch, I)
  OBVIOUS
<1>3. sub \in Seq(Tile)
  BY <1>1, <1>2, Facts!SublistPicks
<1>4. sub = Grounding!ElementsAt(batch, {i \in DOMAIN batch : partnered(batch[i])})
  BY <1>1, <1>2, SameSublist
<1>5. Grounding!Looked(s, batch) \in
        {[i \in DOMAIN batch |-> batch[i].window], [i \in DOMAIN sub |-> sub[i].window]}
  BY <1>4 DEF Grounding!Looked
<1> QED BY <1>3, <1>5, WindowsOfTiles

(* A box moved by whole pixels is a box.                                   *)
Frame == [x0 : Int, x1 : Int, y0 : Int, y1 : Int]

LEMMA BoxesMove ==
  /\ \A a \in Frame, b \in Frame : Grounding!Clipped(a, b) \in Frame
  /\ \A a \in Frame, dx \in Int, dy \in Int : Grounding!Shifted(a, dx, dy) \in Frame
  /\ Grounding!Box \subseteq Frame
<1>1. \A a \in Frame, b \in Frame : Grounding!Clipped(a, b) \in Frame
  BY DEF Frame, Grounding!Clipped, Grounding!Larger, Grounding!Smaller
<1>2. \A a \in Frame, dx \in Int, dy \in Int : Grounding!Shifted(a, dx, dy) \in Frame
  BY DEF Frame, Grounding!Shifted
<1>3. Grounding!Box \subseteq Frame
  BY DEF Frame, Grounding!Box
<1> QED BY <1>1, <1>2, <1>3

(* What a detector says of a thing in a window, in pixels of the window.   *)
Sight(t, w) ==
  [ label |-> t.label,
    box   |-> Grounding!Shifted(Grounding!Clipped(t.box, w), -w.x0, -w.y0),
    score |-> IF Grounding!Within(t.box, w) THEN t.score ELSE t.score - 1 ]

(* Of what it sees, and of nothing else.                                   *)
Sees(s, objects, w, dets) ==
  /\ \A k \in DOMAIN dets : \E i \in DOMAIN objects :
       Grounding!Visible(s, objects[i], w) /\ dets[k] = Sight(objects[i], w)
  /\ \A i \in DOMAIN objects : Grounding!Visible(s, objects[i], w) =>
       \E k \in DOMAIN dets : dets[k] = Sight(objects[i], w)

LEMMA GroundHolds ==
  ASSUME NEW s, Grounding!SceneTyped(s), NEW w \in Grounding!Box,
         NEW dets, dets = Grounding!Ground(s, w)
  PROVE  dets \in Seq(Detection) /\ Sees(s, s.objects, w, dets)
<1>1. s.objects \in Seq(Grounding!Thing)
  BY DEF Grounding!SceneTyped
<1>2. PICK objects \in Seq(Grounding!Thing) : objects = s.objects
  BY <1>1
<1>3. PICK I \in SUBSET (1..Len(objects)) :
        I = {i \in DOMAIN objects : Grounding!Visible(s, objects[i], w)}
  <2>1. DOMAIN objects = 1..Len(objects)
    BY LenProperties
  <2> QED BY <2>1
<1>4. PICK seen : seen = Facts!ElementsAt(objects, I)
  OBVIOUS
<1>5. seen \in Seq(Grounding!Thing) /\ Len(seen) \in Nat /\ \E at : Facts!Picks(at, seen, objects, I)
  BY <1>3, <1>4, Facts!SublistPicks
<1>6. seen = Grounding!ElementsAt(s.objects, {i \in DOMAIN s.objects : Grounding!Visible(s, s.objects[i], w)})
  BY <1>2, <1>3, <1>4, SameSublist
<1>7. PICK n \in Nat : n = Len(seen) /\ DOMAIN seen = 1..n /\ \A k \in 1..n : seen[k] \in Grounding!Thing
  BY <1>5
<1>8. dets = [k \in DOMAIN seen |-> Sight(seen[k], w)]
  BY <1>6 DEF Grounding!Ground, Sight
<1>9. \A t \in Grounding!Thing : Sight(t, w) \in Detection
  <2> TAKE t \in Grounding!Thing
  <2>1. t.label \in Labels /\ t.box \in Frame /\ t.score \in Int
    BY BoxesMove DEF Grounding!Thing
  <2>2. w \in Frame /\ -w.x0 \in Int /\ -w.y0 \in Int
    BY BoxesMove DEF Grounding!Box
  <2>3. Grounding!Shifted(Grounding!Clipped(t.box, w), -w.x0, -w.y0) \in Frame
    BY <2>1, <2>2, BoxesMove
  <2> QED BY <2>1, <2>3 DEF Detection, Frame, Sight
<1>10. dets \in [1..n -> Detection] /\ \A k \in 1..n : dets[k] = Sight(seen[k], w)
  <2>1. \A k \in 1..n : dets[k] = Sight(seen[k], w)
    BY <1>7, <1>8
  <2>2. \A k \in 1..n : dets[k] \in Detection
    BY <1>7, <1>9, <2>1
  <2> QED BY <1>7, <1>8, <2>1, <2>2
<1>11. PICK at : /\ at \in [1..n -> I]
                 /\ \A k \in 1..n : seen[k] = objects[at[k]]
                 /\ \A i \in I : \E k \in 1..n : at[k] = i
  BY <1>5, <1>7 DEF Facts!Picks
<1>12. DOMAIN dets = 1..n
  BY <1>10
<1>13. ASSUME NEW k \in 1..n
       PROVE  \E i \in DOMAIN objects : Grounding!Visible(s, objects[i], w) /\ dets[k] = Sight(objects[i], w)
  <2>1. PICK i \in I : i = at[k]
    BY <1>11
  <2>2. i \in DOMAIN objects /\ Grounding!Visible(s, objects[i], w)
    BY <1>3
  <2> QED BY <1>10, <1>11, <2>1, <2>2
<1>14. ASSUME NEW i \in DOMAIN objects, Grounding!Visible(s, objects[i], w)
       PROVE  \E k \in 1..n : dets[k] = Sight(objects[i], w)
  <2>1. PICK k \in 1..n : at[k] = i
    BY <1>3, <1>11, <1>14
  <2> QED BY <1>10, <1>11, <2>1
<1>15. Sees(s, objects, w, dets)
  BY <1>12, <1>13, <1>14 DEF Sees
<1> QED BY <1>2, <1>10, <1>15

(* What a batch's list holds before suppression: of each window looked at  *)
(* what is seen there, moved to its place.                                 *)
Shown(s, objects, windows, raw) ==
  /\ \A p \in DOMAIN raw : \E m \in DOMAIN windows, i \in DOMAIN objects :
       /\ Grounding!Visible(s, objects[i], windows[m])
       /\ raw[p] = Grounding!InScene(Sight(objects[i], windows[m]), windows[m])
  /\ \A m \in DOMAIN windows, i \in DOMAIN objects :
       Grounding!Visible(s, objects[i], windows[m]) =>
         \E p \in DOMAIN raw : raw[p] = Grounding!InScene(Sight(objects[i], windows[m]), windows[m])

ShownIn(s, objects, w, list) ==
  /\ \A k \in DOMAIN list : \E i \in DOMAIN objects :
       /\ Grounding!Visible(s, objects[i], w)
       /\ list[k] = Grounding!InScene(Sight(objects[i], w), w)
  /\ \A i \in DOMAIN objects : Grounding!Visible(s, objects[i], w) =>
       \E k \in DOMAIN list : list[k] = Grounding!InScene(Sight(objects[i], w), w)

LEMMA DetectionsHold ==
  ASSUME NEW s, Grounding!SceneTyped(s), NEW batch \in Seq(Tile),
         NEW raw, raw = Grounding!RawDetections(s, batch)
  PROVE  raw \in Seq(Detection) /\ Shown(s, s.objects, Grounding!Looked(s, batch), raw)
<1>1. PICK windows \in Seq(Grounding!Box) : windows = Grounding!Looked(s, batch)
  BY LookedHolds
<1>2. PICK n \in Nat : n = Len(windows) /\ DOMAIN windows = 1..n /\ \A i \in 1..n : windows[i] \in Grounding!Box
  OBVIOUS
<1> DEFINE in(w) == [k \in DOMAIN Grounding!Ground(s, w) |-> Grounding!InScene(Grounding!Ground(s, w)[k], w)]
<1>o. PICK objects : objects = s.objects
  OBVIOUS
<1>3. ASSUME NEW w \in Grounding!Box
      PROVE  in(w) \in Seq(Detection) /\ ShownIn(s, objects, w, in(w))
  <2>1. PICK dets \in Seq(Detection) : dets = Grounding!Ground(s, w) /\ Sees(s, objects, w, dets)
    BY <1>o, GroundHolds
  <2>2. PICK m \in Nat : m = Len(dets) /\ DOMAIN dets = 1..m /\ \A k \in 1..m : dets[k] \in Detection
    OBVIOUS
  <2>3. \A d \in Detection : Grounding!InScene(d, w) \in Detection
    <3> TAKE d \in Detection
    <3>1. d.box \in Frame /\ w.x0 \in Int /\ w.y0 \in Int
      BY DEF Detection, Frame, Grounding!Box
    <3>2. PICK b \in Frame : b = Grounding!Shifted(d.box, w.x0, w.y0)
      BY <3>1, BoxesMove
    <3> QED BY <3>2 DEF Grounding!InScene, Detection, Frame
  <2>4. PICK moved : moved = [k \in DOMAIN dets |-> Grounding!InScene(dets[k], w)]
    OBVIOUS
  <2>5. moved \in [1..m -> Detection] /\ DOMAIN moved = 1..m /\ in(w) = moved
    BY <2>1, <2>2, <2>3, <2>4
  <2>6. \A k \in 1..m : moved[k] = Grounding!InScene(dets[k], w)
    BY <2>2, <2>4
  <2>7. \A k \in 1..m : \E i \in DOMAIN objects :
          Grounding!Visible(s, objects[i], w) /\ dets[k] = Sight(objects[i], w)
    BY <2>1, <2>2 DEF Sees
  <2>8. \A i \in DOMAIN objects : Grounding!Visible(s, objects[i], w) =>
          \E k \in 1..m : dets[k] = Sight(objects[i], w)
    BY <2>1, <2>2 DEF Sees
  <2> HIDE DEF in
  <2>9. \A k \in DOMAIN moved : \E i \in DOMAIN objects :
          Grounding!Visible(s, objects[i], w) /\ moved[k] = Grounding!InScene(Sight(objects[i], w), w)
    BY <2>5, <2>6, <2>7
  <2>10. \A i \in DOMAIN objects : Grounding!Visible(s, objects[i], w) =>
           \E k \in DOMAIN moved : moved[k] = Grounding!InScene(Sight(objects[i], w), w)
    BY <2>5, <2>6, <2>8
  <2>11. ShownIn(s, objects, w, moved) /\ moved \in Seq(Detection)
    BY <2>5, <2>9, <2>10 DEF ShownIn
  <2> QED BY <2>5, <2>11
<1> DEFINE lists == [i \in DOMAIN windows |-> in(windows[i])]
<1>4. lists \in Seq(Seq(Detection)) /\ DOMAIN lists = 1..n /\ \A m \in 1..n : lists[m] = in(windows[m])
  <2> HIDE DEF in
  <2>1. lists \in [1..n -> Seq(Detection)] /\ \A m \in 1..n : lists[m] = in(windows[m])
    BY <1>2, <1>3
  <2> QED BY <2>1
<1>5. raw = Facts!FlattenSeq(lists)
  BY <1>1, SameJoin DEF Grounding!RawDetections
<1> HIDE DEF lists, in
<1>6. raw \in Seq(Detection) /\ Facts!HoldsAll(raw, lists)
  BY <1>4, <1>5, Facts!JoinedHold
<1>7. ASSUME NEW p \in DOMAIN raw
      PROVE  \E m \in DOMAIN windows, i \in DOMAIN objects :
               /\ Grounding!Visible(s, objects[i], windows[m])
               /\ raw[p] = Grounding!InScene(Sight(objects[i], windows[m]), windows[m])
  <2>1. PICK m \in 1..n : \E k \in DOMAIN lists[m] : raw[p] = lists[m][k]
    BY <1>4, <1>6 DEF Facts!HoldsAll
  <2>2. PICK k \in DOMAIN in(windows[m]) : raw[p] = in(windows[m])[k]
    BY <1>4, <2>1
  <2>3. PICK w \in Grounding!Box : w = windows[m]
    BY <1>2
  <2>4. PICK i \in DOMAIN objects : /\ Grounding!Visible(s, objects[i], w)
                                    /\ in(w)[k] = Grounding!InScene(Sight(objects[i], w), w)
    BY <1>3, <2>2, <2>3 DEF ShownIn
  <2> QED BY <1>2, <2>2, <2>3, <2>4
<1>8. ASSUME NEW m \in DOMAIN windows, NEW i \in DOMAIN objects,
             Grounding!Visible(s, objects[i], windows[m])
      PROVE  \E p \in DOMAIN raw : raw[p] = Grounding!InScene(Sight(objects[i], windows[m]), windows[m])
  <2>1. PICK w \in Grounding!Box : w = windows[m]
    BY <1>2
  <2>2. PICK k \in DOMAIN in(w) : in(w)[k] = Grounding!InScene(Sight(objects[i], w), w)
    BY <1>3, <1>8, <2>1 DEF ShownIn
  <2>3. m \in DOMAIN lists /\ lists[m] = in(w)
    BY <1>2, <1>4, <2>1
  <2>4. PICK p \in DOMAIN raw : raw[p] = lists[m][k]
    BY <1>6, <2>2, <2>3 DEF Facts!HoldsAll
  <2> QED BY <2>1, <2>2, <2>3, <2>4
<1>9. Shown(s, objects, windows, raw)
  BY <1>7, <1>8 DEF Shown
<1> QED BY <1>1, <1>o, <1>6, <1>9
-----------------------------------------------------------------------------
(* What a query for objects has done at each step of its way.              *)
Reported(e) ==
  \/ e = Grounding!NoEvidence
  \/ e.status \in {"empty", "merged"} /\ e.detections \in Seq(Detection)

SceneInv ==
  /\ Grounding!SceneTyped(scene) /\ Grounding!RequestFor(scene) \in Requests
  /\ Facts!LadderInv(ladder)
  /\ partial \in Seq(Seq(Detection))
  /\ Reported(found)
  /\ tiles = <<>> => ladder = Facts!Idle /\ partial = <<>> /\ found = Grounding!NoEvidence
  /\ tiles # <<>> => /\ tiles = Grounding!SceneTiles(scene)
                     /\ ladder.status # "idle" /\ ladder.request = Grounding!RequestFor(scene)
  /\ Grounding!BatchesNameOnce

LEMMA SceneBegins ==
  ASSUME NEW s \in Scenes, Grounding!Query(s)
  PROVE  SceneInv
<1>1. ladder = Facts!Idle /\ scene = s /\ tiles = <<>> /\ partial = <<>> /\ found = Grounding!NoEvidence
  BY SameLadder DEF Grounding!Query, Grounding!Init
<1>2. Grounding!SceneTyped(s) /\ Grounding!RequestFor(s) \in Requests
  BY ScenesAssumption
<1>3. Facts!LadderInv(ladder)
  BY <1>1 DEF Facts!LadderInv
<1>4. Grounding!BatchesNameOnce
  BY <1>1 DEF Grounding!BatchesNameOnce
<1> QED BY <1>1, <1>2, <1>3, <1>4 DEF SceneInv, Reported

(* The tiles the ladder works through are the tiles of the scene.          *)
LEMMA TilesOfRequest ==
  ASSUME NEW s, Grounding!SceneTyped(s), NEW all, all = Grounding!SceneTiles(s)
  PROVE  all \in Seq(Tile) /\ all # <<>> /\ Len(Grounding!RequestFor(s).tiles) = Len(all)
<1>1. all \in Seq(Tile) /\ all # <<>>
  BY TilesHold
<1>2. Grounding!RequestFor(s).tiles = [i \in 1..Len(all) |-> all[i].image] /\ Len(all) \in Nat
  BY <1>1, LenProperties DEF Grounding!RequestFor
<1> QED BY <1>1, <1>2

LEMMA LastAppended ==
  ASSUME NEW S, NEW list \in Seq(S), NEW e \in S
  PROVE  /\ Append(list, e) \in Seq(S) /\ Append(list, e) # <<>>
         /\ Grounding!Last(Append(list, e)) = e
BY AppendProperties DEF Grounding!Last

(* A batch of the ladder is some tiles of the scene.                       *)
LEMMA BatchOfTiles ==
  ASSUME SceneInv, tiles # <<>>, ladder.status = "running", Facts!Left(ladder) > 0,
         NEW b, b = Facts!Batch(ladder)
  PROVE  /\ SubSeq(tiles, b.first, b.last) \in Seq(Tile)
         /\ b \in [first : Nat, last : Nat, quant : Facts!Quants]
<1>1. PICK all : all = tiles
  OBVIOUS
<1>2. all \in Seq(Tile) /\ Len(ladder.request.tiles) = Len(all)
  BY <1>1, TilesOfRequest DEF SceneInv
<1>3. Facts!LadderInv(ladder)
  BY DEF SceneInv
<1>4. PICK end : end = Facts!BatchEnd(ladder)
  OBVIOUS
<1>5. end \in Nat /\ ladder.handled < end /\ end <= Len(all)
  BY <1>2, <1>3, <1>4, Facts!BatchSpan
<1>6. ladder \in Facts!LadderRecord
  BY <1>3, Facts!RunningIsRecord
<1>7. ladder.handled \in Nat /\ ladder.quant \in Facts!Quants
  BY <1>6 DEF Facts!LadderRecord
<1>8. b = [first |-> ladder.handled + 1, last |-> end, quant |-> ladder.quant]
  BY <1>4 DEF Facts!Batch
<1>9. \A i \in b.first..b.last : all[i] \in Tile
  BY <1>2, <1>5, <1>7, <1>8, ElementOfSeq, LenProperties
<1>10. b.first \in Int /\ b.last \in Int
  BY <1>5, <1>7, <1>8
<1>11. SubSeq(all, b.first, b.last) \in Seq(Tile)
  <2>1. PICK x \in Int, y \in Int : x = b.first /\ y = b.last
    BY <1>10
  <2>2. \A i \in x..y : all[i] \in Tile
    BY <1>9, <2>1
  <2>3. SubSeq(all, x, y) \in Seq(Tile)
    BY <2>2, SubSeqProperties
  <2> QED BY <2>1, <2>3
<1> QED BY <1>1, <1>5, <1>7, <1>8, <1>11

(* Each step of the way.                                                   *)
LEMMA TileOK ==
  ASSUME SceneInv, Grounding!Tile
  PROVE  SceneInv'
<1>1. /\ tiles = <<>> /\ tiles' = Grounding!SceneTiles(scene)
      /\ ladder' = Facts!NewLadder(Grounding!RequestFor(scene))
      /\ UNCHANGED <<scene, partial, found>>
  BY SameLadder DEF Grounding!Tile, Grounding!Start
<1>2. PICK r \in Requests : r = Grounding!RequestFor(scene)
  BY DEF SceneInv
<1>3. Facts!RegistryServes
  BY RegistryAssumption, SameLadder
<1>4. Facts!LadderInv(ladder')
  <2>1. Facts!LadderInv(Facts!NewLadder(r))
    BY <1>3, Facts!NewLadderInv
  <2> QED BY <1>1, <1>2, <2>1
<1>5. ladder'.status # "idle" /\ ladder'.request = Grounding!RequestFor(scene)
  BY <1>1 DEF Facts!NewLadder
<1>6. tiles' # <<>>
  BY <1>1, TilesHold DEF SceneInv
<1>7. partial' = <<>>
  BY <1>1 DEF SceneInv
<1>8. Grounding!BatchesNameOnce'
  BY <1>7 DEF Grounding!BatchesNameOnce
<1> QED BY <1>1, <1>4, <1>5, <1>6, <1>8 DEF SceneInv

(* Once the ladder is idle no longer, the tiles are there.                 *)
LEMMA RunningHasTiles ==
  ASSUME SceneInv, ladder.status = "running"
  PROVE  tiles # <<>>
BY DEF SceneInv, Facts!Idle

LEMMA DetectOK ==
  ASSUME SceneInv, Grounding!Detect
  PROVE  SceneInv'
<1>1. /\ ladder.status = "running" /\ Facts!Left(ladder) > 0
      /\ ladder' = Facts!Processed(ladder)
      /\ UNCHANGED <<scene, tiles, found>>
  BY SameLadder DEF Grounding!Detect, Grounding!BatchOk
<1>2. PICK b : b = Facts!Batch(ladder)
  OBVIOUS
<1>3. PICK raw, dets : /\ raw = Grounding!RawDetections(scene, SubSeq(tiles, b.first, b.last))
                       /\ dets = Grounding!Nms(raw)
  OBVIOUS
<1>4. partial' = Append(partial, dets)
  BY <1>2, <1>3, SameLadder DEF Grounding!Detect
<1>5. tiles # <<>> /\ Facts!LadderInv(ladder)
  BY <1>1, RunningHasTiles DEF SceneInv
<1>6. SubSeq(tiles, b.first, b.last) \in Seq(Tile) /\ b \in [first : Nat, last : Nat, quant : Facts!Quants]
  BY <1>1, <1>2, <1>5, BatchOfTiles
<1>7. raw \in Seq(Detection)
  <2>1. PICK s, batch : s = scene /\ batch = SubSeq(tiles, b.first, b.last)
    OBVIOUS
  <2> QED BY <1>3, <1>6, <2>1, DetectionsHold DEF SceneInv
<1>8. /\ dets \in Seq(Detection)
      /\ \A i, j \in DOMAIN dets : i # j => ~Grounding!Suppresses(dets[i], dets[j])
      /\ \A i \in DOMAIN raw : \E j \in DOMAIN dets :
           dets[j] = raw[i] \/ (Grounding!Suppresses(dets[j], raw[i]) /\ dets[j].score >= raw[i].score)
  BY <1>3, <1>7, NmsHolds
<1>9. /\ partial' \in Seq(Seq(Detection)) /\ Grounding!Last(partial') = dets
  BY <1>4, <1>8, LastAppended DEF SceneInv
<1>10. PICK l, m : l = ladder /\ m = ladder'
  OBVIOUS
<1>11. Facts!LadderInv(m)
  BY <1>1, <1>5, <1>10, Facts!ProcessedInv
<1>12. /\ m.status # "idle" /\ m.request = l.request
       /\ l.partial \in Seq([first : Nat, last : Nat, quant : Facts!Quants])
       /\ m.partial = Append(l.partial, b)
  BY <1>1, <1>2, <1>5, <1>10, Facts!BatchAdded
<1>13. Grounding!Last(m.partial) = b
  <2>1. PICK S : S = [first : Nat, last : Nat, quant : Facts!Quants]
    OBVIOUS
  <2>2. l.partial \in Seq(S) /\ b \in S
    BY <1>6, <1>12, <2>1
  <2> QED BY <1>12, <2>2, LastAppended
<1>14. Grounding!BatchesNameOnce'
  <2>1. Grounding!Last(ladder'.partial) = b /\ scene' = scene /\ tiles' = tiles
    BY <1>1, <1>10, <1>13
  <2>2. \A d \in Grounding!Range(raw) : \E e \in Grounding!Range(dets) :
          e = d \/ (Grounding!Suppresses(e, d) /\ e.score >= d.score)
    BY <1>8 DEF Grounding!Range
  <2> QED BY <1>3, <1>8, <1>9, <2>1, <2>2 DEF Grounding!BatchesNameOnce
<1> QED BY <1>1, <1>5, <1>9, <1>10, <1>11, <1>12, <1>14 DEF SceneInv

(* What the ladder does without a batch leaves the lists alone.            *)
LEMMA LadderOnlyOK ==
  ASSUME SceneInv, ladder.status = "running", UNCHANGED <<scene, tiles, partial>>, Reported(found)',
         Facts!LadderInv(ladder'), ladder'.status # "idle",
         ladder'.request = ladder.request, ladder'.partial = ladder.partial
  PROVE  SceneInv'
<1>1. tiles # <<>>
  BY RunningHasTiles
<1>2. Grounding!BatchesNameOnce'
  BY DEF SceneInv, Grounding!BatchesNameOnce
<1> QED BY <1>1, <1>2 DEF SceneInv

LEMMA RunOutOK ==
  ASSUME SceneInv, Grounding!RunOut
  PROVE  SceneInv'
<1>1. /\ ladder.status = "running" /\ Facts!Left(ladder) > 0 /\ Facts!OutOfMemory(ladder, ladder')
      /\ UNCHANGED <<scene, tiles, partial, found>>
  BY SameLadder DEF Grounding!RunOut, Grounding!BatchOom
<1>2. Facts!LadderInv(ladder) /\ Reported(found)
  BY DEF SceneInv
<1>3. PICK l, m : l = ladder /\ m = ladder'
  OBVIOUS
<1>4. Facts!LadderInv(m) /\ m.status # "idle" /\ m.request = l.request /\ m.partial = l.partial
  BY <1>1, <1>2, <1>3, Facts!OutOfMemoryInv, Facts!RequestKept
<1> QED BY <1>1, <1>2, <1>3, <1>4, LadderOnlyOK DEF Reported

LEMMA FailOK ==
  ASSUME SceneInv, Grounding!Fail
  PROVE  SceneInv'
<1>1. /\ ladder.status = "running"
      /\ \E cause \in {"model_error", "adapter_error"} : ladder' = Facts!Raised(ladder, cause)
      /\ UNCHANGED <<scene, tiles, partial, found>>
  BY SameLadder DEF Grounding!Fail, Grounding!BatchRaises
<1>2. Facts!LadderInv(ladder) /\ Reported(found)
  BY DEF SceneInv
<1>3. PICK l, m : l = ladder /\ m = ladder'
  OBVIOUS
<1>4. PICK cause \in {"model_error", "adapter_error"} : m = Facts!Raised(l, cause)
  BY <1>1, <1>3
<1>5. Facts!LadderInv(m)
  BY <1>1, <1>2, <1>3, <1>4, Facts!RaisedInv
<1>6. m.status # "idle" /\ m.request = l.request /\ m.partial = l.partial
  BY <1>1, <1>2, <1>3, <1>4, Facts!RequestKept
<1> QED BY <1>1, <1>2, <1>3, <1>5, <1>6, LadderOnlyOK DEF Reported

LEMMA MergeOK ==
  ASSUME SceneInv, Grounding!Merge
  PROVE  SceneInv'
<1>1. /\ ladder.status = "running" /\ Facts!Left(ladder) = 0 /\ ladder' = Facts!Ended(ladder)
      /\ UNCHANGED <<scene, tiles, partial>>
      /\ found' = IF partial = <<>>
                  THEN [status |-> "empty", detections |-> <<>>]
                  ELSE [status |-> "merged", detections |-> Grounding!Merged(partial)]
  BY SameLadder DEF Grounding!Merge, Grounding!Finish
<1>2. Facts!LadderInv(ladder) /\ partial \in Seq(Seq(Detection))
  BY DEF SceneInv
<1>3. PICK lists, all : lists = partial /\ all = Facts!FlattenSeq(lists)
  OBVIOUS
<1>4. all \in Seq(Detection) /\ Grounding!Merged(partial) = all
  BY <1>2, <1>3, SameJoin, Facts!JoinedHold DEF Grounding!Merged
<1>5. Reported(found)'
  BY <1>1, <1>4 DEF Reported
<1>6. PICK l, m : l = ladder /\ m = ladder'
  OBVIOUS
<1>7. Facts!LadderInv(m) /\ m.status # "idle" /\ m.request = l.request /\ m.partial = l.partial
  BY <1>1, <1>2, <1>6, Facts!EndedInv, Facts!RequestKept
<1> QED BY <1>1, <1>2, <1>5, <1>6, <1>7, LadderOnlyOK

LEMMA SceneSteps ==
  ASSUME SceneInv, Grounding!SceneNext
  PROVE  SceneInv'
BY TileOK, DetectOK, RunOutOK, FailOK, MergeOK DEF Grounding!SceneNext
-----------------------------------------------------------------------------
(* What is reported of an object.                                          *)

(* What a window shows whole is reported at its place, with its score; and *)
(* a detector that does not split objects reports no other.                *)
LEMMA WholeSight ==
  ASSUME NEW t \in Grounding!Thing, NEW w \in Grounding!Box, Grounding!Within(t.box, w)
  PROVE  Grounding!InScene(Sight(t, w), w) = [label |-> t.label, box |-> t.box, score |-> t.score]
<1>1. PICK b \in Grounding!Box : b = t.box
  BY DEF Grounding!Thing
<1>2. b.x0 \in Nat /\ b.x1 \in Nat /\ b.y0 \in Nat /\ b.y1 \in Nat
      /\ b = [x0 |-> b.x0, x1 |-> b.x1, y0 |-> b.y0, y1 |-> b.y1]
  BY DEF Grounding!Box
<1>3. w.x0 \in Nat /\ w.x1 \in Nat /\ w.y0 \in Nat /\ w.y1 \in Nat
  BY DEF Grounding!Box
<1>4. Grounding!Clipped(b, w) = b
  BY <1>1, <1>2, <1>3 DEF Grounding!Within, Grounding!Clipped, Grounding!Larger, Grounding!Smaller
<1>5. PICK c : c = Grounding!Shifted(b, -w.x0, -w.y0)
  OBVIOUS
<1>6. Grounding!Shifted(c, w.x0, w.y0) = b
  BY <1>2, <1>3, <1>5 DEF Grounding!Shifted
<1>7. Sight(t, w) = [label |-> t.label, box |-> c, score |-> t.score]
  BY <1>1, <1>4, <1>5 DEF Sight
<1>8. Grounding!InScene(Sight(t, w), w)
        = [label |-> t.label, box |-> Grounding!Shifted(c, w.x0, w.y0), score |-> t.score]
  BY <1>7 DEF Grounding!InScene
<1> QED BY <1>1, <1>6, <1>8

LEMMA WholeIsVisible ==
  ASSUME NEW s, Grounding!SceneTyped(s), NEW o \in Grounding!Thing, o \in Grounding!Range(s.objects),
         NEW w \in Grounding!Box, Grounding!Within(o.box, w)
  PROVE  Grounding!Visible(s, o, w)
<1>1. PICK b \in Grounding!Box : b = o.box
  BY DEF Grounding!Thing
<1>2. /\ b.x0 \in Nat /\ b.x1 \in Nat /\ b.y0 \in Nat /\ b.y1 \in Nat
      /\ w.x0 \in Nat /\ w.x1 \in Nat /\ w.y0 \in Nat /\ w.y1 \in Nat
      /\ b.x0 < b.x1 /\ b.y0 < b.y1
  BY <1>1 DEF Grounding!Box, Grounding!SceneTyped
<1>3. PICK c : c = Grounding!Clipped(b, w)
  OBVIOUS
<1>4. c.x0 = b.x0 /\ c.x1 = b.x1 /\ c.y0 = b.y0 /\ c.y1 = b.y1
  BY <1>1, <1>2, <1>3 DEF Grounding!Within, Grounding!Clipped, Grounding!Larger, Grounding!Smaller
<1>5. PICK x \in Nat \ {0}, y \in Nat \ {0} : x = b.x1 - b.x0 /\ y = b.y1 - b.y0
  BY <1>2
<1>6. Grounding!Area(c) = x * y
  BY <1>4, <1>5 DEF Grounding!Area, Grounding!Larger
<1>7. x * y > 0
  BY <1>5
<1> QED BY <1>1, <1>3, <1>6, <1>7 DEF Grounding!Visible

(* A batch with a tile of a window (of both images, if they are two) looks *)
(* there.                                                                  *)
LEMMA LooksThere ==
  ASSUME NEW s, NEW batch \in Seq(Tile), NEW w,
         NEW t \in DOMAIN batch, batch[t] = [image |-> s.images[1], window |-> w],
         s.entry \in CrossModels =>
           \E u \in DOMAIN batch : batch[u] = [image |-> s.images[2], window |-> w]
  PROVE  \E m \in DOMAIN Grounding!Looked(s, batch) : Grounding!Looked(s, batch)[m] = w
<1>1. PICK looked : looked = Grounding!Looked(s, batch)
  OBVIOUS
<1>2. CASE s.entry \notin CrossModels
  <2>1. looked = [i \in DOMAIN batch |-> batch[i].window]
    BY <1>1, <1>2 DEF Grounding!Looked
  <2>2. t \in DOMAIN looked /\ looked[t] = w
    BY <2>1
  <2> QED BY <1>1, <2>2
<1>3. CASE s.entry \in CrossModels
  <2> DEFINE partnered(x) == /\ x.image = s.images[1]
                             /\ [image |-> s.images[2], window |-> x.window] \in Grounding!Range(batch)
  <2>1. PICK I \in SUBSET (1..Len(batch)) : I = {i \in DOMAIN batch : partnered(batch[i])}
    <3>1. DOMAIN batch = 1..Len(batch)
      BY LenProperties
    <3> HIDE DEF partnered
    <3> QED BY <3>1
  <2>2. t \in I
    <3>1. PICK u \in DOMAIN batch : batch[u] = [image |-> s.images[2], window |-> w]
      BY <1>3
    <3>2. [image |-> s.images[2], window |-> w] \in Grounding!Range(batch)
      BY <3>1 DEF Grounding!Range
    <3> QED BY <2>1, <3>2
  <2>3. PICK sub : sub = Facts!ElementsAt(batch, I)
    OBVIOUS
  <2>4. sub = Grounding!ElementsAt(batch, {i \in DOMAIN batch : partnered(batch[i])})
    BY <2>1, <2>3, SameSublist
  <2>5. looked = [i \in DOMAIN sub |-> sub[i].window]
    BY <1>1, <1>3, <2>4 DEF Grounding!Looked
  <2>6. sub \in Seq(Tile) /\ \E at : Facts!Picks(at, sub, batch, I)
    BY <2>1, <2>3, Facts!SublistPicks
  <2>7. PICK at : Facts!Picks(at, sub, batch, I)
    BY <2>6
  <2>8. PICK p \in 1..Len(sub) : at[p] = t
    BY <2>2, <2>7 DEF Facts!Picks
  <2>9. sub[p] = batch[t] /\ p \in DOMAIN sub
    BY <2>6, <2>7, <2>8, LenProperties DEF Facts!Picks
  <2>10. p \in DOMAIN looked /\ looked[p] = w
    BY <2>5, <2>9
  <2> QED BY <1>1, <2>10
<1> QED BY <1>2, <1>3

(* So an object that a window shows whole is in the batch's report, unless *)
(* something there is said to be the same and no less certain.             *)
Named(dets, o) ==
  \E j \in DOMAIN dets : /\ dets[j].label = o.label /\ dets[j].score >= o.score
                         /\ dets[j].box = o.box \/ Grounding!SameThing(dets[j].box, o.box)

LEMMA BatchNames ==
  ASSUME NEW s, Grounding!SceneTyped(s), NEW batch \in Seq(Tile), NEW w \in Grounding!Box,
         NEW t \in DOMAIN batch, batch[t] = [image |-> s.images[1], window |-> w],
         s.entry \in CrossModels =>
           \E u \in DOMAIN batch : batch[u] = [image |-> s.images[2], window |-> w],
         NEW o, o \in Grounding!Range(s.objects), Grounding!Within(o.box, w)
  PROVE  Named(Grounding!Nms(Grounding!RawDetections(s, batch)), o)
<1>1. PICK raw, dets : raw = Grounding!RawDetections(s, batch) /\ dets = Grounding!Nms(raw)
  OBVIOUS
<1>2. PICK looked : looked = Grounding!Looked(s, batch)
  OBVIOUS
<1>3. raw \in Seq(Detection) /\ Shown(s, s.objects, looked, raw)
  BY <1>1, <1>2, DetectionsHold
<1>4. PICK m \in DOMAIN looked : looked[m] = w
  BY <1>2, LooksThere
<1>5. PICK i \in DOMAIN s.objects : s.objects[i] = o
  BY DEF Grounding!Range
<1>6. o \in Grounding!Thing
  <2>1. PICK objects : objects = s.objects
    OBVIOUS
  <2>2. objects \in Seq(Grounding!Thing)
    BY <2>1 DEF Grounding!SceneTyped
  <2>3. i \in 1..Len(objects)
    BY <1>5, <2>1, <2>2, LenProperties
  <2> QED BY <1>5, <2>1, <2>2, <2>3, ElementOfSeq
<1>7. PICK p \in DOMAIN raw : raw[p] = Grounding!InScene(Sight(o, w), w)
  BY <1>3, <1>4, <1>5, <1>6, WholeIsVisible DEF Shown
<1>8. raw[p].label = o.label /\ raw[p].box = o.box /\ raw[p].score = o.score
  BY <1>6, <1>7, WholeSight
<1>9. dets \in Seq(Detection)
      /\ \E j \in DOMAIN dets :
           \/ dets[j] = raw[p]
           \/ Grounding!Suppresses(dets[j], raw[p]) /\ dets[j].score >= raw[p].score
  BY <1>1, <1>3, NmsHolds
<1>10. PICK j \in DOMAIN dets :
           \/ dets[j] = raw[p]
           \/ Grounding!Suppresses(dets[j], raw[p]) /\ dets[j].score >= raw[p].score
  BY <1>9
<1>11. o.score \in Int
  BY <1>6 DEF Grounding!Thing
<1>12. Named(dets, o)
  BY <1>8, <1>10, <1>11 DEF Named, Grounding!Suppresses
<1> QED BY <1>1, <1>12

(* An object no larger than the overlap is whole in some window.           *)
LEMMA SomeWindowShows ==
  ASSUME NEW s, Grounding!SceneTyped(s), NEW o, o \in Grounding!Range(s.objects), Grounding!Fits(s, o),
         NEW windows, windows = Grounding!SceneWindows(s)
  PROVE  \E i \in DOMAIN windows : Grounding!Within(o.box, windows[i])
<1>1. PICK width, height, tile, overlap, stride :
        /\ width = s.width /\ height = s.height /\ tile = s.tile /\ overlap = s.overlap
        /\ stride = Facts!Stride(tile, overlap)
  OBVIOUS
<1>2. /\ Facts!Tileable(width, height, tile, overlap)
      /\ width \in Nat \ {0} /\ height \in Nat \ {0} /\ tile \in Nat \ {0} /\ overlap \in 0..99
  BY <1>1 DEF Grounding!SceneTyped, Grounding!Tileable, Facts!Tileable
<1>3. stride \in 1..tile
  BY <1>1, <1>2, Facts!StrideHolds
<1>4. windows = Facts!Windows(width, height, tile, overlap)
  BY <1>1, SameWindows DEF Grounding!SceneWindows
<1>5. Facts!WindowsShow(width, height, tile, stride, windows) /\ windows \in Seq(Facts!Box)
  BY <1>1, <1>2, <1>4, Facts!WindowsHold
<1>6. PICK b \in Grounding!Box : b = o.box
  <2>1. PICK objects : objects = s.objects
    OBVIOUS
  <2>2. objects \in Seq(Grounding!Thing)
    BY <2>1 DEF Grounding!SceneTyped
  <2>3. PICK i \in DOMAIN objects : objects[i] = o
    BY <2>1 DEF Grounding!Range
  <2>4. o \in Grounding!Thing
    <3>1. i \in 1..Len(objects)
      BY <2>2, <2>3, LenProperties
    <3> QED BY <2>2, <2>3, <3>1, ElementOfSeq
  <2> QED BY <2>4 DEF Grounding!Thing
<1>7. b.x0 < b.x1 /\ b.x1 <= width /\ b.y0 < b.y1 /\ b.y1 <= height
  BY <1>1, <1>6 DEF Grounding!SceneTyped
<1>8. b.x0 \in Nat /\ b.x1 \in Nat /\ b.y0 \in Nat /\ b.y1 \in Nat
  BY DEF Grounding!Box
<1>9. /\ b.x1 - b.x0 <= tile - stride \/ width <= tile
      /\ b.y1 - b.y0 <= tile - stride \/ height <= tile
  BY <1>1, <1>6, SameStride DEF Grounding!Fits, Grounding!OverlapGiven
<1>10. Facts!Short(width, tile, stride, b.x0, b.x1) /\ Facts!Short(height, tile, stride, b.y0, b.y1)
  BY <1>2, <1>3, <1>7, <1>8, <1>9 DEF Facts!Short
<1>11. /\ b.x0 \in 0..(width - 1) /\ b.x1 \in 1..width
       /\ b.y0 \in 0..(height - 1) /\ b.y1 \in 1..height
  BY <1>2, <1>7, <1>8
<1>12. PICK i \in DOMAIN windows : /\ windows[i].x0 <= b.x0 /\ b.x1 <= windows[i].x1
                                   /\ windows[i].y0 <= b.y0 /\ b.y1 <= windows[i].y1
  BY <1>5, <1>10, <1>11 DEF Facts!WindowsShow, Facts!Shows
<1>13. windows[i].x0 \in Nat /\ windows[i].y0 \in Nat
  <2>1. i \in 1..Len(windows)
    BY <1>5, LenProperties
  <2>2. windows[i] \in Facts!Box
    BY <1>5, <2>1, ElementOfSeq
  <2> QED BY <2>2 DEF Facts!Box
<1> QED BY <1>6, <1>8, <1>12, <1>13 DEF Grounding!Within

(* What is so of the evidence of every batch, and of what is merged.       *)
BatchTiles(b) == SubSeq(tiles, b.first, b.last)

Noted(k) ==
  /\ partial[k] = Grounding!Nms(Grounding!RawDetections(scene, BatchTiles(ladder.partial[k])))
  /\ Grounding!Accepted(ladder, ladder.partial[k])

ReportInv ==
  /\ tiles # <<>> => DOMAIN partial = DOMAIN ladder.partial
  /\ \A k \in DOMAIN partial : Noted(k)
  /\ found # Grounding!NoEvidence =>
       /\ ladder.status \in {"answered", "empty"}
       /\ found.detections = IF partial = <<>> THEN <<>> ELSE Grounding!Merged(partial)

LEMMA ReportBegins ==
  ASSUME NEW s \in Scenes, Grounding!Query(s)
  PROVE  ReportInv
BY DEF Grounding!Query, ReportInv

LEMMA AcceptedStill ==
  ASSUME NEW l, NEW m, NEW b, l.request = m.request, Grounding!Accepted(l, b)
  PROVE  Grounding!Accepted(m, b)
BY DEF Grounding!Accepted, Grounding!ImagesOf

LEMMA AppendedList ==
  ASSUME NEW S, NEW list \in Seq(S), NEW e, NEW n, n = Len(list), NEW longer, longer = Append(list, e)
  PROVE  /\ DOMAIN longer = 1..(n + 1) /\ longer[n + 1] = e
         /\ \A k \in 1..n : longer[k] = list[k]
<1>1. PICK A : A = S \cup {e}
  OBVIOUS
<1>2. DOMAIN list = 1..n /\ n \in Nat /\ \A k \in 1..n : list[k] \in A
  BY <1>1, LenProperties, ElementOfSeq
<1>3. list \in [1..n -> A]
  <2>1. list = [k \in 1..n |-> list[k]]
    BY <1>2
  <2> QED BY <1>2, <2>1
<1>4. list \in Seq(A) /\ e \in A
  BY <1>1, <1>2, <1>3
<1>5. /\ longer \in Seq(A) /\ Len(longer) = n + 1 /\ longer[n + 1] = e
      /\ \A k \in 1..n : longer[k] = list[k]
  BY <1>4, AppendProperties
<1> QED BY <1>5, LenProperties

LEMMA ReportDetect ==
  ASSUME SceneInv, ReportInv, Grounding!Detect
  PROVE  ReportInv'
<1>1. /\ ladder.status = "running" /\ ladder' = Facts!Processed(ladder)
      /\ Grounding!Accepted(ladder, Facts!Batch(ladder))
      /\ UNCHANGED <<scene, tiles, found>>
  BY SameLadder DEF Grounding!Detect, Grounding!BatchOk
<1>2. PICK b, dets : /\ b = Facts!Batch(ladder)
                     /\ dets = Grounding!Nms(Grounding!RawDetections(scene, SubSeq(tiles, b.first, b.last)))
  OBVIOUS
<1>3. partial' = Append(partial, dets)
  BY <1>2, SameLadder DEF Grounding!Detect
<1>4. PICK l, m, old, new, ts : l = ladder /\ m = ladder' /\ old = partial /\ new = partial' /\ ts = tiles
  OBVIOUS
<1>5. /\ m.request = l.request /\ l.partial \in Seq([first : Nat, last : Nat, quant : Facts!Quants])
      /\ m.partial = Append(l.partial, b)
  BY <1>1, <1>2, <1>4, Facts!BatchAdded DEF SceneInv
<1>6. ts # <<>> /\ old \in Seq(Seq(Detection)) /\ new = Append(old, dets)
  BY <1>1, <1>3, <1>4, RunningHasTiles DEF SceneInv
<1>7. DOMAIN old = DOMAIN l.partial
  BY <1>4, <1>6 DEF ReportInv
<1>8. PICK n \in Nat : DOMAIN old = 1..n /\ Len(old) = n /\ Len(l.partial) = n
  <2>1. DOMAIN old = 1..Len(old) /\ DOMAIN l.partial = 1..Len(l.partial) /\ Len(old) \in Nat /\ Len(l.partial) \in Nat
    BY <1>5, <1>6, LenProperties
  <2>2. PICK x \in Nat, y \in Nat : x = Len(old) /\ y = Len(l.partial)
    BY <2>1
  <2>3. 1..x = 1..y
    BY <1>7, <2>1, <2>2
  <2>4. x = y
    <3>1. x < y => x + 1 \in 1..y /\ x + 1 \notin 1..x
      OBVIOUS
    <3>2. y < x => y + 1 \in 1..x /\ y + 1 \notin 1..y
      OBVIOUS
    <3> QED BY <2>3, <3>1, <3>2
  <2> QED BY <2>1, <2>2, <2>4
<1>9. /\ DOMAIN new = 1..(n + 1) /\ DOMAIN m.partial = 1..(n + 1)
      /\ \A k \in 1..n : new[k] = old[k] /\ m.partial[k] = l.partial[k]
      /\ new[n + 1] = dets /\ m.partial[n + 1] = b
  <2>1. PICK S, T : S = Seq(Detection) /\ T = [first : Nat, last : Nat, quant : Facts!Quants]
    OBVIOUS
  <2>2. old \in Seq(S) /\ l.partial \in Seq(T)
    BY <1>5, <1>6, <2>1
  <2>3. DOMAIN new = 1..(n + 1) /\ new[n + 1] = dets /\ \A k \in 1..n : new[k] = old[k]
    BY <1>6, <1>8, <2>2, AppendedList
  <2>4. PICK was, is : was = l.partial /\ is = m.partial
    OBVIOUS
  <2>5. is = Append(was, b) /\ was \in Seq(T) /\ n = Len(was)
    BY <1>5, <1>8, <2>2, <2>4
  <2>6. DOMAIN is = 1..(n + 1) /\ is[n + 1] = b /\ \A k \in 1..n : is[k] = was[k]
    BY <2>5, AppendedList
  <2> QED BY <2>3, <2>4, <2>6
<1>10. ASSUME NEW k \in 1..(n + 1) PROVE Noted(k)'
  <2>1. CASE k = n + 1
    <3>1. partial'[k] = dets /\ ladder'.partial[k] = b
      BY <1>4, <1>9, <2>1
    <3>2. Grounding!Accepted(m, b)
      BY <1>1, <1>2, <1>4, <1>5, AcceptedStill
    <3>3. Grounding!Accepted(ladder', b)
      BY <1>4, <3>2
    <3> QED BY <1>1, <1>2, <3>1, <3>3 DEF Noted, BatchTiles, Grounding!Accepted, Grounding!ImagesOf
  <2>2. CASE k # n + 1
    <3>1. k \in 1..n
      BY <2>2
    <3>2. Noted(k)
      BY <1>4, <1>8, <3>1 DEF ReportInv
    <3>3. partial'[k] = partial[k] /\ ladder'.partial[k] = ladder.partial[k] /\ ladder'.request = ladder.request
      BY <1>4, <1>5, <1>9, <3>1
    <3> QED BY <1>1, <3>2, <3>3 DEF Noted, BatchTiles, Grounding!Accepted, Grounding!ImagesOf
  <2> QED BY <2>1, <2>2
<1>11. found' = Grounding!NoEvidence
  BY <1>1 DEF ReportInv
<1>12. DOMAIN partial' = 1..(n + 1) /\ DOMAIN ladder'.partial = 1..(n + 1)
  BY <1>4, <1>9
<1> QED BY <1>10, <1>11, <1>12 DEF ReportInv

LEMMA ReportOnlyLadder ==
  ASSUME SceneInv, ReportInv, ladder.status = "running", UNCHANGED <<scene, tiles, partial>>,
         ladder'.request = ladder.request, ladder'.partial = ladder.partial,
         found' = found \/ ( /\ ladder'.status \in {"answered", "empty"}
                             /\ found'.detections = IF partial = <<>> THEN <<>> ELSE Grounding!Merged(partial) )
  PROVE  ReportInv'
<1>1. found = Grounding!NoEvidence
  BY DEF ReportInv
<1>2. \A k \in DOMAIN partial : Noted(k)'
  BY DEF ReportInv, Noted, BatchTiles, Grounding!Accepted, Grounding!ImagesOf
<1>3. found' # Grounding!NoEvidence =>
        /\ ladder'.status \in {"answered", "empty"}
        /\ found'.detections = IF partial' = <<>> THEN <<>> ELSE Grounding!Merged(partial')
  BY <1>1
<1> QED BY <1>2, <1>3 DEF ReportInv

LEMMA ReportSteps ==
  ASSUME SceneInv, ReportInv, Grounding!SceneNext
  PROVE  ReportInv'
<1>1. CASE Grounding!Tile
  <2>1. /\ tiles = <<>> /\ ladder' = Facts!NewLadder(Grounding!RequestFor(scene))
        /\ UNCHANGED <<scene, partial, found>>
    BY <1>1, SameLadder DEF Grounding!Tile, Grounding!Start
  <2>2. partial' = <<>> /\ ladder'.partial = <<>> /\ found' = Grounding!NoEvidence
    BY <2>1 DEF SceneInv, Facts!NewLadder
  <2> QED BY <2>2 DEF ReportInv
<1>2. CASE Grounding!Detect
  BY <1>2, ReportDetect
<1>3. PICK l, m : l = ladder /\ m = ladder'
  OBVIOUS
<1>4. Facts!LadderInv(l)
  BY <1>3 DEF SceneInv
<1>5. CASE Grounding!RunOut
  <2>1. /\ ladder.status = "running" /\ Facts!OutOfMemory(ladder, ladder')
        /\ UNCHANGED <<scene, tiles, partial, found>>
    BY <1>5, SameLadder DEF Grounding!RunOut, Grounding!BatchOom
  <2>2. m.request = l.request /\ m.partial = l.partial
    BY <1>3, <1>4, <2>1, Facts!RequestKept
  <2> QED BY <1>3, <2>1, <2>2, ReportOnlyLadder
<1>6. CASE Grounding!Fail
  <2>1. /\ ladder.status = "running"
        /\ \E cause \in {"model_error", "adapter_error"} : ladder' = Facts!Raised(ladder, cause)
        /\ UNCHANGED <<scene, tiles, partial, found>>
    BY <1>6, SameLadder DEF Grounding!Fail, Grounding!BatchRaises
  <2>2. PICK cause \in {"model_error", "adapter_error"} : m = Facts!Raised(l, cause)
    BY <1>3, <2>1
  <2>3. m.request = l.request /\ m.partial = l.partial
    BY <1>3, <1>4, <2>1, <2>2, Facts!RequestKept
  <2> QED BY <1>3, <2>1, <2>3, ReportOnlyLadder
<1>7. CASE Grounding!Merge
  <2>1. /\ ladder.status = "running" /\ ladder' = Facts!Ended(ladder)
        /\ UNCHANGED <<scene, tiles, partial>>
        /\ found' = IF partial = <<>>
                    THEN [status |-> "empty", detections |-> <<>>]
                    ELSE [status |-> "merged", detections |-> Grounding!Merged(partial)]
    BY <1>7, SameLadder DEF Grounding!Merge, Grounding!Finish
  <2>2. m.request = l.request /\ m.partial = l.partial
    BY <1>3, <1>4, <2>1, Facts!RequestKept
  <2>3. m.status \in {"answered", "empty"}
    <3>1. l \in Facts!LadderRecord
      BY <1>3, <1>4, <2>1, Facts!RunningIsRecord
    <3> QED BY <1>3, <2>1, <3>1 DEF Facts!Ended, Facts!LadderRecord
  <2> QED BY <1>3, <2>1, <2>2, <2>3, ReportOnlyLadder
<1> QED BY <1>1, <1>2, <1>5, <1>6, <1>7 DEF Grounding!SceneNext

LEMMA ReportKept ==
  ASSUME ReportInv, UNCHANGED sceneVars
  PROVE  ReportInv'
<1>1. scene' = scene /\ tiles' = tiles /\ partial' = partial /\ ladder' = ladder /\ found' = found
  BY DEF sceneVars
<1>2. \A k \in DOMAIN partial : Noted(k)'
  <2> TAKE k \in DOMAIN partial
  <2>1. Noted(k)
    BY DEF ReportInv
  <2> QED BY <1>1, <2>1 DEF Noted, BatchTiles, Grounding!Accepted, Grounding!ImagesOf
<1> QED BY <1>1, <1>2 DEF ReportInv

(* Of two images, the tiles of the first come before those of the second.  *)
LEMMA TilesInOrder ==
  ASSUME NEW s, Grounding!SceneTyped(s), Len(s.images) = 2, s.images[1] # s.images[2],
         NEW all, all = Grounding!SceneTiles(s),
         NEW p \in DOMAIN all, NEW q \in DOMAIN all,
         all[p].image = s.images[1], all[q].image = s.images[2]
  PROVE  p < q
<1>1. PICK windows, images : windows = Grounding!SceneWindows(s) /\ images = s.images
  OBVIOUS
<1>2. windows \in Seq(Grounding!Box) /\ images \in Seq(Images)
  BY <1>1, TilesHold
<1>3. PICK m \in Nat : DOMAIN windows = 1..m /\ \A i \in 1..m : windows[i] \in Grounding!Box
  BY <1>2
<1>4. DOMAIN images = 1..2 /\ images[1] \in Images /\ images[2] \in Images
  <2>1. Len(images) = 2
    BY <1>1
  <2>2. DOMAIN images = 1..2
    BY <1>2, <2>1, LenProperties
  <2> QED BY <1>2, <2>1, ElementOfSeq
<1> DEFINE of(k) == [i \in DOMAIN windows |-> [image |-> images[k], window |-> windows[i]]]
<1>5. PICK a, b : a = of(1) /\ b = of(2)
  OBVIOUS
<1>6. /\ a \in Seq(Tile) /\ Len(a) = m /\ DOMAIN a = 1..m /\ \A i \in 1..m : a[i].image = images[1]
      /\ b \in Seq(Tile) /\ Len(b) = m /\ DOMAIN b = 1..m /\ \A i \in 1..m : b[i].image = images[2]
  <2>1. a \in [1..m -> Tile] /\ b \in [1..m -> Tile]
    BY <1>3, <1>4, <1>5 DEF Tile
  <2> QED BY <1>3, <1>5, <2>1
<1>7. all = Facts!FlattenSeq([k \in DOMAIN images |-> of(k)])
  BY <1>1, SameJoin DEF Grounding!SceneTiles, Grounding!SceneWindows
<1>8. [k \in DOMAIN images |-> of(k)] = <<a, b>>
  <2> HIDE DEF of
  <2>1. PICK lists : lists = [k \in DOMAIN images |-> of(k)]
    OBVIOUS
  <2>2. lists = [k \in 1..2 |-> of(k)] /\ lists[1] = a /\ lists[2] = b
    BY <1>4, <1>5, <2>1
  <2>3. lists = <<a, b>>
    BY <2>2
  <2> QED BY <2>1, <2>3
<1> HIDE DEF of
<1>9. all = a \o b
  BY <1>6, <1>7, <1>8, Facts!JoinOfFew
<1>10. /\ Len(all) = m + m /\ DOMAIN all = 1..(m + m)
       /\ \A i \in 1..(m + m) : all[i] = IF i <= m THEN a[i] ELSE b[i - m]
  <2>1. /\ a \o b \in Seq(Tile) /\ Len(a \o b) = m + m
        /\ \A i \in 1..(m + m) : (a \o b)[i] = IF i <= m THEN a[i] ELSE b[i - m]
    <3>1. PICK S : S = Tile
      OBVIOUS
    <3>2. a \in Seq(S) /\ b \in Seq(S)
      BY <1>6, <3>1
    <3>3. /\ a \o b \in Seq(S) /\ Len(a \o b) = Len(a) + Len(b)
          /\ \A i \in 1..(Len(a) + Len(b)) : (a \o b)[i] = IF i <= Len(a) THEN a[i] ELSE b[i - Len(a)]
      BY <3>2, ConcatProperties
    <3> QED BY <1>6, <3>1, <3>3
  <2> QED BY <1>9, <2>1, LenProperties
<1>11. p <= m
  <2> SUFFICES ASSUME p > m PROVE FALSE
    BY <1>10
  <2>1. PICK i \in 1..m : i = p - m
    BY <1>10
  <2>2. all[p] = b[i]
    BY <1>10, <2>1
  <2> QED BY <1>1, <1>6, <2>2
<1>12. q > m
  <2> SUFFICES ASSUME q <= m PROVE FALSE
    BY <1>10
  <2>1. q \in 1..m /\ all[q] = a[q]
    BY <1>10
  <2> QED BY <1>1, <1>6, <2>1
<1> QED BY <1>10, <1>11, <1>12

(* Which images a query for objects is about, tile by tile.                *)
LEMMA RequestNamesImages ==
  ASSUME NEW s, Grounding!SceneTyped(s), NEW all, all = Grounding!SceneTiles(s),
         NEW request, request = Grounding!RequestFor(s)
  PROVE  /\ request.entry = s.entry /\ Len(request.tiles) = Len(all) /\ Len(all) \in Nat
         /\ DOMAIN all = 1..Len(all)
         /\ \A i \in 1..Len(all) :
              /\ request.tiles[i] = all[i].image
              /\ \E k \in DOMAIN s.images : all[i].image = s.images[k]
<1>1. all \in Seq(Tile) /\ Len(all) \in Nat /\ DOMAIN all = 1..Len(all)
  BY TilesHold, LenProperties
<1>2. request.tiles = [i \in 1..Len(all) |-> all[i].image] /\ request.entry = s.entry
  BY <1>1 DEF Grounding!RequestFor
<1>3. PICK windows : windows = Grounding!SceneWindows(s)
  OBVIOUS
<1>4. ASSUME NEW i \in 1..Len(all) PROVE \E k \in DOMAIN s.images : all[i].image = s.images[k]
  <2>1. TilesAre(all, s.images, windows)
    BY <1>3, TilesHold
  <2>2. PICK k \in DOMAIN s.images, j \in DOMAIN windows :
          all[i] = [image |-> s.images[k], window |-> windows[j]]
    BY <1>1, <2>1 DEF TilesAre
  <2> QED BY <2>2
<1> QED BY <1>1, <1>2, <1>4

(* A batch that an adapter of pairs takes has a tile of each image.        *)
LEMMA BothImages ==
  ASSUME NEW s, Grounding!SceneTyped(s), s.entry \in CrossModels, NEW all, all = Grounding!SceneTiles(s),
         NEW l, l.request = Grounding!RequestFor(s),
         NEW b, b.first \in Nat, b.last \in Nat, 1 <= b.first, b.last <= Len(all), Grounding!Accepted(l, b)
  PROVE  /\ Len(s.images) = 2 /\ s.images[1] # s.images[2]
         /\ \E x \in b.first..b.last : all[x].image = s.images[1]
         /\ \E y \in b.first..b.last : all[y].image = s.images[2]
<1>1. PICK images \in Seq(Images) : images = s.images
  BY DEF Grounding!SceneTyped
<1>2. Len(images) = 2 /\ DOMAIN images = 1..2
  BY <1>1, LenProperties DEF Grounding!SceneTyped
<1>3. /\ l.request.entry = s.entry /\ Len(all) \in Nat
      /\ \A i \in 1..Len(all) : l.request.tiles[i] = all[i].image
  BY RequestNamesImages
<1>4. \A i \in 1..Len(all) : all[i].image = images[1] \/ all[i].image = images[2]
  <2> TAKE i \in 1..Len(all)
  <2>1. PICK k \in DOMAIN images : all[i].image = images[k]
    BY <1>1, RequestNamesImages
  <2> QED BY <1>2, <2>1
<1>5. PICK u, v : u # v /\ Grounding!ImagesOf(l, b) = {u, v}
  BY <1>3 DEF Grounding!Accepted
<1> DEFINE Has(w) == \E x \in b.first..b.last : all[x].image = w
<1>a. \A w \in Grounding!ImagesOf(l, b) : Has(w)
  BY <1>3 DEF Grounding!ImagesOf
<1>6. PICK x \in b.first..b.last : all[x].image = u
  BY <1>5, <1>a
<1>7. PICK y \in b.first..b.last : all[y].image = v
  BY <1>5, <1>a
<1>8. x \in 1..Len(all) /\ y \in 1..Len(all)
  BY <1>3
<1>9. {u, v} = {images[1], images[2]} /\ images[1] # images[2]
  BY <1>4, <1>5, <1>6, <1>7, <1>8
<1> QED BY <1>1, <1>2, <1>6, <1>7, <1>9

(* So the two tiles of a window that no batch dropped are in one batch.    *)
LEMMA PairInOneBatch ==
  ASSUME NEW s, Grounding!SceneTyped(s), s.entry \in CrossModels, NEW all, all = Grounding!SceneTiles(s),
         NEW l, Facts!LadderInv(l), l \in Facts!LadderRecord, l.request = Grounding!RequestFor(s),
         NEW j \in DOMAIN l.partial, Grounding!Accepted(l, l.partial[j]),
         NEW k \in DOMAIN l.partial, Grounding!Accepted(l, l.partial[k]),
         NEW p \in l.partial[j].first..l.partial[j].last, all[p].image = s.images[1],
         NEW q \in l.partial[k].first..l.partial[k].last, all[q].image = s.images[2]
  PROVE  j = k
<1>1. PICK a, b : a = l.partial[j] /\ b = l.partial[k]
  OBVIOUS
<1>2. /\ Len(l.request.tiles) = Len(all) /\ Len(all) \in Nat /\ DOMAIN all = 1..Len(all)
  BY RequestNamesImages
<1>3. /\ a.first \in Nat /\ a.last \in Nat /\ 1 <= a.first /\ a.last <= Len(all)
      /\ j = k \/ a.last < b.first \/ b.last < a.first
  BY <1>1, <1>2, Facts!BatchesFollow
<1>4. b.first \in Nat /\ b.last \in Nat /\ 1 <= b.first /\ b.last <= Len(all)
  BY <1>1, <1>2, Facts!BatchesFollow
<1>5. /\ Len(s.images) = 2 /\ s.images[1] # s.images[2]
      /\ \E y \in a.first..a.last : all[y].image = s.images[2]
  BY <1>1, <1>3, BothImages
<1>6. \E x \in b.first..b.last : all[x].image = s.images[1]
  BY <1>1, <1>4, BothImages
<1>7. PICK x \in b.first..b.last, y \in a.first..a.last :
        all[x].image = s.images[1] /\ all[y].image = s.images[2]
  BY <1>5, <1>6
<1>8. p \in DOMAIN all /\ q \in DOMAIN all /\ x \in DOMAIN all /\ y \in DOMAIN all
  BY <1>1, <1>2, <1>3, <1>4
<1>9. x < y /\ p < q
  BY <1>5, <1>7, <1>8, TilesInOrder
<1>10. a.first <= p /\ p <= a.last /\ b.first <= q /\ q <= b.last
       /\ b.first <= x /\ x <= b.last /\ a.first <= y /\ y <= a.last
       /\ p \in Int /\ q \in Int /\ x \in Int /\ y \in Int
  BY <1>1, <1>3, <1>4
<1> QED BY <1>3, <1>4, <1>9, <1>10

Slices(slice, all, x, y) ==
  slice \in Seq(Tile) /\ \A p \in x..y : \E t \in DOMAIN slice : slice[t] = all[p]

LEMMA SliceHolds ==
  ASSUME NEW all \in Seq(Tile), NEW x \in Nat, NEW y \in Nat, 1 <= x, y <= Len(all)
  PROVE  Slices(SubSeq(all, x, y), all, x, y)
<1>1. Len(all) \in Nat /\ \A i \in x..y : all[i] \in Tile
  BY LenProperties, ElementOfSeq
<1>2. PICK slice : slice = SubSeq(all, x, y)
  OBVIOUS
<1>3. /\ slice \in Seq(Tile) /\ Len(slice) = IF x <= y THEN y - x + 1 ELSE 0
      /\ \A i \in 1..(y - x + 1) : slice[i] = all[x + i - 1]
  BY <1>1, <1>2, SubSeqProperties
<1>4. ASSUME NEW p \in x..y PROVE \E t \in DOMAIN slice : slice[t] = all[p]
  <2>1. PICK t \in 1..(y - x + 1) : x + t - 1 = p
    OBVIOUS
  <2>2. t \in DOMAIN slice
    BY <1>3, <2>1, LenProperties
  <2> QED BY <1>3, <2>1, <2>2
<1>5. Slices(slice, all, x, y)
  BY <1>3, <1>4 DEF Slices
<1> QED BY <1>2, <1>5

(* An object that the tile of a window shows whole is in the report of the *)
(* batch with that tile.                                                   *)
LEMMA BatchReports ==
  ASSUME NEW s, Grounding!SceneTyped(s), NEW all, all = Grounding!SceneTiles(s),
         NEW x \in Nat, NEW y \in Nat, 1 <= x, y <= Len(all),
         NEW w \in Grounding!Box,
         NEW p \in x..y, all[p] = [image |-> s.images[1], window |-> w],
         s.entry \in CrossModels =>
           \E q \in x..y : all[q] = [image |-> s.images[2], window |-> w],
         NEW o, o \in Grounding!Range(s.objects), Grounding!Within(o.box, w)
  PROVE  Named(Grounding!Nms(Grounding!RawDetections(s, SubSeq(all, x, y))), o)
<1>1. PICK slice : slice = SubSeq(all, x, y)
  OBVIOUS
<1>2. all \in Seq(Tile)
  BY TilesHold
<1>3. slice \in Seq(Tile) /\ \A i \in x..y : \E t \in DOMAIN slice : slice[t] = all[i]
  <2>1. Slices(slice, all, x, y)
    BY <1>1, <1>2, SliceHolds
  <2> QED BY <2>1 DEF Slices
<1>4. PICK t \in DOMAIN slice : slice[t] = [image |-> s.images[1], window |-> w]
  BY <1>3
<1>5. s.entry \in CrossModels =>
        \E u \in DOMAIN slice : slice[u] = [image |-> s.images[2], window |-> w]
  BY <1>3
<1>6. Named(Grounding!Nms(Grounding!RawDetections(s, slice)), o)
  BY <1>3, <1>4, <1>5, BatchNames
<1> QED BY <1>1, <1>6

LEMMA MergedNames ==
  ASSUME NEW lists \in Seq(Seq(Detection)), NEW k \in DOMAIN lists, NEW o, Named(lists[k], o),
         NEW dets, dets = Grounding!Merged(lists)
  PROVE  \E d \in Grounding!Range(dets) :
           /\ d.label = o.label /\ d.score >= o.score
           /\ d.box = o.box \/ Grounding!SameThing(d.box, o.box)
<1>1. dets = Facts!FlattenSeq(lists)
  BY SameJoin DEF Grounding!Merged
<1>2. Facts!HoldsAll(dets, lists)
  BY <1>1, Facts!JoinedHold
<1>3. PICK list : list = lists[k]
  OBVIOUS
<1>4. PICK j \in DOMAIN list : /\ list[j].label = o.label /\ list[j].score >= o.score
                               /\ list[j].box = o.box \/ Grounding!SameThing(list[j].box, o.box)
  BY <1>3 DEF Named
<1>5. PICK p \in DOMAIN dets : dets[p] = list[j]
  BY <1>2, <1>3, <1>4 DEF Facts!HoldsAll
<1> QED BY <1>4, <1>5 DEF Grounding!Range

LEMMA ObjectsHold ==
  ASSUME SceneInv, ReportInv
  PROVE  Grounding!ObjectsReported
<1> DEFINE There(o) == \E d \in Grounding!Range(found.detections) :
             /\ d.label = o.label /\ d.score >= o.score
             /\ d.box = o.box \/ Grounding!SameThing(d.box, o.box)
           Lost(o) == /\ ladder.warnings > 0
                      /\ \E i \in ladder.dropped : Grounding!Within(o.box, tiles[i].window)
<1>1. SUFFICES ASSUME found # Grounding!NoEvidence,
                      NEW o \in Grounding!Range(scene.objects), Grounding!Fits(scene, o)
               PROVE  There(o) \/ Lost(o)
  BY DEF Grounding!ObjectsReported
<1> HIDE DEF There, Lost
<1>2. PICK s, all, l, lists :
        s = scene /\ all = tiles /\ l = ladder /\ lists = partial
  OBVIOUS
<1>3. /\ Grounding!SceneTyped(s) /\ all = Grounding!SceneTiles(s) /\ l.request = Grounding!RequestFor(s)
      /\ Facts!LadderInv(l) /\ l.status \in {"answered", "empty"} /\ lists \in Seq(Seq(Detection))
      /\ DOMAIN lists = DOMAIN l.partial
      /\ found.detections = IF lists = <<>> THEN <<>> ELSE Grounding!Merged(lists)
      /\ o \in Grounding!Range(s.objects) /\ Grounding!Fits(s, o)
  BY <1>1, <1>2 DEF SceneInv, ReportInv
<1>4. \A k \in DOMAIN l.partial :
        /\ lists[k] = Grounding!Nms(Grounding!RawDetections(s, SubSeq(all, l.partial[k].first, l.partial[k].last)))
        /\ Grounding!Accepted(l, l.partial[k])
  BY <1>2, <1>3 DEF ReportInv, Noted, BatchTiles
<1>5. /\ l \in Facts!LadderRecord
      /\ \A p \in 1..Len(l.request.tiles) :
           \/ p \in l.dropped
           \/ \E k \in DOMAIN l.partial : p \in l.partial[k].first..l.partial[k].last
  BY <1>3, Facts!EndsComplete
<1>6. Len(l.request.tiles) = Len(all) /\ DOMAIN all = 1..Len(all)
  BY <1>3, RequestNamesImages
<1>7. PICK windows : windows = Grounding!SceneWindows(s)
  OBVIOUS
<1>8. /\ windows \in Seq(Grounding!Box) /\ s.images \in Seq(Images) /\ s.images # <<>>
      /\ TilesAre(all, s.images, windows)
  BY <1>3, <1>7, TilesHold
<1>9. PICK i \in DOMAIN windows : Grounding!Within(o.box, windows[i])
  BY <1>3, <1>7, SomeWindowShows
<1>10. PICK w \in Grounding!Box : w = windows[i]
  BY <1>8, <1>9
<1>11. ASSUME NEW p \in l.dropped, all[p].window = w
       PROVE  Lost(o)
  <2>1. l # Facts!Idle
    BY <1>5, Facts!RecordNotIdle
  <2>2. l.warnings > 0
    BY <1>3, <1>11, <2>1, Facts!DropWarns
  <2> QED BY <1>2, <1>9, <1>10, <1>11, <2>2 DEF Lost
<1>12. ASSUME NEW k \in DOMAIN l.partial, Named(lists[k], o)
       PROVE  There(o)
  <2>1. lists # <<>> /\ k \in DOMAIN lists
    BY <1>3
  <2>2. PICK dets : dets = Grounding!Merged(lists)
    OBVIOUS
  <2>3. found.detections = dets
    BY <1>3, <2>1, <2>2
  <2> QED BY <1>3, <1>12, <2>1, <2>2, <2>3, MergedNames DEF There
<1>13. 1 \in DOMAIN s.images /\ (s.entry \in CrossModels => 2 \in DOMAIN s.images)
  <2>1. PICK images \in Seq(Images) : images = s.images
    BY <1>8
  <2>2. images # <<>> /\ DOMAIN images = 1..Len(images) /\ Len(images) \in Nat
    BY <1>8, <2>1, LenProperties
  <2>3. s.entry \in CrossModels => Len(images) = 2
    BY <1>3, <2>1 DEF Grounding!SceneTyped
  <2>4. Len(images) # 0
    BY <2>1, <2>2, EmptySeq
  <2>5. 1 \in DOMAIN images /\ (s.entry \in CrossModels => 2 \in DOMAIN images)
    BY <2>2, <2>3, <2>4
  <2> QED BY <2>1, <2>5
<1>14. PICK p \in DOMAIN all : all[p] = [image |-> s.images[1], window |-> w]
  BY <1>8, <1>9, <1>10, <1>13 DEF TilesAre
<1>15. CASE p \in l.dropped
  BY <1>11, <1>14, <1>15
<1>16. ASSUME NEW j \in DOMAIN l.partial, p \in l.partial[j].first..l.partial[j].last
       PROVE  There(o) \/ Lost(o)
  <2>1. PICK x \in Nat, y \in Nat : /\ x = l.partial[j].first /\ y = l.partial[j].last
                                    /\ 1 <= x /\ y <= Len(all)
    BY <1>3, <1>5, <1>6, Facts!BatchesFollow
  <2>2. ASSUME s.entry \in CrossModels => \E q \in x..y : all[q] = [image |-> s.images[2], window |-> w]
        PROVE  There(o)
    <3>1. Named(Grounding!Nms(Grounding!RawDetections(s, SubSeq(all, x, y))), o)
      BY <1>3, <1>9, <1>10, <1>14, <1>16, <2>1, <2>2, BatchReports
    <3> QED BY <1>4, <1>12, <2>1, <3>1
  <2>3. CASE s.entry \notin CrossModels
    BY <2>2, <2>3
  <2>4. CASE s.entry \in CrossModels
    <3>1. PICK q \in DOMAIN all : all[q] = [image |-> s.images[2], window |-> w]
      BY <1>8, <1>9, <1>10, <1>13, <2>4 DEF TilesAre
    <3>2. CASE q \in l.dropped
      BY <1>11, <3>1, <3>2
    <3>3. ASSUME NEW k \in DOMAIN l.partial, q \in l.partial[k].first..l.partial[k].last
          PROVE  There(o)
      <4>1. /\ all[p].image = s.images[1] /\ all[q].image = s.images[2]
            /\ Grounding!Accepted(l, l.partial[j]) /\ Grounding!Accepted(l, l.partial[k])
        BY <1>4, <1>14, <3>1
      <4>2. j = k
        BY <1>3, <1>5, <1>16, <2>4, <3>3, <4>1, PairInOneBatch
      <4> QED BY <2>1, <2>2, <3>1, <3>3, <4>2
    <3> QED BY <1>5, <1>6, <3>1, <3>2, <3>3
  <2> QED BY <2>3, <2>4
<1> QED BY <1>5, <1>6, <1>14, <1>15, <1>16

(* And without a warning the answer counts no more than there is to see. A *)
(* box shows the same thing as itself, so a report that names nothing      *)
(* twice names no object twice: each entry is an object's, by label and    *)
(* place, when the detector does not split objects.                        *)
LEMMA SameAsItself ==
  ASSUME NEW b \in Grounding!Box, b.x0 < b.x1, b.y0 < b.y1, IouPct < 100
  PROVE  Grounding!SameThing(b, b)
<1>1. /\ b.x0 \in Nat /\ b.x1 \in Nat /\ b.y0 \in Nat /\ b.y1 \in Nat
      /\ b = [x0 |-> b.x0, x1 |-> b.x1, y0 |-> b.y0, y1 |-> b.y1]
  BY DEF Grounding!Box
<1>2. Grounding!Clipped(b, b) = b
  BY <1>1 DEF Grounding!Clipped, Grounding!Larger, Grounding!Smaller
<1>3. PICK x \in Nat \ {0}, y \in Nat \ {0} : x = b.x1 - b.x0 /\ y = b.y1 - b.y0
  BY <1>1
<1>4. Grounding!Area(b) = x * y
  BY <1>3 DEF Grounding!Area, Grounding!Larger
<1>5. PICK a \in Nat \ {0} : a = x * y
  <2>1. x * y \in Nat /\ x * y > 0
    BY <1>3
  <2> QED BY <2>1
<1>6. IouPct * a < 100 * a
  <2>1. PICK t \in Nat, r \in Nat \ {0} : t = IouPct /\ t + r = 100
    <3>1. IouPct \in Nat /\ 100 - IouPct \in Nat \ {0}
      BY SettingsAssumption
    <3> QED BY <3>1
  <2>2. (t + r) * a = t * a + r * a /\ r * a > 0 /\ t * a \in Nat
    OBVIOUS
  <2> QED BY <2>1, <2>2
<1>7. a + a - a > 0 /\ a + a - a = a
  OBVIOUS
<1> QED BY <1>2, <1>4, <1>5, <1>6, <1>7 DEF Grounding!SameThing

LEMMA CountsNoMore ==
  ASSUME NEW s, Grounding!SceneTyped(s), ~s.cuts, IouPct < 100, NEW batch \in Seq(Tile),
         NEW dets, dets = Grounding!Nms(Grounding!RawDetections(s, batch))
  PROVE  Len(dets) <= Len(s.objects)
<1>1. PICK raw, looked, objects :
        raw = Grounding!RawDetections(s, batch) /\ looked = Grounding!Looked(s, batch) /\ objects = s.objects
  OBVIOUS
<1>2. raw \in Seq(Detection) /\ Shown(s, objects, looked, raw)
  BY <1>1, DetectionsHold
<1>3. looked \in Seq(Grounding!Box) /\ objects \in Seq(Grounding!Thing)
  BY <1>1, LookedHolds DEF Grounding!SceneTyped
<1>4. /\ dets \in Seq(Detection)
      /\ \A i, j \in DOMAIN dets : i # j => ~Grounding!Suppresses(dets[i], dets[j])
      /\ \A j \in DOMAIN dets : \E i \in DOMAIN raw : dets[j] = raw[i]
  BY <1>1, <1>2, NmsHolds
<1>5. PICK m \in Nat, n \in Nat : /\ m = Len(dets) /\ DOMAIN dets = 1..m
                                  /\ n = Len(objects) /\ DOMAIN objects = 1..n
  BY <1>3, <1>4, LenProperties
<1>6. ASSUME NEW k \in 1..n
      PROVE  objects[k] \in Grounding!Thing /\ Grounding!SameThing(objects[k].box, objects[k].box)
  <2>1. PICK o \in Grounding!Thing : o = objects[k]
    BY <1>3, <1>5, ElementOfSeq
  <2>2. o \in Grounding!Range(s.objects)
    BY <1>1, <1>5, <2>1 DEF Grounding!Range
  <2>3. o.box.x0 < o.box.x1 /\ o.box.y0 < o.box.y1
    BY <2>2 DEF Grounding!SceneTyped
  <2>4. o.box \in Grounding!Box
    BY DEF Grounding!Thing
  <2> QED BY <2>1, <2>3, <2>4, SameAsItself
<1> DEFINE Of(j, k) == dets[j].label = objects[k].label /\ dets[j].box = objects[k].box
<1>7. ASSUME NEW j \in 1..m PROVE \E k \in 1..n : Of(j, k)
  <2>1. PICK i \in DOMAIN raw : dets[j] = raw[i]
    BY <1>4, <1>5
  <2>2. PICK p \in DOMAIN looked, k \in 1..n :
          /\ Grounding!Visible(s, objects[k], looked[p])
          /\ raw[i] = Grounding!InScene(Sight(objects[k], looked[p]), looked[p])
    <3>1. \E p \in DOMAIN looked, k \in DOMAIN objects :
            /\ Grounding!Visible(s, objects[k], looked[p])
            /\ raw[i] = Grounding!InScene(Sight(objects[k], looked[p]), looked[p])
      BY Zenon, <1>2 DEF Shown
    <3> QED BY Zenon, <1>5, <3>1
  <2>3. PICK w \in Grounding!Box : w = looked[p]
    BY <1>3, <2>2, LenProperties, ElementOfSeq
  <2>4. PICK o \in Grounding!Thing : o = objects[k]
    BY <1>6
  <2>5. Grounding!Within(o.box, w)
    BY <2>2, <2>3, <2>4 DEF Grounding!Visible
  <2>6. raw[i] = [label |-> o.label, box |-> o.box, score |-> o.score]
    BY <2>2, <2>3, <2>4, <2>5, WholeSight
  <2> QED BY <2>1, <2>4, <2>6
<1>8. PICK f : f = [j \in 1..m |-> CHOOSE k \in 1..n : Of(j, k)]
  OBVIOUS
<1>9. f \in [1..m -> 1..n] /\ \A j \in 1..m : Of(j, f[j])
  <2> HIDE DEF Of
  <2> QED BY <1>7, <1>8
<1>10. ASSUME NEW i \in 1..m, NEW j \in 1..m, f[i] = f[j] PROVE i = j
  <2>1. PICK k \in 1..n : k = f[i] /\ k = f[j]
    BY <1>9, <1>10
  <2>2. Of(i, k) /\ Of(j, k)
    <3> HIDE DEF Of
    <3> QED BY <1>9, <2>1
  <2>3. Grounding!Suppresses(dets[i], dets[j])
    BY <1>6, <2>2 DEF Grounding!Suppresses
  <2> QED BY <1>4, <1>5, <2>3
<1>11. m <= n
  BY <1>9, <1>10, Facts!NoLonger
<1> QED BY <1>1, <1>5, <1>11

(* Without a warning all tiles were in one batch, which found something.   *)
LEMMA OneBatchReports ==
  ASSUME SceneInv, ReportInv, found # Grounding!NoEvidence, ladder.warnings = 0
  PROVE  \E batch \in Seq(Tile) :
           found.detections = Grounding!Nms(Grounding!RawDetections(scene, batch))
<1>1. PICK l, lists, all : l = ladder /\ lists = partial /\ all = tiles
  OBVIOUS
<1>2. /\ Facts!LadderInv(l) /\ l.status \in {"answered", "empty"} /\ l.warnings = 0
      /\ lists \in Seq(Seq(Detection)) /\ DOMAIN lists = DOMAIN l.partial
      /\ found.detections = IF lists = <<>> THEN <<>> ELSE Grounding!Merged(lists)
      /\ Grounding!SceneTyped(scene) /\ all = Grounding!SceneTiles(scene)
      /\ l.request = Grounding!RequestFor(scene)
  BY <1>1 DEF SceneInv, ReportInv
<1>3. PICK n : n = Len(l.request.tiles)
  OBVIOUS
<1>4. all \in Seq(Tile) /\ n = Len(all) /\ n \in Nat
  BY <1>2, <1>3, TilesOfRequest, LenProperties
<1>5. l.partial = << [first |-> 1, last |-> n, quant |-> Quantization[l.request.entry]] >>
  BY <1>2, <1>3, Facts!UnwarnedIsWhole
<1>6. DOMAIN l.partial = {1} /\ l.partial[1].first = 1 /\ l.partial[1].last = n
  BY <1>5
<1>7. PICK list \in Seq(Detection) : lists = <<list>>
  <2>1. 1 \in DOMAIN lists /\ Len(lists) \in Nat /\ DOMAIN lists = 1..Len(lists)
    BY <1>2, <1>6, LenProperties
  <2>2. lists[1] \in Seq(Detection)
    BY <1>2, <2>1, ElementOfSeq
  <2>3. lists = <<lists[1]>>
    BY <1>2, <1>6
  <2> QED BY <2>2, <2>3
<1>8. found.detections = list
  <2>1. Grounding!Merged(lists) = Facts!FlattenSeq(lists)
    BY SameJoin DEF Grounding!Merged
  <2>2. Facts!FlattenSeq(<<list>>) = list
    BY Facts!JoinOfFew
  <2> QED BY <1>2, <1>7, <2>1, <2>2
<1>9. list = Grounding!Nms(Grounding!RawDetections(scene, SubSeq(all, 1, n)))
  BY <1>1, <1>2, <1>6, <1>7 DEF ReportInv, Noted, BatchTiles
<1>10. SubSeq(all, 1, n) \in Seq(Tile)
  <2>1. \A i \in 1..n : all[i] \in Tile
    BY <1>4, ElementOfSeq
  <2> QED BY <1>4, <2>1, SubSeqProperties
<1> QED BY <1>8, <1>9, <1>10
-----------------------------------------------------------------------------
(* What the parts hand over is well-formed evidence.                       *)
LEMMA NearestIsInt ==
  ASSUME NEW x \in Int, NEW unit \in Nat \ {0}
  PROVE  Gate!Nearest(x, unit) \in Int
<1>1. \A a \in Int, b \in Int : a * b \in Int
  OBVIOUS
<1>2. PICK q : q = x \div unit
  OBVIOUS
<1>3. q \in Int
  BY <1>2
<1>4. Gate!Nearest(x, unit) \in {unit * (q + 1), unit * q}
  BY <1>2 DEF Gate!Nearest
<1> QED BY <1>1, <1>3, <1>4

LEMMA MeanIsInt ==
  ASSUME NEW scores \in Seq(Int), scores # <<>>
  PROVE  MeanOf(scores) \in Int
<1>1. PICK n \in Nat \ {0} : n = Len(scores) /\ DOMAIN scores = 1..n /\ \A i \in 1..n : scores[i] \in Int
  <2>1. Len(scores) # 0
    BY EmptySeq
  <2> QED BY <2>1
<1>2. Gate!SumFunction(scores) \in Int
  <2>1. IsFiniteSet(1..n)
    BY FS_Interval
  <2>2. Facts!SumFunctionOnSet(scores, 1..n) \in Int
    BY <1>1, <2>1, Facts!SumTakesAny, SameCardinality
  <2> QED BY <1>1, <2>2, SameSums
<1>3. PICK total \in Int : total = Gate!SumFunction(scores)
  BY <1>2
<1>4. PICK rounded \in Int : rounded = Gate!Nearest(total, n)
  BY NearestIsInt
<1>5. MeanOf(scores) = rounded \div n
  BY <1>1, <1>3, <1>4 DEF MeanOf, Gate!MeanScore
<1> QED BY <1>5

ScoresOf(dets) == [i \in DOMAIN dets |-> dets[i].score]

LEMMA ScoresHold ==
  ASSUME NEW dets \in Seq(Detection)
  PROVE  /\ ScoresOf(dets) \in Seq(Int)
         /\ dets # <<>> => ScoresOf(dets) # <<>>
<1>1. PICK n \in Nat : n = Len(dets) /\ DOMAIN dets = 1..n /\ \A i \in 1..n : dets[i] \in Detection
  OBVIOUS
<1>2. \A d \in Detection : d.score \in Int
  BY DEF Detection
<1>3. ScoresOf(dets) \in [1..n -> Int]
  BY <1>1, <1>2 DEF ScoresOf
<1>4. ScoresOf(dets) \in Seq(Int) /\ Len(ScoresOf(dets)) = n
  BY <1>3
<1>5. dets # <<>> => n # 0
  BY <1>1, EmptySeq
<1> QED BY <1>4, <1>5

(* The confidence of a query for objects is a number, if there is one.     *)
LEMMA MeansHold ==
  ASSUME NEW lists \in Seq(Seq(Detection)),
         NEW hits, hits = Grounding!ElementsAt(lists, {b \in DOMAIN lists : lists[b] # <<>>}),
         hits # <<>>
  PROVE  MeanOf([b \in DOMAIN hits |-> MeanOf(ScoresOf(hits[b]))]) \in Int
<1>1. PICK I \in SUBSET (1..Len(lists)) : I = {b \in DOMAIN lists : lists[b] # <<>>}
  <2>1. DOMAIN lists = 1..Len(lists)
    BY LenProperties
  <2> QED BY <2>1
<1>2. hits = Facts!ElementsAt(lists, I)
  BY <1>1, SameSublist
<1>3. hits \in Seq(Seq(Detection)) /\ Len(hits) \in Nat /\ \E at : Facts!Picks(at, hits, lists, I)
  BY <1>2, Facts!SublistPicks
<1>4. PICK at : Facts!Picks(at, hits, lists, I)
  BY <1>3
<1>5. PICK n \in Nat \ {0} : n = Len(hits) /\ DOMAIN hits = 1..n /\ \A b \in 1..n : hits[b] \in Seq(Detection)
  <2>1. Len(hits) \in Nat \ {0} /\ DOMAIN hits = 1..Len(hits)
    BY <1>3, EmptySeq, LenProperties
  <2>2. \A b \in 1..Len(hits) : hits[b] \in Seq(Detection)
    BY <1>3, <2>1, ElementOfSeq
  <2> QED BY <2>1, <2>2
<1>6. \A b \in 1..n : hits[b] # <<>>
  <2> TAKE b \in 1..n
  <2>1. at[b] \in I /\ hits[b] = lists[at[b]]
    BY <1>4, <1>5 DEF Facts!Picks
  <2> QED BY <1>1, <2>1
<1>7. \A b \in 1..n : MeanOf(ScoresOf(hits[b])) \in Int
  BY <1>5, <1>6, ScoresHold, MeanIsInt
<1>8. PICK means : means = [b \in DOMAIN hits |-> MeanOf(ScoresOf(hits[b]))]
  OBVIOUS
<1>9. means \in [1..n -> Int]
  BY <1>5, <1>7, <1>8
<1>10. means \in Seq(Int) /\ means # <<>>
  <2>1. means \in Seq(Int) /\ Len(means) = n
    BY <1>9
  <2> QED BY <2>1
<1> QED BY <1>8, <1>10, MeanIsInt

LEMMA GroundingWellFormed ==
  ASSUME SceneInv, found # Grounding!NoEvidence
  PROVE  Gate!WellFormed(GroundingEvidence)
<1>1. found.detections \in Seq(Detection) /\ partial \in Seq(Seq(Detection))
  BY DEF SceneInv, Reported
<1>2. PICK scores \in Seq(Int) : scores = ScoresOf(found.detections)
  BY <1>1, ScoresHold
<1>3. PICK hits : hits = Grounding!ElementsAt(partial, {b \in DOMAIN partial : partial[b] # <<>>})
  OBVIOUS
<1>4. PICK conf : conf = IF hits = <<>> THEN Gate!Absent
                         ELSE [value |-> MeanOf([b \in DOMAIN hits |-> MeanOf(ScoresOf(hits[b]))])]
  OBVIOUS
<1>5. conf # Gate!Absent => conf.value \in Int
  <2>1. CASE hits = <<>>
    BY <1>4, <2>1
  <2>2. CASE hits # <<>>
    <3>1. MeanOf([b \in DOMAIN hits |-> MeanOf(ScoresOf(hits[b]))]) \in Int
      BY <1>1, <1>3, <2>2, MeansHold
    <3> QED BY <1>4, <2>2, <3>1
  <2> QED BY <2>1, <2>2
<1>6. PICK task \in {"OPTICAL_SAR_FUSION", "GROUNDING"} :
        task = IF scene.entry \in CrossModels THEN "OPTICAL_SAR_FUSION" ELSE "GROUNDING"
  OBVIOUS
<1>7. PICK n, warnings : n = ladder.warnings + (Len(partial) - Len(hits)) /\ warnings = Caveat(n)
  OBVIOUS
<1>8. PICK e : e = GroundingEvidence
  OBVIOUS
<1>9. e = [task |-> task, scores |-> scores, change |-> Gate!Absent, vqa |-> Gate!Absent,
           stats |-> <<>>, conf |-> conf, warnings |-> warnings]
  BY <1>2, <1>3, <1>4, <1>6, <1>7, <1>8 DEF GroundingEvidence, NoSource, ScoresOf
<1>10. \A w \in warnings : w.numbers = {}
  BY <1>7 DEF Caveat
<1>11. Gate!Said(e) = {} /\ Gate!CaveatNumbers(e) = {}
  BY <1>9, <1>10 DEF Gate!Said, Gate!CaveatNumbers
<1>12. e.scores # <<>> => Gate!MeanScore(e) \in Int
  <2>1. Gate!MeanScore(e) = MeanOf(scores)
    BY <1>9 DEF MeanOf, Gate!MeanScore
  <2> QED BY <1>9, <2>1, MeanIsInt
<1>13. Gate!Range(e.stats) \subseteq Int
  BY <1>9 DEF Gate!Range
<1>14. e.task # "CHANGE_DETECTION"
  BY <1>9
<1>15. e.scores \in Seq(Int) /\ e.change = Gate!Absent /\ (e.conf # Gate!Absent => e.conf.value \in Int)
  BY <1>5, <1>9
<1> QED BY <1>8, <1>11, <1>12, <1>13, <1>14, <1>15 DEF Gate!WellFormed

(* And of a pair: what was refused or could not be compared says nothing.  *)
LEMMA ChangeWellFormed ==
  ASSUME PairInv, stage = "done"
  PROVE  /\ Gate!WellFormed(ChangeEvidence)
         /\ measured.source = "refused" => Gate!Reason(ChangeEvidence) = "alignment"
<1>1. measured.source \in {"refused", "nothing", "sum", "mosaic"}
  BY DEF PairInv
<1>2. PICK e : e = ChangeEvidence
  OBVIOUS
<1>3. CASE measured.source = "refused"
  <2>1. PICK w : w = [kind |-> "co-registration", numbers |-> {}]
    OBVIOUS
  <2>2. e = [task |-> "CHANGE_DETECTION", scores |-> <<>>, change |-> Gate!Absent, vqa |-> Gate!Absent,
             stats |-> <<>>, conf |-> Gate!Absent, warnings |-> {w}]
    BY <1>2, <1>3, <2>1 DEF ChangeEvidence, NoSource
  <2>3. Gate!Marked(e, "co-registration")
    BY <2>1, <2>2 DEF Gate!Marked
  <2>4. Gate!Reason(e) = "alignment"
    BY <2>2, <2>3 DEF Gate!Reason
  <2>5. Gate!Said(e) = {} /\ Gate!CaveatNumbers(e) = {}
    BY <2>1, <2>2 DEF Gate!Said, Gate!CaveatNumbers
  <2>6. e.scores \in Seq(Int) /\ Gate!Range(e.stats) \subseteq Int
    BY <2>2 DEF Gate!Range
  <2>7. Gate!WellFormed(e)
    BY <2>2, <2>4, <2>5, <2>6 DEF Gate!WellFormed
  <2> QED BY <1>2, <2>4, <2>7
<1>4. CASE measured.source = "nothing"
  <2>1. PICK warnings : warnings = Caveat(1)
    OBVIOUS
  <2>2. e = [task |-> "CHANGE_DETECTION", scores |-> <<>>, change |-> Gate!Absent, vqa |-> Gate!Absent,
             stats |-> <<>>, conf |-> Gate!Absent, warnings |-> warnings]
    BY <1>2, <1>4, <2>1 DEF ChangeEvidence, NoSource
  <2>3. \A w \in warnings : w.numbers = {}
    BY <2>1 DEF Caveat
  <2>4. Gate!Reason(e) # "none"
    BY <2>2 DEF Gate!Reason, Gate!NoSignal
  <2>5. Gate!Said(e) = {} /\ Gate!CaveatNumbers(e) = {}
    BY <2>2, <2>3 DEF Gate!Said, Gate!CaveatNumbers
  <2>6. e.scores \in Seq(Int) /\ Gate!Range(e.stats) \subseteq Int
    BY <2>2 DEF Gate!Range
  <2>7. Gate!WellFormed(e)
    BY <2>2, <2>4, <2>5, <2>6 DEF Gate!WellFormed
  <2> QED BY <1>2, <1>4, <2>7
<1>5. CASE measured.source \in {"sum", "mosaic"}
  <2>1. measured.px \in Nat /\ measured.total \in Nat \ {0}
    <3>1. Change!Measured
      BY <1>5 DEF Change!Measured, Change!NoAnswer
    <3> QED BY <3>1 DEF PairInv
  <2>2. ChangeConfidence \in Int
    BY PairsAssumption
  <2>3. PICK px \in Int : px = Gate!One * measured.px
    BY <2>1 DEF Gate!One
  <2>4. PICK pct \in Int : pct = AreaPct
    <3>1. PICK x \in Int : x = Gate!Percent(Gate!One) * measured.px
      BY <2>1 DEF Gate!Percent, Gate!One
    <3>2. AreaPct = x \div measured.total
      BY <3>1 DEF AreaPct
    <3> QED BY <2>1, <3>1, <3>2
  <2>5. PICK shown \in Int : shown = Gate!Fmt(pct)
    BY <2>4, NearestIsInt DEF Gate!Fmt
  <2>6. PICK sure \in Int : sure = Gate!Percent(ChangeConfidence)
    BY <2>2 DEF Gate!Percent
  <2>7. PICK change, vqa, warnings, n :
          /\ change = [px |-> px, pct |-> pct, conf |-> ChangeConfidence]
          /\ vqa = IF pair.engine = "model" THEN Gate!Absent ELSE [numbers |-> {px, shown, sure}]
          /\ n = Cardinality(matched \ Change!Computed(pair, matched))
          /\ warnings = Caveat(n)
    OBVIOUS
  <2>8. e = [task |-> "CHANGE_DETECTION", scores |-> <<>>, change |-> change, vqa |-> vqa,
             stats |-> <<>>, conf |-> [value |-> ChangeConfidence], warnings |-> warnings]
    BY <1>2, <1>5, <2>3, <2>4, <2>5, <2>6, <2>7 DEF ChangeEvidence, NoSource
  <2>9. \A w \in warnings : w.numbers = {}
    BY <2>7 DEF Caveat
  <2>10. Gate!Said(e) \subseteq Int /\ Gate!CaveatNumbers(e) = {}
    <3>1. vqa # Gate!Absent => vqa.numbers \subseteq Int
      BY <2>7
    <3>2. e.vqa = vqa /\ e.warnings = warnings
      BY <2>8
    <3>3. Gate!Said(e) \subseteq Int
      BY <3>1, <3>2 DEF Gate!Said
    <3> QED BY <2>9, <3>2, <3>3 DEF Gate!CaveatNumbers
  <2>11. e.scores \in Seq(Int) /\ Gate!Range(e.stats) \subseteq Int
    BY <2>8 DEF Gate!Range
  <2>12. e.change.px \in Int /\ e.change.pct \in Int /\ e.change.conf \in Int /\ e.change # Gate!Absent
    BY <2>2, <2>7, <2>8 DEF Gate!Absent
  <2>13. Gate!WellFormed(e)
    BY <2>2, <2>8, <2>10, <2>11, <2>12 DEF Gate!WellFormed
  <2> QED BY <1>2, <1>5, <2>13
<1> QED BY <1>1, <1>3, <1>4, <1>5
-----------------------------------------------------------------------------
(* An answer is an abstention exactly when there is a reason for one, and  *)
(* it names that reason.                                                   *)
ReasonGiven ==
  response # Gate!Absent =>
    IF Gate!Reason(evidence) = "none" THEN ~response.abstained
    ELSE response.abstained /\ response.reason = Gate!Reason(evidence)

LEMMA DeliberateOK ==
  ASSUME AnswerInv, ReasonGiven, Gate!Deliberate
  PROVE  AnswerInv' /\ ReasonGiven' /\ UNCHANGED evidence /\ evidence # Gate!Absent
<1>1. CASE Gate!Abstain
  <2>1. AnswerInv'
    BY <1>1, AbstainOK
  <2> QED BY <1>1, <2>1 DEF Gate!Abstain, ReasonGiven
<1>2. CASE Gate!ClientRaises \/ Gate!ClientSendsNoFormat
  <2>1. /\ Gate!Explaining /\ UNCHANGED <<evidence, text, response>>
    BY <1>2 DEF Gate!ClientRaises, Gate!ClientSendsNoFormat
  <2>2. response = Gate!Absent
    BY <2>1 DEF Gate!Explaining, AnswerInv, Progress
  <2>3. AnswerInv'
    BY <2>1, <2>2, FailedCallOK
  <2> QED BY <2>1, <2>2, <2>3 DEF ReasonGiven, Gate!Explaining
<1>3. CASE Gate!ClientWrites
  <2>1. Gate!Explaining /\ UNCHANGED <<evidence, response>>
    BY <1>3 DEF Gate!ClientWrites
  <2>2. response = Gate!Absent
    BY <2>1 DEF Gate!Explaining, AnswerInv, Progress
  <2>3. AnswerInv'
    BY <1>3, <2>2, ClientWritesOK
  <2> QED BY <2>1, <2>2, <2>3 DEF ReasonGiven, Gate!Explaining
<1>4. CASE Gate!FallBack
  <2>1. Gate!Explaining /\ UNCHANGED <<evidence, response>>
    BY <1>4 DEF Gate!FallBack
  <2>2. response = Gate!Absent
    BY <2>1 DEF Gate!Explaining, AnswerInv, Progress
  <2>3. AnswerInv'
    BY <1>4, <2>2, FallBackOK
  <2> QED BY <2>1, <2>2, <2>3 DEF ReasonGiven, Gate!Explaining
<1>5. CASE Gate!Respond
  <2>1. AnswerInv'
    BY <1>5, RespondOK
  <2>2. text # Gate!Absent /\ UNCHANGED evidence /\ ~response'.abstained
    BY <1>5 DEF Gate!Respond
  <2>3. Gate!Reason(evidence) = "none" /\ evidence # Gate!Absent
    BY <2>2 DEF AnswerInv, Progress
  <2> QED BY <2>1, <2>2, <2>3 DEF ReasonGiven
<1> QED BY <1>1, <1>2, <1>3, <1>4, <1>5 DEF Gate!Deliberate

(* Rounding to the fourth decimal moves a value by half of it at most.     *)
LEMMA RoundingMovesLittle ==
  ASSUME NEW x \in Int
  PROVE  /\ Gate!Nearest(x, Gate!FourthDecimal) \in Int
         /\ 2 * (Gate!Nearest(x, Gate!FourthDecimal) - x) <= Gate!FourthDecimal
<1>1. PICK q \in Int, r \in 0..9 : q = x \div 10 /\ r = x % 10 /\ x = 10 * q + r
  OBVIOUS
<1>2. CASE 2 * r > 10 \/ (2 * r = 10 /\ q % 2 = 1)
  <2>1. 2 * r >= 10
    BY <1>1, <1>2
  <2>2. Gate!Nearest(x, 10) = 10 * (q + 1)
    BY <1>1, <1>2 DEF Gate!Nearest
  <2> QED BY <1>1, <2>1, <2>2 DEF Gate!FourthDecimal
<1>3. CASE ~(2 * r > 10 \/ (2 * r = 10 /\ q % 2 = 1))
  <2>1. Gate!Nearest(x, 10) = 10 * q
    BY <1>1, <1>3 DEF Gate!Nearest
  <2> QED BY <1>1, <2>1 DEF Gate!FourthDecimal
<1> QED BY <1>2, <1>3

LEMMA WeakestSpeaks ==
  ASSUME AnswerInv
  PROVE  Gate!WeakestLinkSpeaks
<1> SUFFICES ASSUME Gate!Answered, response.band # "LOW", NEW s \in Gate!Signals(evidence)
             PROVE  2 * ((IF response.band = "HIGH" THEN Gate!High ELSE Gate!Medium) - s)
                      <= Gate!FourthDecimal
  BY DEF Gate!WeakestLinkSpeaks
<1>1. Gate!WellFormed(evidence)
  BY DEF AnswerInv, Progress, Gate!Answered
<1>2. PICK least : least = Gate!Min(Gate!Signals(evidence))
  OBVIOUS
<1>3. least \in Int /\ s \in Int /\ least <= s
  BY <1>1, <1>2, ConfidenceIsLeast
<1>4. PICK near : near = Gate!Nearest(least, Gate!FourthDecimal)
  OBVIOUS
<1>5. near \in Int /\ 2 * (near - least) <= Gate!FourthDecimal
  BY <1>3, <1>4, RoundingMovesLittle
<1>6. response.band = Gate!Band([value |-> near])
  BY <1>2, <1>4 DEF AnswerInv, BandIsWeakest, Gate!ConfidenceValue
<1>7. [value |-> near] # Gate!Absent
  BY DEF Gate!Absent
<1>8. /\ response.band = "HIGH" => near >= Gate!High
      /\ response.band = "MEDIUM" => near >= Gate!Medium
      /\ response.band \in {"HIGH", "MEDIUM", "LOW"}
  BY <1>5, <1>6, <1>7 DEF Gate!Band, Gate!High, Gate!Medium
<1> QED BY <1>3, <1>5, <1>8 DEF Gate!High, Gate!Medium, Gate!FourthDecimal
-----------------------------------------------------------------------------
(* The whole: each part keeps its invariant, whichever way the query takes *)
(* (the inputs of the other ways are any), and what is judged of a pair or *)
(* a scene is what was measured or found there.                            *)
HandedOver ==
  /\ evidence # Gate!Absent /\ kind = "change" => stage = "done" /\ evidence = ChangeEvidence
  /\ evidence # Gate!Absent /\ kind = "scene" =>
       found # Grounding!NoEvidence /\ evidence = GroundingEvidence

(* Nothing is looked for once the batches are merged.                      *)
LEMMA SearchIsOver ==
  ASSUME SceneInv, ReportInv, Grounding!SceneNext
  PROVE  found = Grounding!NoEvidence
<1>1. CASE Grounding!Tile
  BY <1>1 DEF Grounding!Tile, SceneInv
<1>2. CASE ladder.status = "running"
  BY <1>2 DEF ReportInv
<1> QED BY <1>1, <1>2 DEF Grounding!SceneNext, Grounding!Detect, Grounding!RunOut, Grounding!Fail, Grounding!Merge,
           Grounding!BatchOk, Grounding!BatchOom, Grounding!BatchRaises, Grounding!Finish

LEMMA SameEvidence ==
  ASSUME UNCHANGED sceneVars
  PROVE  GroundingEvidence' = GroundingEvidence
BY DEF sceneVars, GroundingEvidence

Inv == SceneInv /\ ReportInv /\ PairInv /\ AnswerInv /\ ReasonGiven /\ HandedOver

LEMMA SceneKept ==
  ASSUME SceneInv, UNCHANGED sceneVars
  PROVE  SceneInv'
<1> USE DEF sceneVars
<1>1. Grounding!BatchesNameOnce'
  BY DEF SceneInv, Grounding!BatchesNameOnce
<1>2. Reported(found)'
  BY DEF SceneInv, Reported
<1> QED BY <1>1, <1>2 DEF SceneInv

LEMMA PairKept ==
  ASSUME PairInv, UNCHANGED pairVars
  PROVE  PairInv'
<1> USE DEF pairVars
<1>1. Change!Measured' <=> Change!Measured
  BY DEF Change!Measured
<1>2. Change!MosaicCountsPixelsOnce'
  <2>1. PICK shown : shown = UNION {Change!Compared(pair, off) : off \in matched}
    OBVIOUS
  <2>2. shown = (UNION {Change!Compared(pair, off) : off \in matched})'
    BY <2>1
  <2>3. Change!Measured /\ measured.source = "mosaic" =>
          measured.px <= Change!Cardinality(shown) /\ measured.px <= measured.total
    BY <2>1 DEF PairInv, Change!MosaicCountsPixelsOnce
  <2> QED BY <1>1, <2>2, <2>3 DEF Change!MosaicCountsPixelsOnce
<1> QED BY <1>1, <1>2 DEF PairInv

LEMMA AnswerKept ==
  ASSUME AnswerInv, ReasonGiven, UNCHANGED gateVars
  PROVE  AnswerInv' /\ ReasonGiven'
<1> USE DEF gateVars
<1>1. Progress' /\ TextTraces'
  BY DEF AnswerInv, Progress, TextTraces
<1>2. Gate!NumbersTrace' /\ Gate!AbstentionsAskNobody'
  BY DEF AnswerInv, Gate!NumbersTrace, Gate!AbstentionsAskNobody, Gate!Answered
<1>3. BandIsWeakest' /\ Gate!CaveatsReachReader'
  BY DEF AnswerInv, BandIsWeakest, Gate!CaveatsReachReader, Gate!Answered
<1> QED BY <1>1, <1>2, <1>3 DEF AnswerInv, ReasonGiven

LEMMA InvHoldsFirst == Init => Inv
<1> SUFFICES ASSUME Init PROVE Inv
  OBVIOUS
<1>1. AnyScene \in Scenes /\ AnyPair \in Pairs
  BY ScenesAssumption, PairsAssumption DEF AnyScene, AnyPair
<1>2. SceneInv /\ ReportInv
  <2>1. PICK s \in Scenes : Grounding!Query(s)
    BY <1>1 DEF Init
  <2> QED BY <2>1, SceneBegins, ReportBegins
<1>3. PairInv
  <2>1. PICK p \in Pairs : Change!Query(p)
    BY <1>1 DEF Init
  <2> QED BY <2>1, PairBegins
<1>4. evidence = Gate!Absent /\ asked = 0 /\ text = Gate!Absent /\ response = Gate!Absent
  BY DEF Init, Gate!Configured
<1>5. AnswerInv
  BY <1>4 DEF AnswerInv, Progress, TextTraces, Gate!NumbersTrace, Gate!AbstentionsAskNobody, BandIsWeakest,
              Gate!CaveatsReachReader, Gate!Answered
<1> QED BY <1>2, <1>3, <1>4, <1>5 DEF Inv, ReasonGiven, HandedOver

LEMMA InvHoldsNext == Inv /\ [Next]_vars => Inv'
<1> SUFFICES ASSUME Inv, [Next]_vars PROVE Inv'
  OBVIOUS
<1>0. SceneInv /\ ReportInv /\ PairInv /\ AnswerInv /\ ReasonGiven /\ HandedOver
  BY DEF Inv
<1>1. CASE Locate
  <2>1. Grounding!SceneNext /\ UNCHANGED <<kind, pairVars, gateVars>> /\ kind = "scene"
    BY <1>1 DEF Locate
  <2>2. SceneInv' /\ ReportInv' /\ PairInv' /\ AnswerInv' /\ ReasonGiven'
    BY <1>0, <2>1, SceneSteps, ReportSteps, PairKept, AnswerKept
  <2>3. found = Grounding!NoEvidence
    BY <1>0, <2>1, SearchIsOver
  <2>4. evidence = Gate!Absent /\ evidence' = Gate!Absent
    BY <1>0, <2>1, <2>3 DEF HandedOver, gateVars
  <2>5. HandedOver'
    BY <2>4 DEF HandedOver
  <2> QED BY <2>2, <2>5 DEF Inv
<1>2. CASE Measure
  <2>1. Change!Next /\ UNCHANGED <<kind, sceneVars, gateVars>> /\ kind = "change"
    BY <1>2 DEF Measure
  <2>2. SceneInv' /\ ReportInv' /\ PairInv' /\ AnswerInv' /\ ReasonGiven'
    BY <1>0, <2>1, PairSteps, SceneKept, ReportKept, AnswerKept
  <2>3. stage # "done"
    BY <2>1 DEF Change!Next, Change!CheckCoregistration, Change!Refuse, Change!TileAndPair, Change!NothingCompared,
                Change!Compare
  <2>4. evidence' = Gate!Absent
    BY <1>0, <2>1, <2>3 DEF HandedOver, gateVars
  <2>5. HandedOver'
    BY <2>4 DEF HandedOver
  <2> QED BY <2>2, <2>5 DEF Inv
<1>3. CASE HandOver
  <2>1. UNCHANGED <<kind, sceneVars, pairVars>>
    BY <1>3 DEF HandOver
  <2>2. SceneInv' /\ ReportInv' /\ PairInv'
    BY <1>0, <2>1, SceneKept, ReportKept, PairKept
  <2>3. PICK e : /\ Gate!Receive(e) /\ Gate!WellFormed(e)
                 /\ kind = "change" => stage = "done" /\ e = ChangeEvidence
                 /\ kind = "scene" => found # Grounding!NoEvidence /\ e = GroundingEvidence
    <3>1. CASE kind = "scene" /\ found # Grounding!NoEvidence /\ Gate!Receive(GroundingEvidence)
      BY <1>0, <3>1, GroundingWellFormed
    <3>2. CASE kind = "change" /\ stage = "done" /\ Gate!Receive(ChangeEvidence)
      BY <1>0, <3>2, ChangeWellFormed
    <3>3. CASE kind = "other" /\ \E e \in Evidences : Gate!Receive(e)
      BY <3>3, EvidencesAssumption
    <3> QED BY <1>3, <3>1, <3>2, <3>3 DEF HandOver
  <2>4. AnswerInv'
    BY <1>0, <2>3, ReceiveOK
  <2>5. evidence' = e /\ response' = Gate!Absent
    BY <1>0, <2>3 DEF Gate!Receive, AnswerInv, Progress
  <2>6. ChangeEvidence' = ChangeEvidence /\ GroundingEvidence' = GroundingEvidence
    BY <2>1, SameEvidence DEF ChangeEvidence, pairVars, AreaPct
  <2>7. kind' = kind /\ stage' = stage /\ found' = found
    BY <2>1 DEF pairVars, sceneVars
  <2>8. HandedOver'
    BY <2>3, <2>5, <2>6, <2>7 DEF HandedOver
  <2>9. ReasonGiven'
    BY <2>5 DEF ReasonGiven
  <2> QED BY <2>2, <2>4, <2>8, <2>9 DEF Inv
<1>4. CASE Judge
  <2>1. Gate!Deliberate /\ UNCHANGED <<kind, sceneVars, pairVars>>
    BY <1>4 DEF Judge
  <2>2. /\ SceneInv' /\ ReportInv' /\ PairInv' /\ AnswerInv' /\ ReasonGiven'
        /\ UNCHANGED evidence
    BY <1>0, <2>1, SceneKept, ReportKept, PairKept, DeliberateOK
  <2>3. ChangeEvidence' = ChangeEvidence /\ GroundingEvidence' = GroundingEvidence
    BY <2>1, SameEvidence DEF ChangeEvidence, pairVars, AreaPct
  <2>4. UNCHANGED <<kind, stage, found, evidence>>
    BY <2>1, <2>2 DEF pairVars, sceneVars
  <2>5. HandedOver'
    BY <1>0, <2>3, <2>4 DEF HandedOver
  <2> QED BY <2>2, <2>5 DEF Inv
<1>5. CASE UNCHANGED vars
  <2>1. UNCHANGED <<kind, sceneVars, pairVars, gateVars>>
    BY <1>5 DEF vars
  <2>2. SceneInv' /\ ReportInv' /\ PairInv' /\ AnswerInv' /\ ReasonGiven'
    BY <1>0, <2>1, SceneKept, ReportKept, PairKept, AnswerKept
  <2>3. ChangeEvidence' = ChangeEvidence /\ GroundingEvidence' = GroundingEvidence
    BY <2>1, SameEvidence DEF ChangeEvidence, pairVars, AreaPct
  <2>4. UNCHANGED <<kind, stage, found, evidence>>
    BY <2>1 DEF pairVars, gateVars, sceneVars
  <2>5. HandedOver'
    BY <1>0, <2>3, <2>4 DEF HandedOver
  <2> QED BY <2>2, <2>5 DEF Inv
<1> QED BY <1>1, <1>2, <1>3, <1>4, <1>5 DEF Next

(* So a count without a warning is that of one batch of everything.        *)
LEMMA CountHolds ==
  ASSUME Inv
  PROVE  CountNotInflated
<1> SUFFICES ASSUME kind = "scene", Gate!Answered, ~scene.cuts, evidence.warnings = {}, IouPct < 100
             PROVE  Len(evidence.scores) <= Len(scene.objects)
  BY DEF CountNotInflated
<1>1. SceneInv /\ ReportInv /\ found # Grounding!NoEvidence /\ evidence = GroundingEvidence
  BY DEF Inv, HandedOver, AnswerInv, Progress, Gate!Answered
<1>2. PICK e, lists, hits, n :
        /\ e = evidence /\ lists = partial
        /\ hits = Grounding!ElementsAt(lists, {b \in DOMAIN lists : lists[b] # <<>>})
        /\ n = Len(lists) - Len(hits)
  OBVIOUS
<1>3. e.scores = ScoresOf(found.detections) /\ e.warnings = Caveat(ladder.warnings + n)
  BY <1>1, <1>2 DEF GroundingEvidence, NoSource, ScoresOf
<1>4. n \in Nat
  <2>1. lists \in Seq(Seq(Detection))
    BY <1>1, <1>2 DEF SceneInv
  <2>2. PICK I \in SUBSET (1..Len(lists)) : I = {b \in DOMAIN lists : lists[b] # <<>>}
    BY <2>1, LenProperties
  <2>3. hits = Facts!ElementsAt(lists, I)
    BY <1>2, <2>2, SameSublist
  <2>4. Len(hits) \in Nat /\ Len(lists) \in Nat /\ Len(hits) <= Len(lists)
    BY <2>1, <2>3, Facts!SublistShorter
  <2> QED BY <1>2, <2>4
<1>5. ladder.warnings \in Nat
  <2>1. ladder.status \in {"answered", "empty"}
    BY <1>1 DEF ReportInv
  <2>2. ladder \in Facts!LadderRecord
    BY <1>1, <2>1, Facts!EndsComplete DEF SceneInv
  <2> QED BY <2>2 DEF Facts!LadderRecord
<1>6. ladder.warnings = 0
  <2>1. Caveat(ladder.warnings + n) = {}
    BY <1>2, <1>3
  <2>2. ladder.warnings + n = 0
    BY <2>1 DEF Caveat
  <2>3. PICK x \in Nat : x = ladder.warnings
    BY <1>5
  <2>4. x + n = 0 => x = 0
    BY <1>4
  <2> QED BY <2>2, <2>3, <2>4
<1>b. PICK batch \in Seq(Tile) : found.detections = Grounding!Nms(Grounding!RawDetections(scene, batch))
  BY <1>1, <1>6, OneBatchReports
<1>7. PICK dets : dets = Grounding!Nms(Grounding!RawDetections(scene, batch)) /\ found.detections = dets
  BY <1>b
<1>8. PICK s : s = scene
  OBVIOUS
<1>9. Grounding!SceneTyped(s) /\ ~s.cuts /\ dets = Grounding!Nms(Grounding!RawDetections(s, batch))
  BY <1>1, <1>7, <1>8 DEF SceneInv
<1>10. Len(dets) <= Len(s.objects)
  BY <1>9, CountsNoMore
<1>11. dets \in Seq(Detection)
  BY <1>1, <1>7 DEF SceneInv, Reported
<1>12. Len(ScoresOf(dets)) = Len(dets)
  <2>1. PICK m \in Nat : m = Len(dets) /\ DOMAIN dets = 1..m
    BY <1>11, LenProperties
  <2> QED BY <2>1 DEF ScoresOf
<1> QED BY <1>2, <1>3, <1>7, <1>8, <1>10, <1>12

THEOREM InvariantHolds == Spec => []Inv
BY InvHoldsFirst, InvHoldsNext, PTL DEF Spec

(* Tiles cover their images whatever the sizes, and a pair of one frame is *)
(* compared in full (tiling.py:74-78).                                     *)
THEOREM TilesCoverSafe == Spec => []TilesCoverImages
<1>1. Inv => TilesCoverImages
  <2> SUFFICES ASSUME Inv PROVE TilesCoverImages
    OBVIOUS
  <2>1. Change!SameFrameFullyCompared
    BY AlignedIsClose DEF Inv
  <2>2. Grounding!TilesCoverScene
    <3>1. tiles = <<>> => Grounding!TilesCoverScene
      BY DEF Grounding!TilesCoverScene
    <3>2. tiles # <<>> => Grounding!TilesCoverScene
      BY TilesCover DEF Inv, SceneInv
    <3> QED BY <3>1, <3>2
  <2> QED BY <2>1, <2>2 DEF TilesCoverImages
<1> QED BY InvariantHolds, <1>1, PTL

(* What a batch reports names nothing twice and drops nothing unnamed,     *)
(* whatever it sees (stitching.py:143-151).                                *)
THEOREM BatchesNameOnceSafe == Spec => []BatchesNameOnce
<1>1. Inv => BatchesNameOnce
  BY DEF Inv, SceneInv, BatchesNameOnce
<1> QED BY InvariantHolds, <1>1, PTL

(* An object no larger than the overlap is in the answer at its place,     *)
(* whatever the scene and however memory ran out, or every tile that shows *)
(* it whole was given up and a warning says so (inference.py:89-110).      *)
THEOREM ObjectsSafe == Spec => []ObjectsReported
<1>1. Inv => ObjectsReported
  BY ObjectsHold DEF Inv, ObjectsReported
<1> QED BY InvariantHolds, <1>1, PTL

(* Change is measured only on pairs that lie on common ground, within the  *)
(* offset that is tolerated (coregistration.py:1-5).                       *)
THEOREM AlignedSafe == Spec => []OnlyAlignedPairsMeasured
<1>1. Inv => OnlyAlignedPairsMeasured
  BY AlignedIsClose DEF Inv, OnlyAlignedPairsMeasured
<1> QED BY InvariantHolds, <1>1, PTL

(* A mosaic never claims more changed pixels than the two images share, or *)
(* than it counts in all.                                                  *)
THEOREM MosaicSafe == Spec => []MosaicCountsPixelsOnce
<1>1. Inv => MosaicCountsPixelsOnce
  BY DEF Inv, PairInv, MosaicCountsPixelsOnce
<1> QED BY InvariantHolds, <1>1, PTL

(* The numbers of an answer trace to the evidence, and every way gives     *)
(* evidence for which that can be said.                                    *)
THEOREM NumbersSafe == Spec => []NumbersTrace
<1>1. Inv => NumbersTrace
  BY DEF Inv, AnswerInv, Progress, NumbersTrace
<1> QED BY InvariantHolds, <1>1, PTL

(* An abstention has asked nobody, and a refused pair is never answered:   *)
(* the verdict of the co-registration reaches the reader as the reason.    *)
THEOREM AbstentionsSafe == Spec => []AbstentionsAskNobody
<1>1. Inv => AbstentionsAskNobody
  <2> SUFFICES ASSUME Inv PROVE AbstentionsAskNobody
    OBVIOUS
  <2>1. Gate!AbstentionsAskNobody
    BY DEF Inv, AnswerInv
  <2>2. ASSUME kind = "change", measured.source = "refused", response # Gate!Absent
        PROVE  response.abstained /\ response.reason = "alignment"
    <3>1. evidence # Gate!Absent
      BY <2>2 DEF Inv, AnswerInv, Progress
    <3>2. stage = "done" /\ evidence = ChangeEvidence
      BY <2>2, <3>1 DEF Inv, HandedOver
    <3>3. Gate!Reason(evidence) = "alignment"
      BY <2>2, <3>2, ChangeWellFormed DEF Inv
    <3> QED BY <2>2, <3>3 DEF Inv, ReasonGiven
  <2> QED BY <2>1, <2>2 DEF AbstentionsAskNobody
<1> QED BY InvariantHolds, <1>1, PTL

(* No answer is given in a band above that of its weakest signal.          *)
THEOREM WeakestLinkSafe == Spec => []WeakestLinkSpeaks
<1>1. Inv => WeakestLinkSpeaks
  BY WeakestSpeaks DEF Inv, WeakestLinkSpeaks
<1> QED BY InvariantHolds, <1>1, PTL

(* Every warning of the evidence is in the answer, whoever wrote it.       *)
THEOREM CaveatsSafe == Spec => []CaveatsReachReader
<1>1. Inv => CaveatsReachReader
  BY DEF Inv, AnswerInv, CaveatsReachReader
<1> QED BY InvariantHolds, <1>1, PTL

(* Whatever there is to see, an answer without a warning counts no more,   *)
(* if the detector does not split things: what overlapping tiles repeat is *)
(* suppressed (stitching.py:143-151).                                      *)
THEOREM CountSafe == Spec => []CountNotInflated
<1>1. Inv => CountNotInflated
  BY CountHolds
<1> QED BY InvariantHolds, <1>1, PTL
=============================================================================

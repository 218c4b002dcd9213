--------------------------- MODULE OperatorProofs ---------------------------
(***************************************************************************)
(* Lemmas about operators, for all their arguments: what sums, sublists    *)
(* and joined lists are, and what each outcome of a batch does to the      *)
(* locals of _run_with_oom_ladder (Ladder). They speak of no variable, so  *)
(* that the proofs about InferenceRuntime and about QueryAnswer both rest  *)
(* on them.                                                                *)
(***************************************************************************)
EXTENDS Ladder, Tiling, Sublists, SequencesExt, FiniteSetTheorems, WellFoundedInduction,
        SequenceTheorems, TLAPS

LEMMA LeastOf ==
  ASSUME NEW T \in SUBSET Nat, T # {}
  PROVE  \E n \in T : \A m \in T : n <= m
<1>1. PICK n \in T : \A m \in T : ~ (<<m, n>> \in OpToRel(<, Nat))
  BY NatLessThanWellFounded, WFMin
<1>2. \A m \in T : m \in Nat /\ n \in Nat /\ ~(m < n)
  BY <1>1 DEF OpToRel
<1> QED BY <1>2

(* What holds of zero and passes on holds of every number. *)
LEMMA NatSetInduction ==
  ASSUME NEW A \in SUBSET Nat, 0 \in A, \A n \in A : n + 1 \in A
  PROVE  A = Nat
<1> DEFINE T == Nat \ A
<1>1. SUFFICES ASSUME T # {} PROVE FALSE
  OBVIOUS
<1>2. PICK n \in T : \A m \in T : n <= m
  BY <1>1, LeastOf
<1>3. n \in Nat /\ n # 0
  OBVIOUS
<1>4. n - 1 \in Nat /\ ~(n <= n - 1)
  BY <1>3
<1>5. n - 1 \notin T
  BY <1>2, <1>4
<1>6. n - 1 \in A
  BY <1>4, <1>5
<1>7. (n - 1) + 1 \in A
  BY <1>6
<1> QED BY <1>3, <1>7

Chosen(s) == CHOOSE x \in s : TRUE

LEMMA ChosenIsIn == ASSUME NEW s, s # {} PROVE Chosen(s) \in s
BY DEF Chosen

SumEquation(term, S, g) ==
  g = [s \in SUBSET S |-> IF s = {} THEN 0
         ELSE term[Chosen(s)] + g[s \ {Chosen(s)}]]

LEMMA SumExists ==
  ASSUME NEW S, IsFiniteSet(S), NEW term
  PROVE  \E g : SumEquation(term, S, g)
<1> DEFINE Small(n) == {s \in SUBSET S : Cardinality(s) <= n}
           Next(h, s) == IF s = {} THEN 0
                     ELSE term[Chosen(s)] + h[s \ {Chosen(s)}]
           Eq(h, n) == h = [s \in Small(n) |-> Next(h, s)]
           A == {n \in Nat : \E h : Eq(h, n)}
<1>0. \A s \in SUBSET S : IsFiniteSet(s) /\ Cardinality(s) \in Nat
  BY FS_Subset, FS_CardinalityType
<1>1. 0 \in A
  <2>1. \A s \in Small(0) : s = {}
    BY <1>0, FS_EmptySet
  <2>2. Eq([s \in Small(0) |-> 0], 0)
    BY <2>1
  <2> QED BY <2>2
<1>2. ASSUME NEW n \in A PROVE n + 1 \in A
  <2>1. PICK h : Eq(h, n)
    OBVIOUS
  <2> PICK k : k = [s \in Small(n+1) |-> Next(h, s)]
    OBVIOUS
  <2>2. ASSUME NEW s \in Small(n + 1), s # {}
        PROVE  k[s \ {Chosen(s)}] = h[s \ {Chosen(s)}]
    <3>1. PICK c : c = Chosen(s)
      OBVIOUS
    <3>2. c \in s
      BY <2>2, <3>1, ChosenIsIn
    <3>3. Cardinality(s \ {c}) = Cardinality(s) - 1 /\ Cardinality(s) \in Nat /\ s \in SUBSET S
      BY <1>0, <3>2, FS_RemoveElement
    <3>4. s \ {c} \in Small(n) /\ s \ {c} \in Small(n + 1)
      BY <3>3, <1>0
    <3>5. k[s \ {c}] = Next(h, s \ {c}) /\ h[s \ {c}] = Next(h, s \ {c})
      BY <2>1, <3>4
    <3> QED BY <3>5, <3>1
  <2>3. ASSUME NEW s \in Small(n + 1) PROVE Next(k, s) = Next(h, s)
    <3>1. CASE s = {}
      BY <3>1
    <3>2. CASE s # {}
      <4>1. k[s \ {Chosen(s)}] = h[s \ {Chosen(s)}]
        BY <2>2, <3>2
      <4> HIDE DEF Small
      <4> QED BY <4>1, <3>2
    <3> QED BY <3>1, <3>2
  <2>4. Eq(k, n + 1)
    <3> HIDE DEF Next, Small
    <3> QED BY <2>3
  <2>5. n + 1 \in Nat
    OBVIOUS
  <2> HIDE DEF Eq
  <2> QED BY <2>4, <2>5
<1>3. A = Nat
  BY <1>1, <1>2, NatSetInduction
<1>4. Cardinality(S) \in Nat /\ \A s \in SUBSET S : Cardinality(s) <= Cardinality(S)
  BY FS_Subset, FS_CardinalityType
<1>5. PICK h : Eq(h, Cardinality(S))
  BY <1>3, <1>4
<1>6. Small(Cardinality(S)) = SUBSET S
  BY <1>4
<1> QED BY <1>5, <1>6 DEF SumEquation

(* The equation has one solution, on whichever set it is solved.           *)
LEMMA SumUnique ==
  ASSUME NEW S, IsFiniteSet(S), NEW T \in SUBSET S, NEW term, NEW g, NEW h,
         SumEquation(term, S, g), SumEquation(term, T, h)
  PROVE  \A s \in SUBSET T : g[s] = h[s]
<1> DEFINE A == {n \in Nat : \A s \in SUBSET T : Cardinality(s) <= n => g[s] = h[s]}
<1>0. \A s \in SUBSET T : IsFiniteSet(s) /\ Cardinality(s) \in Nat /\ s \in SUBSET S
  BY FS_Subset, FS_CardinalityType
<1>u. \A s \in SUBSET T : \A c : s # {} /\ c = Chosen(s) =>
        g[s] = term[c] + g[s \ {c}] /\ h[s] = term[c] + h[s \ {c}]
  <2>1. \A s \in SUBSET T : s \in SUBSET S
    OBVIOUS
  <2> QED BY <2>1 DEF SumEquation
<1>1. 0 \in A
  <2>1. ASSUME NEW s \in SUBSET T, Cardinality(s) <= 0 PROVE g[s] = h[s]
    <3>1. s = {}
      BY <1>0, <2>1, FS_EmptySet
    <3>2. {} \in SUBSET S /\ {} \in SUBSET T
      OBVIOUS
    <3> QED BY <3>1, <3>2 DEF SumEquation
  <2> QED BY <2>1
<1>2. ASSUME NEW n \in A PROVE n + 1 \in A
  <2>1. ASSUME NEW s \in SUBSET T, Cardinality(s) <= n + 1 PROVE g[s] = h[s]
    <3>1. CASE s = {}
      <4>1. {} \in SUBSET S /\ {} \in SUBSET T
        OBVIOUS
      <4> QED BY <3>1, <4>1 DEF SumEquation
    <3>2. CASE s # {}
      <4>1. PICK c : c = Chosen(s)
        OBVIOUS
      <4>2. c \in s
        BY <3>2, <4>1, ChosenIsIn
      <4>3. s \ {c} \in SUBSET T /\ Cardinality(s \ {c}) <= n
        BY <1>0, <2>1, <4>2, FS_RemoveElement
      <4>4. g[s \ {c}] = h[s \ {c}]
        BY <4>3
      <4> QED BY <1>u, <3>2, <4>1, <4>4
    <3> QED BY <3>1, <3>2
  <2> QED BY <2>1
<1>3. A = Nat
  BY <1>1, <1>2, NatSetInduction
<1>4. ASSUME NEW s \in SUBSET T PROVE g[s] = h[s]
  <2>1. Cardinality(s) \in A
    BY <1>0, <1>3
  <2>2. Cardinality(s) <= Cardinality(s)
    BY <1>0
  <2> QED BY <2>1, <2>2
<1> QED BY <1>4

LEMMA SumFoldSolves ==
  ASSUME NEW S, IsFiniteSet(S), NEW term
  PROVE  \E g : SumEquation(term, S, g) /\ SumFunctionOnSet(term, S) = g[S]
<1> DEFINE iter == CHOOSE g : SumEquation(term, S, g)
<1>1. SumEquation(term, S, iter)
  BY SumExists
<1>2. SumFunctionOnSet(term, S) = iter[S]
  BY DEF SumEquation, Chosen, SumFunctionOnSet, FoldFunctionOnSet, MapThenFoldSet
<1> QED BY <1>1, <1>2

LEMMA SumOfNone == ASSUME NEW f PROVE SumFunctionOnSet(f, {}) = 0
<1>1. IsFiniteSet({})
  BY FS_EmptySet
<1>2. PICK g : SumEquation(f, {}, g) /\ SumFunctionOnSet(f, {}) = g[{}]
  BY <1>1, SumFoldSolves
<1>3. {} \in SUBSET {}
  OBVIOUS
<1> QED BY <1>2, <1>3 DEF SumEquation

LEMMA SumTakesChosen ==
  ASSUME NEW S, IsFiniteSet(S), S # {}, NEW f, NEW c, c = Chosen(S)
  PROVE  SumFunctionOnSet(f, S) = f[c] + SumFunctionOnSet(f, S \ {c})
<1>1. PICK g : SumEquation(f, S, g) /\ SumFunctionOnSet(f, S) = g[S]
  BY SumFoldSolves
<1>2. IsFiniteSet(S \ {c}) /\ S \ {c} \in SUBSET S
  BY FS_RemoveElement
<1>3. PICK h : SumEquation(f, S \ {c}, h) /\ SumFunctionOnSet(f, S \ {c}) = h[S \ {c}]
  BY <1>2, SumFoldSolves
<1>4. g[S \ {c}] = h[S \ {c}]
  BY <1>1, <1>2, <1>3, SumUnique
<1>5. S \in SUBSET S
  OBVIOUS
<1>6. g[S] = f[c] + g[S \ {c}]
  BY <1>1, <1>5 DEF SumEquation
<1> QED BY <1>1, <1>3, <1>4, <1>6

(* Any element may be taken off a sum.                                     *)
LEMMA SumTakesAny ==
  ASSUME NEW S, IsFiniteSet(S), NEW f, \A x \in S : f[x] \in Int
  PROVE  /\ SumFunctionOnSet(f, S) \in Int
         /\ \A a \in S : SumFunctionOnSet(f, S) = f[a] + SumFunctionOnSet(f, S \ {a})
<1> DEFINE Sum(s) == SumFunctionOnSet(f, s)
           Taken(s) == Sum(s) \in Int /\ \A a \in s : Sum(s) = f[a] + Sum(s \ {a})
           A == {n \in Nat : \A s \in SUBSET S : Cardinality(s) <= n => Taken(s)}
<1>0. \A s \in SUBSET S : IsFiniteSet(s) /\ Cardinality(s) \in Nat
  BY FS_Subset, FS_CardinalityType
<1>r. \A s \in SUBSET S : \A c \in s : Cardinality(s \ {c}) = Cardinality(s) - 1
  BY <1>0, FS_RemoveElement
<1>e. Taken({})
  BY SumOfNone
<1>1. 0 \in A
  <2>1. ASSUME NEW s \in SUBSET S, Cardinality(s) <= 0 PROVE Taken(s)
    <3>1. s = {}
      BY <1>0, <2>1, FS_EmptySet
    <3> HIDE DEF Taken
    <3> QED BY <3>1, <1>e
  <2> HIDE DEF Taken
  <2> QED BY <2>1
<1>2. ASSUME NEW n \in A PROVE n + 1 \in A
  <2>1. ASSUME NEW s \in SUBSET S, Cardinality(s) <= n + 1 PROVE Taken(s)
    <3>1. CASE s = {}
      <4> HIDE DEF Taken
      <4> QED BY <3>1, <1>e
    <3>2. CASE s # {}
      <4>1. PICK c : c = Chosen(s)
        OBVIOUS
      <4>2. c \in s
        BY <3>2, <4>1, ChosenIsIn
      <4>3. Sum(s) = f[c] + Sum(s \ {c})
        BY <1>0, <3>2, <4>1, SumTakesChosen DEF Sum
      <4>4. \A a \in s : Taken(s \ {a})
        <5>1. \A a \in s : s \ {a} \in SUBSET S /\ Cardinality(s \ {a}) <= n
          BY <1>0, <1>r, <2>1
        <5> HIDE DEF Taken
        <5> QED BY <5>1
      <4>5. Sum(s) \in Int
        BY <4>2, <4>3, <4>4
      <4>6. ASSUME NEW a \in s PROVE Sum(s) = f[a] + Sum(s \ {a})
        <5>1. CASE a = c
          BY <4>3, <5>1
        <5>2. CASE a # c
          <6>1. a \in s \ {c} /\ c \in s \ {a} /\ (s \ {c}) \ {a} = (s \ {a}) \ {c}
            BY <4>2, <5>2
          <6>2. Sum(s \ {c}) = f[a] + Sum((s \ {c}) \ {a})
            BY <4>2, <4>4, <6>1
          <6>3. Sum(s \ {a}) = f[c] + Sum((s \ {a}) \ {c})
            BY <4>4, <6>1
          <6>4. Sum((s \ {c}) \ {a}) \in Int /\ f[a] \in Int /\ f[c] \in Int
            <7>1. (s \ {c}) \ {a} \in SUBSET S /\ Cardinality((s \ {c}) \ {a}) <= n
              <8>1. (s \ {c}) \ {a} \in SUBSET S /\ s \ {c} \in SUBSET S
                OBVIOUS
              <8>2. Cardinality((s \ {c}) \ {a}) = Cardinality(s \ {c}) - 1
                BY <1>r, <6>1, <8>1
              <8>3. Cardinality(s \ {c}) = Cardinality(s) - 1 /\ Cardinality(s) \in Nat
                BY <1>0, <1>r, <4>2
              <8> QED BY <2>1, <8>1, <8>2, <8>3
            <7>2. Taken((s \ {c}) \ {a})
              <8> HIDE DEF Taken
              <8> QED BY <7>1
            <7> QED BY <7>2, <4>2
          <6>5. Sum((s \ {a}) \ {c}) = Sum((s \ {c}) \ {a})
            BY <6>1
          <6> HIDE DEF Sum
          <6> QED BY <4>3, <6>2, <6>3, <6>4, <6>5
        <5> QED BY <5>1, <5>2
      <4> QED BY <4>5, <4>6
    <3> QED BY <3>1, <3>2
  <2> HIDE DEF Taken
  <2> QED BY <2>1
<1>3. A = Nat
  <2> HIDE DEF A
  <2> QED BY <1>1, <1>2, NatSetInduction DEF A
<1>4. Taken(S)
  <2>1. Cardinality(S) \in A /\ S \in SUBSET S /\ Cardinality(S) <= Cardinality(S)
    BY <1>0, <1>3
  <2> HIDE DEF Taken
  <2> QED BY <2>1
<1> QED BY <1>4

(* What holds of no element and of one more holds of a finite set.         *)
LEMMA FiniteInduction ==
  ASSUME NEW S, IsFiniteSet(S), NEW F \in SUBSET SUBSET S, {} \in F,
         \A s \in F : \A x \in S \ s : s \cup {x} \in F
  PROVE  S \in F
<1> DEFINE A == {n \in Nat : \A s \in SUBSET S : Cardinality(s) <= n => s \in F}
<1>0. \A s \in SUBSET S : IsFiniteSet(s) /\ Cardinality(s) \in Nat
  BY FS_Subset, FS_CardinalityType
<1>1. 0 \in A
  <2>1. ASSUME NEW s \in SUBSET S, Cardinality(s) <= 0 PROVE s \in F
    <3>1. s = {}
      BY <1>0, <2>1, FS_EmptySet
    <3> QED BY <3>1
  <2> QED BY <2>1
<1>2. ASSUME NEW n \in A PROVE n + 1 \in A
  <2>1. ASSUME NEW s \in SUBSET S, Cardinality(s) <= n + 1 PROVE s \in F
    <3>1. CASE s = {}
      BY <3>1
    <3>2. CASE s # {}
      <4>1. PICK c \in s : TRUE
        BY <3>2
      <4>2. s \ {c} \in SUBSET S /\ Cardinality(s \ {c}) <= n
        BY <1>0, <2>1, FS_RemoveElement
      <4>3. s \ {c} \in F /\ c \in S \ (s \ {c}) /\ (s \ {c}) \cup {c} = s
        BY <4>2
      <4> QED BY <4>3
    <3> QED BY <3>1, <3>2
  <2> QED BY <2>1
<1>3. A = Nat
  BY <1>1, <1>2, NatSetInduction
<1>4. Cardinality(S) \in A /\ S \in SUBSET S /\ Cardinality(S) <= Cardinality(S)
  BY <1>0, <1>3
<1> QED BY <1>4

(* A sum of numbers that are not negative is at least each of them.        *)
LEMMA SumOfNaturals ==
  ASSUME NEW S, IsFiniteSet(S), NEW f, \A x \in S : f[x] \in Nat
  PROVE  /\ SumFunctionOnSet(f, S) \in Nat
         /\ \A a \in S : f[a] <= SumFunctionOnSet(f, S)
<1> DEFINE Sum(s) == SumFunctionOnSet(f, s)
           F == {s \in SUBSET S : Sum(s) \in Nat}
<1>1. {} \in F
  BY SumOfNone
<1>2. ASSUME NEW s \in F, NEW x \in S \ s PROVE s \cup {x} \in F
  <2>1. s \cup {x} \in SUBSET S /\ IsFiniteSet(s \cup {x})
    BY FS_Subset
  <2>2. Sum(s \cup {x}) = f[x] + Sum((s \cup {x}) \ {x})
    <3>1. \A y \in s \cup {x} : f[y] \in Int
      OBVIOUS
    <3> QED BY <2>1, <3>1, SumTakesAny
  <2>3. (s \cup {x}) \ {x} = s
    OBVIOUS
  <2>4. Sum(s) \in Nat /\ f[x] \in Nat
    OBVIOUS
  <2>5. Sum(s \cup {x}) \in Nat
    <3>1. Sum((s \cup {x}) \ {x}) = Sum(s)
      BY <2>3
    <3> HIDE DEF Sum
    <3> QED BY <2>2, <3>1, <2>4
  <2> QED BY <2>1, <2>5
<1>3. S \in F
  <2> HIDE DEF F
  <2>1. F \in SUBSET SUBSET S
    BY DEF F
  <2> QED BY <1>1, <1>2, <2>1, FiniteInduction
<1>4. ASSUME NEW a \in S PROVE f[a] <= Sum(S)
  <2>1. Sum(S) = f[a] + Sum(S \ {a})
    BY SumTakesAny
  <2>2. Sum(S \ {a}) \in Nat
    <3> DEFINE G == {s \in SUBSET (S \ {a}) : Sum(s) \in Nat}
    <3>1. {} \in G
      BY SumOfNone
    <3>2. ASSUME NEW s \in G, NEW x \in (S \ {a}) \ s PROVE s \cup {x} \in G
      <4>1. s \in F /\ x \in S \ s
        OBVIOUS
      <4>2. s \cup {x} \in F
        BY <1>2, <4>1
      <4> QED BY <4>2
    <3>3. IsFiniteSet(S \ {a})
      BY FS_RemoveElement
    <3> HIDE DEF G
    <3>4. G \in SUBSET SUBSET (S \ {a})
      BY DEF G
    <3>5. S \ {a} \in G
      BY <3>1, <3>2, <3>3, <3>4, FiniteInduction
    <3> QED BY <3>5 DEF G
  <2>3. f[a] \in Nat
    OBVIOUS
  <2> HIDE DEF Sum
  <2> QED BY <2>1, <2>2, <2>3
<1> QED BY <1>3, <1>4

(* A sum of numbers that are not negative grows with its terms.            *)
LEMMA SumGrows ==
  ASSUME NEW S, IsFiniteSet(S), NEW f, \A x \in S : f[x] \in Nat, NEW T \in SUBSET S
  PROVE  /\ SumFunctionOnSet(f, T) \in Nat /\ SumFunctionOnSet(f, S) \in Nat
         /\ SumFunctionOnSet(f, T) <= SumFunctionOnSet(f, S)
<1> DEFINE Sum(s) == SumFunctionOnSet(f, s)
           F == {d \in SUBSET (S \ T) : Sum(T) <= Sum(T \cup d)}
<1>0. \A s \in SUBSET S : IsFiniteSet(s) /\ Sum(s) \in Nat
  <2>1. ASSUME NEW s \in SUBSET S PROVE IsFiniteSet(s) /\ Sum(s) \in Nat
    <3>1. IsFiniteSet(s) /\ \A x \in s : f[x] \in Nat
      BY FS_Subset
    <3> QED BY <3>1, SumOfNaturals
  <2> QED BY <2>1
<1>1. {} \in F
  <2>1. T \cup {} = T /\ Sum(T) <= Sum(T)
    BY <1>0
  <2> HIDE DEF Sum
  <2> QED BY <2>1
<1>2. ASSUME NEW d \in F, NEW x \in (S \ T) \ d PROVE d \cup {x} \in F
  <2>1. PICK s : s = T \cup (d \cup {x})
    OBVIOUS
  <2>2. s \in SUBSET S /\ x \in s /\ s \ {x} = T \cup d
    BY <2>1
  <2>3. Sum(s) = f[x] + Sum(s \ {x})
    <3>1. IsFiniteSet(s) /\ \A y \in s : f[y] \in Int
      BY <1>0, <2>2
    <3> QED BY <2>2, <3>1, SumTakesAny
  <2>4. Sum(s \ {x}) = Sum(T \cup d)
    BY <2>2
  <2>5. Sum(T) <= Sum(T \cup d) /\ f[x] \in Nat /\ T \cup d \in SUBSET S
    OBVIOUS
  <2>6. Sum(T) \in Nat /\ Sum(T \cup d) \in Nat
    BY <1>0, <2>5
  <2>7. Sum(T) <= Sum(s)
    <3> HIDE DEF Sum
    <3> QED BY <2>3, <2>4, <2>5, <2>6
  <2>8. d \cup {x} \in SUBSET (S \ T) /\ Sum(T \cup (d \cup {x})) = Sum(s)
    BY <2>1
  <2> HIDE DEF Sum
  <2> QED BY <2>7, <2>8
<1>3. S \ T \in F
  <2>1. IsFiniteSet(S \ T)
    BY <1>0
  <2> HIDE DEF Sum
  <2>2. F \in SUBSET SUBSET (S \ T)
    OBVIOUS
  <2> HIDE DEF F
  <2> QED BY <1>1, <1>2, <2>1, <2>2, FiniteInduction
<1>4. T \cup (S \ T) = S /\ Sum(T) <= Sum(T \cup (S \ T))
  BY <1>3
<1>5. Sum(T) <= Sum(S)
  <2> HIDE DEF Sum
  <2> QED BY <1>4
<1> QED BY <1>0, <1>5

(* A sum is the same when its terms move by one place.                     *)
LEMMA SumShifts ==
  ASSUME NEW n \in Nat, NEW f, NEW g, \A i \in 1..n : g[i] = f[i - 1] /\ f[i - 1] \in Int
  PROVE  SumFunctionOnSet(g, 1..n) = SumFunctionOnSet(f, 0..n-1)
<1> DEFINE Down(s) == {i - 1 : i \in s}
           F == {s \in SUBSET (1..n) : SumFunctionOnSet(g, s) = SumFunctionOnSet(f, Down(s))}
<1>0. IsFiniteSet(1..n) /\ IsFiniteSet(0..n-1)
  BY FS_Interval
<1>1. {} \in F
  <2>1. Down({}) = {}
    OBVIOUS
  <2> QED BY <2>1, SumOfNone
<1>2. ASSUME NEW s \in F, NEW x \in (1..n) \ s PROVE s \cup {x} \in F
  <2>1. PICK t : t = s \cup {x}
    OBVIOUS
  <2>2. PICK d : d = Down(t)
    OBVIOUS
  <2>3. t \in SUBSET (1..n) /\ t \ {x} = s /\ x \in t
    BY <2>1
  <2>4. d \in SUBSET (0..n-1) /\ d \ {x - 1} = Down(s) /\ x - 1 \in d
    BY <2>1, <2>2
  <2>5. IsFiniteSet(t) /\ IsFiniteSet(d)
    BY <1>0, <2>3, <2>4, FS_Subset
  <2>6. (\A i \in t : g[i] \in Int) /\ (\A i \in d : f[i] \in Int)
    <3>1. \A i \in t : i \in 1..n
      BY <2>3
    <3>2. \A i \in t : g[i] \in Int /\ f[i - 1] \in Int
      BY <3>1
    <3> QED BY <2>2, <3>2
  <2>7. SumFunctionOnSet(g, t) = g[x] + SumFunctionOnSet(g, t \ {x})
    BY <2>3, <2>5, <2>6, SumTakesAny
  <2>8. SumFunctionOnSet(f, d) = f[x - 1] + SumFunctionOnSet(f, d \ {x - 1})
    BY <2>4, <2>5, <2>6, SumTakesAny
  <2>9. g[x] = f[x - 1] /\ SumFunctionOnSet(g, s) = SumFunctionOnSet(f, Down(s))
    OBVIOUS
  <2>10. SumFunctionOnSet(g, t) = SumFunctionOnSet(f, d)
    <3> HIDE DEF Down, F
    <3> QED BY <2>3, <2>4, <2>7, <2>8, <2>9
  <2> QED BY <2>1, <2>2, <2>3, <2>10
<1>3. 1..n \in F
  <2>1. F \in SUBSET SUBSET (1..n)
    OBVIOUS
  <2> HIDE DEF F
  <2> QED BY <1>0, <1>1, <1>2, <2>1, FiniteInduction
<1>4. Down(1..n) = 0..n-1
  <2>1. \A k \in 0..n-1 : k + 1 \in 1..n /\ (k + 1) - 1 = k
    OBVIOUS
  <2>2. \A i \in 1..n : i - 1 \in 0..n-1
    OBVIOUS
  <2> QED BY <2>1, <2>2
<1> QED BY <1>3, <1>4

(* What a sublist holds: the elements at the indices, in their order.      *)
LEMMA PlacesOfIndices ==
  ASSUME NEW n \in Nat, NEW I \in SUBSET (1..n)
  PROVE  /\ IsFiniteSet(I) /\ Cardinality(I) \in Nat
         /\ \A i \in I : Cardinality({j \in I : j <= i}) \in 1..Cardinality(I)
         /\ \A i, k \in I : i < k =>
              Cardinality({j \in I : j <= i}) < Cardinality({j \in I : j <= k})
         /\ \A p \in 1..Cardinality(I) : \E i \in I : Cardinality({j \in I : j <= i}) = p
<1> DEFINE Upto(i) == {j \in I : j <= i}
           place == [i \in I |-> Cardinality(Upto(i))]
<1>1. IsFiniteSet(I) /\ Cardinality(I) \in Nat /\ I \subseteq Int
  <2>1. IsFiniteSet(1..n)
    BY FS_Interval
  <2>2. IsFiniteSet(I)
    BY <2>1, FS_Subset
  <2>3. Cardinality(I) \in Nat
    BY <2>2, FS_CardinalityType
  <2>4. I \subseteq Int
    OBVIOUS
  <2> QED BY <2>2, <2>3, <2>4
<1>2. \A i \in I : /\ Upto(i) \in SUBSET I /\ IsFiniteSet(Upto(i))
                   /\ Cardinality(Upto(i)) \in Nat /\ Cardinality(Upto(i)) <= Cardinality(I)
                   /\ i \in Upto(i)
  BY <1>1, FS_Subset, FS_CardinalityType
<1>3. \A i \in I : place[i] \in 1..Cardinality(I)
  <2>1. ASSUME NEW i \in I PROVE Cardinality(Upto(i)) # 0
    BY <1>2, FS_EmptySet
  <2> HIDE DEF Upto
  <2> QED BY <1>1, <1>2, <2>1
<1>4. ASSUME NEW i \in I, NEW k \in I, i < k PROVE place[i] < place[k]
  <2>1. Upto(i) \in SUBSET Upto(k) /\ k \notin Upto(i) /\ k \in Upto(k)
    <3>1. i \in Int /\ k \in Int /\ \A j \in I : j \in Int
      BY <1>1
    <3>2. \A j \in I : j <= i => j <= k
      BY <1>4, <3>1
    <3>3. ~(k <= i) /\ k <= k
      BY <1>4, <3>1
    <3> QED BY <3>2, <3>3
  <2>2. Cardinality(Upto(i)) <= Cardinality(Upto(k))
        /\ (Cardinality(Upto(k)) = Cardinality(Upto(i)) => Upto(k) = Upto(i))
    BY <1>2, <2>1, FS_Subset
  <2>3. Cardinality(Upto(i)) \in Nat /\ Cardinality(Upto(k)) \in Nat /\ Upto(i) # Upto(k)
    BY <1>2, <2>1
  <2> HIDE DEF Upto
  <2> QED BY <2>2, <2>3
<1>5. place \in Injection(I, 1..Cardinality(I))
  <2>1. \A i, k \in I : place[i] = place[k] => i = k
    <3> SUFFICES ASSUME NEW i \in I, NEW k \in I, i # k PROVE place[i] # place[k]
      OBVIOUS
    <3>1. i < k \/ k < i
      BY <1>1
    <3>2. place[i] \in Int /\ place[k] \in Int
      BY <1>3
    <3> HIDE DEF place
    <3> QED BY <1>4, <3>1, <3>2
  <2>2. place \in [I -> 1..Cardinality(I)]
    <3>1. place = [i \in I |-> place[i]]
      OBVIOUS
    <3> HIDE DEF place
    <3> QED BY <1>3, <3>1
  <2> HIDE DEF place
  <2> QED BY <2>1, <2>2 DEF Injection, IsInjective
<1>6. place \in Surjection(I, 1..Cardinality(I))
  <2>1. IsFiniteSet(1..Cardinality(I)) /\ Cardinality(1..Cardinality(I)) = Cardinality(I)
    BY <1>1, FS_Interval
  <2> HIDE DEF place
  <2> QED BY <1>5, <2>1, FS_Injection
<1>7. \A p \in 1..Cardinality(I) : \E i \in I : place[i] = p
  <2> HIDE DEF place
  <2> QED BY <1>6 DEF Surjection
<1> QED BY <1>1, <1>3, <1>4, <1>7

LEMMA SublistHolds ==
  ASSUME NEW A, NEW list \in Seq(A), NEW I \in SUBSET (1..Len(list))
  PROVE  /\ ElementsAt(list, I) \in Seq(A)
         /\ Len(ElementsAt(list, I)) = Cardinality(I) /\ Cardinality(I) \in Nat
         /\ \E at \in [1..Cardinality(I) -> I] :
              /\ \A p \in 1..Cardinality(I) : ElementsAt(list, I)[p] = list[at[p]]
              /\ \A p, q \in 1..Cardinality(I) : p < q => at[p] < at[q]
              /\ \A i \in I : \E p \in 1..Cardinality(I) : at[p] = i
<1> DEFINE place(i) == Cardinality({j \in I : j <= i})
           at == [p \in 1..Cardinality(I) |-> CHOOSE i \in I : place(i) = p]
<1>0. Len(list) \in Nat /\ \A i \in 1..Len(list) : list[i] \in A
  BY LenProperties, ElementOfSeq
<1>1. /\ Cardinality(I) \in Nat
      /\ \A i \in I : place(i) \in 1..Cardinality(I)
      /\ \A i, k \in I : i < k => place(i) < place(k)
      /\ \A p \in 1..Cardinality(I) : \E i \in I : place(i) = p
  BY <1>0, PlacesOfIndices
<1> HIDE DEF place
<1>2. \A p \in 1..Cardinality(I) : at[p] \in I /\ place(at[p]) = p
  BY <1>1
<1>a. I \subseteq Int
  <2>1. 1..Len(list) \subseteq Int
    BY <1>0
  <2> QED BY <2>1
<1>3. ElementsAt(list, I) = [p \in 1..Cardinality(I) |-> list[at[p]]]
  BY DEF ElementsAt, place
<1>4. at \in [1..Cardinality(I) -> I]
  BY <1>2
<1> HIDE DEF at
<1>5. \A p \in 1..Cardinality(I) : list[at[p]] \in A
  BY <1>0, <1>2
<1>6. ElementsAt(list, I) \in [1..Cardinality(I) -> A]
  BY <1>3, <1>5
<1>7. ElementsAt(list, I) \in Seq(A) /\ Len(ElementsAt(list, I)) = Cardinality(I)
  <2>1. [1..Cardinality(I) -> A] \subseteq Seq(A)
    BY <1>1, SeqDef
  <2>2. DOMAIN ElementsAt(list, I) = 1..Cardinality(I)
    BY <1>6
  <2>3. ElementsAt(list, I) \in Seq(A)
    BY <1>6, <2>1
  <2>4. DOMAIN ElementsAt(list, I) = 1..Len(ElementsAt(list, I)) /\ Len(ElementsAt(list, I)) \in Nat
    BY <2>3, LenProperties
  <2>5. Len(ElementsAt(list, I)) = Cardinality(I)
    BY <1>1, <2>2, <2>4
  <2> QED BY <2>3, <2>5
<1>8. ASSUME NEW p \in 1..Cardinality(I), NEW q \in 1..Cardinality(I), p < q
      PROVE  at[p] < at[q]
  <2>1. at[p] \in I /\ at[q] \in I /\ place(at[p]) = p /\ place(at[q]) = q
    BY <1>2
  <2>2. at[p] \in Int /\ at[q] \in Int
    BY <1>a, <2>1
  <2>3. CASE at[q] < at[p]
    <3>1. place(at[q]) < place(at[p])
      BY <1>1, <2>1, <2>3
    <3> QED BY <1>8, <2>1, <3>1
  <2>4. at[p] # at[q]
    BY <1>8, <2>1
  <2> QED BY <2>2, <2>3, <2>4
<1>9. ASSUME NEW i \in I PROVE \E p \in 1..Cardinality(I) : at[p] = i
  <2>1. place(i) \in 1..Cardinality(I)
    BY <1>1
  <2>2. at[place(i)] \in I /\ place(at[place(i)]) = place(i)
    BY <1>2, <2>1
  <2>3. at[place(i)] \in Int /\ i \in Int
    BY <1>a, <2>2
  <2>4. ~(at[place(i)] < i) /\ ~(i < at[place(i)])
    <3>1. place(i) \in Int /\ ~(place(i) < place(i))
      BY <1>1, <2>1
    <3>2. at[place(i)] < i => place(at[place(i)]) < place(i)
      BY <1>1, <2>2
    <3>3. i < at[place(i)] => place(i) < place(at[place(i)])
      BY <1>1, <2>2
    <3> QED BY <2>2, <3>1, <3>2, <3>3
  <2>5. at[place(i)] = i
    BY <2>3, <2>4
  <2> QED BY <2>1, <2>5
<1>10. \A p \in 1..Cardinality(I) : ElementsAt(list, I)[p] = list[at[p]]
  BY <1>3
<1> QED BY <1>1, <1>4, <1>7, <1>8, <1>9, <1>10

(* The same, of a list that was named.                                     *)
Picks(at, sub, list, I) ==
  /\ at \in [1..Len(sub) -> I]
  /\ \A p \in 1..Len(sub) : sub[p] = list[at[p]]
  /\ \A p, q \in 1..Len(sub) : p < q => at[p] < at[q]
  /\ \A i \in I : \E p \in 1..Len(sub) : at[p] = i

LEMMA SublistPicks ==
  ASSUME NEW A, NEW list \in Seq(A), NEW I \in SUBSET (1..Len(list)),
         NEW sub, sub = ElementsAt(list, I)
  PROVE  sub \in Seq(A) /\ Len(sub) \in Nat /\ \E at : Picks(at, sub, list, I)
<1>1. PICK c : c = Cardinality(I)
  OBVIOUS
<1>2. /\ sub \in Seq(A) /\ Len(sub) = c /\ c \in Nat
      /\ \E at \in [1..c -> I] :
           /\ \A p \in 1..c : sub[p] = list[at[p]]
           /\ \A p, q \in 1..c : p < q => at[p] < at[q]
           /\ \A i \in I : \E p \in 1..c : at[p] = i
  BY <1>1, SublistHolds
<1>3. PICK at \in [1..c -> I] : /\ \A p \in 1..c : sub[p] = list[at[p]]
                                /\ \A p, q \in 1..c : p < q => at[p] < at[q]
                                /\ \A i \in I : \E p \in 1..c : at[p] = i
  BY <1>2
<1>4. Picks(at, sub, list, I)
  BY <1>2, <1>3 DEF Picks
<1> QED BY <1>2, <1>4

(* A list maps one to one only into a list that is no shorter, so a        *)
(* sublist is none longer.                                                 *)
LEMMA NoLonger ==
  ASSUME NEW m \in Nat, NEW n \in Nat, NEW f \in [1..m -> 1..n],
         \A a, b \in 1..m : f[a] = f[b] => a = b
  PROVE  m <= n
<1>1. /\ IsFiniteSet(1..n) /\ Cardinality(1..n) = IF 1 > n THEN 0 ELSE n - 1 + 1
      /\ IsFiniteSet(1..m) /\ Cardinality(1..m) = IF 1 > m THEN 0 ELSE m - 1 + 1
  BY FS_Interval
<1>2. ~(Cardinality(1..n) < Cardinality(1..m))
  BY <1>1, FS_PigeonHole
<1> QED BY <1>1, <1>2

LEMMA SublistShorter ==
  ASSUME NEW A, NEW list \in Seq(A), NEW I \in SUBSET (1..Len(list)),
         NEW sub, sub = ElementsAt(list, I)
  PROVE  Len(sub) \in Nat /\ Len(list) \in Nat /\ Len(sub) <= Len(list)
<1>1. PICK m \in Nat, n \in Nat : m = Len(sub) /\ n = Len(list)
  BY SublistPicks, LenProperties
<1>2. PICK at : Picks(at, sub, list, I)
  BY SublistPicks
<1>3. at \in [1..m -> 1..n] /\ \A p, q \in 1..m : p < q => at[p] < at[q]
  BY <1>1, <1>2 DEF Picks
<1>4. ASSUME NEW p \in 1..m, NEW q \in 1..m, at[p] = at[q] PROVE p = q
  <2>1. at[p] \in Nat /\ at[q] \in Nat /\ ~(p < q) /\ ~(q < p)
    BY <1>3, <1>4
  <2> QED BY <2>1
<1> QED BY <1>1, <1>3, <1>4, NoLonger

Joins(lists, h, n) ==
  h = [i \in 1..n |-> IF i = 1 THEN lists[i] ELSE h[i-1] \o lists[i]]

LEMMA JoinsExist ==
  ASSUME NEW lists, NEW m \in Nat
  PROVE  \E h : Joins(lists, h, m)
<1> DEFINE B == {n \in Nat : \E h : Joins(lists, h, n)}
<1>1. 0 \in B
  <2>1. Joins(lists, [i \in 1..0 |-> lists[i]], 0)
    BY DEF Joins
  <2> QED BY <2>1
<1>2. ASSUME NEW n \in B PROVE n + 1 \in B
  <2>1. PICK h : Joins(lists, h, n)
    OBVIOUS
  <2>2. n \in Nat
    OBVIOUS
  <2>3. PICK k : k = [i \in 1..(n + 1) |-> IF i <= n THEN h[i]
                                          ELSE IF i = 1 THEN lists[1] ELSE h[i - 1] \o lists[i]]
    OBVIOUS
  <2>4. ASSUME NEW i \in 1..(n + 1)
        PROVE  k[i] = IF i = 1 THEN lists[i] ELSE k[i-1] \o lists[i]
    <3>1. CASE i <= n
      <4>1. i \in 1..n /\ k[i] = h[i] /\ (i # 1 => k[i - 1] = h[i - 1])
        BY <2>2, <2>3, <3>1
      <4>2. h[i] = IF i = 1 THEN lists[i] ELSE h[i-1] \o lists[i]
        BY <2>1, <4>1 DEF Joins
      <4> QED BY <4>1, <4>2
    <3>2. CASE ~(i <= n)
      <4>1. k[i] = IF i = 1 THEN lists[1] ELSE h[i - 1] \o lists[i]
        BY <2>3, <3>2
      <4>2. i # 1 => i - 1 \in 1..(n + 1) /\ i - 1 <= n
        BY <2>2
      <4>3. i # 1 => k[i - 1] = h[i - 1]
        BY <2>3, <4>2
      <4> QED BY <4>1, <4>3
    <3> QED BY <3>1, <3>2
  <2>5. Joins(lists, k, n + 1)
    BY <2>3, <2>4 DEF Joins
  <2> QED BY <2>2, <2>5
<1>3. B \in SUBSET Nat
  OBVIOUS
<1> HIDE DEF B
<1>4. B = Nat
  BY <1>1, <1>2, <1>3, NatSetInduction
<1> QED BY <1>4 DEF B

LEMMA FlattenJoins ==
  ASSUME NEW A, NEW lists \in Seq(A), lists # <<>>
  PROVE  \E h : /\ FlattenSeq(lists) = h[Len(lists)]
               /\ \A i \in 1..Len(lists) :
                    h[i] = IF i = 1 THEN lists[i] ELSE h[i-1] \o lists[i]
<1>1. Len(lists) \in Nat /\ Len(lists) # 0
  BY EmptySeq, LenProperties
<1> DEFINE flat == CHOOSE h : Joins(lists, h, Len(lists))
<1>2. Joins(lists, flat, Len(lists))
  BY <1>1, JoinsExist
<1>3. FlattenSeq(lists) = flat[Len(lists)]
  BY <1>1 DEF FlattenSeq, Joins
<1> HIDE DEF flat
<1> QED BY <1>2, <1>3 DEF Joins

(* What two lists hold, their concatenation holds, and nothing else.       *)
LEMMA ConcatHolds ==
  ASSUME NEW A, NEW a \in Seq(A), NEW b \in Seq(A)
  PROVE  /\ a \o b \in Seq(A)
         /\ \A i \in DOMAIN a : i \in DOMAIN (a \o b) /\ (a \o b)[i] = a[i]
         /\ \A i \in DOMAIN b : i + Len(a) \in DOMAIN (a \o b) /\ (a \o b)[i + Len(a)] = b[i]
         /\ \A p \in DOMAIN (a \o b) : \/ p \in DOMAIN a /\ (a \o b)[p] = a[p]
                                       \/ p - Len(a) \in DOMAIN b /\ (a \o b)[p] = b[p - Len(a)]
<1>1. PICK c : c = a \o b
  OBVIOUS
<1>2. /\ c \in Seq(A) /\ Len(c) = Len(a) + Len(b)
      /\ \A i \in 1..Len(a) + Len(b) : c[i] = IF i <= Len(a) THEN a[i] ELSE b[i - Len(a)]
  BY <1>1, ConcatProperties
<1>3. /\ Len(a) \in Nat /\ Len(b) \in Nat /\ DOMAIN a = 1..Len(a) /\ DOMAIN b = 1..Len(b)
      /\ DOMAIN c = 1..Len(c)
  BY <1>2, LenProperties
<1>4. PICK m \in Nat, n \in Nat : m = Len(a) /\ n = Len(b)
  BY <1>3
<1>5. DOMAIN a = 1..m /\ DOMAIN b = 1..n /\ DOMAIN c = 1..(m + n)
  BY <1>2, <1>3, <1>4
<1>6. \A i \in 1..(m + n) : c[i] = IF i <= m THEN a[i] ELSE b[i - m]
  BY <1>2, <1>4
<1>7. \A i \in 1..m : i \in 1..(m + n) /\ c[i] = a[i]
  BY <1>6
<1>8. ASSUME NEW i \in 1..n PROVE i + m \in 1..(m + n) /\ c[i + m] = b[i]
  <2>1. i + m \in 1..(m + n) /\ ~(i + m <= m) /\ (i + m) - m = i
    OBVIOUS
  <2> QED BY <1>6, <2>1
<1>9. \A p \in 1..(m + n) : \/ p \in 1..m /\ c[p] = a[p]
                            \/ p - m \in 1..n /\ c[p] = b[p - m]
  BY <1>6
<1> QED BY <1>1, <1>2, <1>4, <1>5, <1>7, <1>8, <1>9

(* Lists joined into one: it holds what they hold. *)
LEMMA JoinedLists ==
  ASSUME NEW A, NEW lists \in Seq(Seq(A))
  PROVE  /\ FlattenSeq(lists) \in Seq(A)
         /\ \A k \in DOMAIN lists : \A i \in DOMAIN lists[k] :
              \E p \in DOMAIN FlattenSeq(lists) : FlattenSeq(lists)[p] = lists[k][i]
         /\ \A p \in DOMAIN FlattenSeq(lists) :
              \E k \in DOMAIN lists : \E i \in DOMAIN lists[k] :
                FlattenSeq(lists)[p] = lists[k][i]
<1>0. /\ Len(lists) \in Nat /\ DOMAIN lists = 1..Len(lists)
      /\ \A k \in 1..Len(lists) : lists[k] \in Seq(A)
  BY LenProperties, ElementOfSeq
<1>1. CASE lists = <<>>
  BY <1>1 DEF FlattenSeq
<1>2. CASE lists # <<>>
  <2>0. Len(lists) # 0
    BY <1>2, EmptySeq
  <2>1. PICK flat : /\ FlattenSeq(lists) = flat[Len(lists)]
                    /\ \A i \in 1..Len(lists) :
                         flat[i] = IF i = 1 THEN lists[i] ELSE flat[i-1] \o lists[i]
    BY <1>2, FlattenJoins
  <2> DEFINE Held(n) ==
               /\ flat[n] \in Seq(A)
               /\ \A k \in 1..n : \A i \in DOMAIN lists[k] :
                    \E p \in DOMAIN flat[n] : flat[n][p] = lists[k][i]
               /\ \A p \in DOMAIN flat[n] : \E k \in 1..n : \E i \in DOMAIN lists[k] :
                    flat[n][p] = lists[k][i]
             C == {n \in Nat : n \in 1..Len(lists) => Held(n)}
  <2>2. 0 \in C
    <3>1. 0 \notin 1..Len(lists)
      BY <1>0
    <3> QED BY <3>1
  <2>3. ASSUME NEW n \in Nat, n \in 1..Len(lists) => Held(n), n + 1 \in 1..Len(lists)
        PROVE  Held(n + 1)
    <3>1. CASE n = 0
      <4>1. flat[1] = lists[1] /\ lists[1] \in Seq(A)
        BY <1>0, <2>0, <2>1
      <4>2. Held(1)
        <5>1. \A k \in 1..1 : k = 1
          OBVIOUS
        <5>2. 1 \in 1..1
          OBVIOUS
        <5> QED BY <4>1, <5>1, <5>2
      <4>3. n + 1 = 1
        BY <3>1
      <4> HIDE DEF Held
      <4> QED BY <4>2, <4>3
    <3>2. CASE n # 0
      <4>1. n \in 1..Len(lists)
        BY <1>0, <2>3, <3>2
      <4>2. Held(n)
        <5> HIDE DEF Held
        <5> QED BY <2>3, <4>1
      <4>3. flat[n + 1] = flat[n] \o lists[n + 1]
        <5>1. n + 1 # 1 /\ (n + 1) - 1 = n
          BY <3>2
        <5> QED BY <2>1, <2>3, <5>1
      <4>4. flat[n] \in Seq(A) /\ lists[n + 1] \in Seq(A)
        BY <1>0, <2>3, <4>2
      <4>5. PICK a, b, c : a = flat[n] /\ b = lists[n + 1] /\ c = flat[n + 1]
        OBVIOUS
      <4>6. /\ c \in Seq(A)
            /\ \A i \in DOMAIN a : i \in DOMAIN c /\ c[i] = a[i]
            /\ \A i \in DOMAIN b : i + Len(a) \in DOMAIN c /\ c[i + Len(a)] = b[i]
            /\ \A p \in DOMAIN c : \/ p \in DOMAIN a /\ c[p] = a[p]
                                   \/ p - Len(a) \in DOMAIN b /\ c[p] = b[p - Len(a)]
        <5>1. c = a \o b /\ a \in Seq(A) /\ b \in Seq(A)
          BY <4>3, <4>4, <4>5
        <5> QED BY <5>1, ConcatHolds
      <4>7. ASSUME NEW k \in 1..(n + 1), NEW i \in DOMAIN lists[k]
            PROVE  \E p \in DOMAIN c : c[p] = lists[k][i]
        <5>1. CASE k = n + 1
          <6>1. i \in DOMAIN b /\ lists[k][i] = b[i]
            BY <4>5, <5>1
          <6> QED BY <4>6, <6>1
        <5>2. CASE k # n + 1
          <6>1. k \in 1..n
            BY <5>2
          <6>2. PICK p \in DOMAIN a : a[p] = lists[k][i]
            BY <4>2, <4>5, <6>1
          <6> QED BY <4>6, <6>2
        <5> QED BY <5>1, <5>2
      <4>8. ASSUME NEW p \in DOMAIN c
            PROVE  \E k \in 1..(n + 1) : \E i \in DOMAIN lists[k] : c[p] = lists[k][i]
        <5>1. CASE p \in DOMAIN a /\ c[p] = a[p]
          <6>1. PICK k \in 1..n : \E i \in DOMAIN lists[k] : a[p] = lists[k][i]
            BY <4>2, <4>5, <5>1
          <6>2. k \in 1..(n + 1)
            OBVIOUS
          <6> QED BY <5>1, <6>1, <6>2
        <5>2. CASE p - Len(a) \in DOMAIN b /\ c[p] = b[p - Len(a)]
          <6>1. n + 1 \in 1..(n + 1)
            OBVIOUS
          <6> QED BY <4>5, <5>2, <6>1
        <5> QED BY <4>6, <5>1, <5>2
      <4> QED BY <4>5, <4>6, <4>7, <4>8
    <3> QED BY <3>1, <3>2
  <2> HIDE DEF Held
  <2>4. ASSUME NEW n \in C PROVE n + 1 \in C
    <3>1. n \in Nat /\ (n \in 1..Len(lists) => Held(n))
      OBVIOUS
    <3>2. n + 1 \in 1..Len(lists) => Held(n + 1)
      BY <2>3, <3>1
    <3> QED BY <3>1, <3>2
  <2>5. C \in SUBSET Nat
    OBVIOUS
  <2>6. C = Nat
    <3> HIDE DEF C
    <3> QED BY <2>2, <2>4, <2>5, NatSetInduction
  <2>7. Held(Len(lists))
    <3>1. Len(lists) \in 1..Len(lists) /\ Len(lists) \in C
      BY <1>0, <2>0, <2>6
    <3> QED BY <3>1
  <2>8. PICK m, all : m = Len(lists) /\ all = FlattenSeq(lists) /\ all = flat[m]
    BY <2>1
  <2>9. /\ all \in Seq(A)
        /\ \A k \in 1..m : \A i \in DOMAIN lists[k] : \E p \in DOMAIN all : all[p] = lists[k][i]
        /\ \A p \in DOMAIN all : \E k \in 1..m : \E i \in DOMAIN lists[k] : all[p] = lists[k][i]
    BY <2>7, <2>8 DEF Held
  <2>10. DOMAIN lists = 1..m
    BY <1>0, <2>8
  <2> HIDE DEF C
  <2>11. /\ all \in Seq(A)
         /\ \A k \in DOMAIN lists : \A i \in DOMAIN lists[k] :
              \E p \in DOMAIN all : all[p] = lists[k][i]
         /\ \A p \in DOMAIN all : \E k \in DOMAIN lists : \E i \in DOMAIN lists[k] :
              all[p] = lists[k][i]
    BY <2>9, <2>10
  <2> QED BY <2>8, <2>11
<1> QED BY <1>1, <1>2
-----------------------------------------------------------------------------
(* A finite strict order ranks its elements.                               *)
LEMMA RankExists ==
  ASSUME NEW n \in Nat, NEW P \in SUBSET ((1..n) \X (1..n)),
         \A i \in 1..n : <<i, i>> \notin P,
         \A i, j, k \in 1..n : <<i, j>> \in P /\ <<j, k>> \in P => <<i, k>> \in P
  PROVE  \E rank \in [1..n -> Nat] : /\ \A i \in 1..n : rank[i] <= n
                                     /\ \A i, j \in 1..n : <<j, i>> \in P => rank[j] < rank[i]
<1> DEFINE below(i) == {j \in 1..n : <<j, i>> \in P}
           rank == [i \in 1..n |-> Cardinality(below(i))]
<1>1. IsFiniteSet(1..n) /\ Cardinality(1..n) = n
  BY FS_Interval
<1>2. \A i \in 1..n : /\ IsFiniteSet(below(i)) /\ Cardinality(below(i)) \in Nat
                      /\ Cardinality(below(i)) <= n
  <2>1. \A i \in 1..n : below(i) \subseteq 1..n
    OBVIOUS
  <2> HIDE DEF below
  <2> QED BY <1>1, <2>1, FS_Subset, FS_CardinalityType
<1>3. ASSUME NEW i \in 1..n, NEW j \in 1..n, <<j, i>> \in P
      PROVE  Cardinality(below(j)) < Cardinality(below(i))
  <2>1. below(j) \subseteq below(i) /\ j \in below(i) /\ j \notin below(j)
    BY <1>3
  <2>2. IsFiniteSet(below(i)) /\ below(j) # below(i)
    BY <1>2, <2>1
  <2> HIDE DEF below
  <2> QED BY <1>2, <2>1, <2>2, FS_Subset
<1>4. rank \in [1..n -> Nat]
  <2> HIDE DEF below
  <2> QED BY <1>2
<1>5. \A i \in 1..n : rank[i] <= n
  <2> HIDE DEF below
  <2> QED BY <1>2
<1>6. \A i, j \in 1..n : <<j, i>> \in P => rank[j] < rank[i]
  <2> HIDE DEF below
  <2> QED BY <1>3
<1> HIDE DEF rank
<1> QED BY <1>4, <1>5, <1>6

(* One list is joined to itself, two follow each other.                    *)
LEMMA JoinOfFew ==
  ASSUME NEW A, NEW a \in Seq(A), NEW b \in Seq(A)
  PROVE  FlattenSeq(<<a>>) = a /\ FlattenSeq(<<a, b>>) = a \o b
<1>1. PICK S : S = Seq(A)
  OBVIOUS
<1>2. <<a>> \in Seq(S) /\ <<a, b>> \in Seq(S)
  BY <1>1
<1>3. FlattenSeq(<<a>>) = a
  <2>1. PICK lists \in Seq(S) : lists = <<a>>
    BY <1>2
  <2>2. lists # <<>> /\ Len(lists) = 1 /\ lists[1] = a
    BY <2>1
  <2>3. PICK h : /\ FlattenSeq(lists) = h[Len(lists)]
                 /\ \A i \in 1..Len(lists) : h[i] = IF i = 1 THEN lists[i] ELSE h[i-1] \o lists[i]
    BY <2>2, FlattenJoins
  <2>4. h[1] = lists[1]
    BY <2>2, <2>3
  <2> QED BY <2>1, <2>2, <2>3, <2>4
<1>4. FlattenSeq(<<a, b>>) = a \o b
  <2>1. PICK lists \in Seq(S) : lists = <<a, b>>
    BY <1>2
  <2>2. lists # <<>> /\ Len(lists) = 2 /\ lists[1] = a /\ lists[2] = b
    BY <2>1
  <2>3. PICK h : /\ FlattenSeq(lists) = h[Len(lists)]
                 /\ \A i \in 1..Len(lists) : h[i] = IF i = 1 THEN lists[i] ELSE h[i-1] \o lists[i]
    BY <2>2, FlattenJoins
  <2>4. 1 \in 1..Len(lists) /\ 2 \in 1..Len(lists)
    BY <2>2
  <2>5. \A i, j \in 1..Len(lists) : (i = 1 => h[i] = lists[i]) /\ (j = i - 1 => h[i] = h[j] \o lists[i])
    <3> TAKE i, j \in 1..Len(lists)
    <3>1. i \in Int /\ j \in Int /\ j >= 1
      BY <2>2
    <3>2. j = i - 1 => i # 1 /\ h[i - 1] = h[j]
      BY <3>1
    <3> QED BY <2>3, <3>2
  <2>6. 1 = 2 - 1
    OBVIOUS
  <2>7. h[1] = lists[1] /\ h[2] = h[1] \o lists[2]
    BY <2>4, <2>5, <2>6
  <2>8. h[2] = a \o b
    BY <2>2, <2>7
  <2> QED BY <2>1, <2>2, <2>3, <2>8
<1> QED BY <1>3, <1>4

HoldsAll(all, lists) ==
  /\ \A k \in DOMAIN lists : \A i \in DOMAIN lists[k] : \E p \in DOMAIN all : all[p] = lists[k][i]
  /\ \A p \in DOMAIN all : \E k \in DOMAIN lists : \E i \in DOMAIN lists[k] : all[p] = lists[k][i]

LEMMA JoinedHold ==
  ASSUME NEW A, NEW lists \in Seq(Seq(A)), NEW all, all = FlattenSeq(lists)
  PROVE  all \in Seq(A) /\ HoldsAll(all, lists)
BY JoinedLists DEF HoldsAll

(* Who is kept unless one before it is kept: a choice there always is.     *)
Kernel(S, R, kept) == kept = [i \in S |-> \A j \in S : <<j, i>> \in R => ~kept[j]]

LEMMA KernelExists ==
  ASSUME NEW S, NEW R, NEW n \in Nat, NEW rank \in [S -> Nat], \A i \in S : rank[i] <= n,
         \A i, j \in S : <<j, i>> \in R => rank[j] < rank[i]
  PROVE  \E kept : Kernel(S, R, kept)
<1> DEFINE Unless(k, i) == \A j \in S : <<j, i>> \in R => ~k[j]
           Upto(m, k) == \A i \in S : rank[i] < m => k[i] = Unless(k, i)
           A == {m \in Nat : \E k \in [S -> BOOLEAN] : Upto(m, k)}
<1>1. 0 \in A
  <2>1. [i \in S |-> TRUE] \in [S -> BOOLEAN] /\ Upto(0, [i \in S |-> TRUE])
    OBVIOUS
  <2> HIDE DEF Upto
  <2> QED BY <2>1
<1>2. ASSUME NEW m \in A PROVE m + 1 \in A
  <2>1. PICK k \in [S -> BOOLEAN] : Upto(m, k)
    OBVIOUS
  <2> DEFINE h == [i \in S |-> IF rank[i] < m THEN k[i] ELSE Unless(k, i)]
  <2>2. h \in [S -> BOOLEAN]
    OBVIOUS
  <2>3. ASSUME NEW i \in S, rank[i] < m + 1 PROVE h[i] = Unless(h, i)
    <3>1. \A j \in S : <<j, i>> \in R => rank[j] < m
      BY <2>3
    <3>2. \A j \in S : <<j, i>> \in R => h[j] = k[j]
      <4> HIDE DEF Unless
      <4> QED BY <3>1
    <3>3. Unless(h, i) = Unless(k, i)
      <4> HIDE DEF h
      <4> QED BY <3>2
    <3>4. h[i] = Unless(k, i)
      <4>1. rank[i] < m => k[i] = Unless(k, i)
        BY <2>1
      <4> HIDE DEF Unless
      <4> QED BY <4>1
    <3> HIDE DEF h, Unless
    <3> QED BY <3>3, <3>4
  <2>4. Upto(m + 1, h)
    <3> HIDE DEF h
    <3> QED BY <2>3
  <2> HIDE DEF h, Upto
  <2> QED BY <2>2, <2>4
<1>3. A = Nat
  <2> HIDE DEF A
  <2> QED BY <1>1, <1>2, NatSetInduction DEF A
<1>4. n + 1 \in A
  <2> HIDE DEF A
  <2> QED BY <1>3
<1>5. PICK k \in [S -> BOOLEAN] : Upto(n + 1, k)
  BY <1>4
<1>6. \A i \in S : k[i] = Unless(k, i)
  <2>1. \A i \in S : rank[i] < n + 1
    OBVIOUS
  <2> HIDE DEF Unless
  <2> QED BY <1>5, <2>1
<1>7. k = [i \in S |-> Unless(k, i)]
  <2> HIDE DEF Unless
  <2> QED BY <1>6
<1> QED BY <1>7 DEF Kernel
-----------------------------------------------------------------------------
(* Products of numbers that are not negative grow with each factor.        *)
LEMMA ProductGrows ==
  ASSUME NEW a \in Nat, NEW b \in Nat, NEW c \in Nat, a <= b
  PROVE  a * c <= b * c /\ a * c \in Nat /\ b * c \in Nat
<1>1. PICK d \in Nat : b = a + d
  <2>1. b - a \in Nat /\ b = a + (b - a)
    OBVIOUS
  <2> QED BY <2>1
<1>2. d * c \in Nat /\ a * c \in Nat
  OBVIOUS
<1>3. b * c = a * c + d * c
  BY <1>1
<1> QED BY <1>2, <1>3

(* Division with a remainder, by a number that need not be known.          *)
LEMMA DivisionOf ==
  ASSUME NEW n \in Nat \ {0}, NEW q \in Nat, NEW r \in 0..(n - 1), NEW x, x = n * q + r
  PROVE  x \div n = q /\ x % n = r
OBVIOUS

LEMMA Division ==
  ASSUME NEW x \in Nat, NEW n \in Nat \ {0}
  PROVE  /\ x \div n \in Nat /\ x % n \in 0..(n - 1)
         /\ x = n * (x \div n) + (x % n)
<1> DEFINE A == {y \in Nat : \E q \in Nat, r \in 0..(n - 1) : y = n * q + r}
<1>1. 0 \in A
  <2>1. 0 = n * 0 + 0 /\ 0 \in 0..(n - 1)
    OBVIOUS
  <2> QED BY <2>1
<1>2. ASSUME NEW y \in A PROVE y + 1 \in A
  <2>1. PICK q \in Nat, r \in 0..(n - 1) : y = n * q + r
    OBVIOUS
  <2>2. CASE r < n - 1
    <3>1. r + 1 \in 0..(n - 1) /\ y + 1 = n * q + (r + 1)
      BY <2>1, <2>2
    <3> QED BY <3>1
  <2>3. CASE r = n - 1
    <3>1. n * (q + 1) = n * q + n /\ n * q \in Nat
      OBVIOUS
    <3>2. y + 1 = n * (q + 1) + 0
      BY <2>1, <2>3, <3>1
    <3>3. 0 \in 0..(n - 1) /\ q + 1 \in Nat /\ y + 1 \in Nat
      OBVIOUS
    <3> QED BY <3>2, <3>3
  <2> QED BY <2>1, <2>2, <2>3
<1>3. A = Nat
  <2> HIDE DEF A
  <2> QED BY <1>1, <1>2, NatSetInduction DEF A
<1>4. x \in A
  <2> HIDE DEF A
  <2> QED BY <1>3
<1>5. PICK q \in Nat, r \in 0..(n - 1) : x = n * q + r
  BY <1>4
<1>6. x \div n = q /\ x % n = r
  BY <1>5, DivisionOf
<1> QED BY <1>5, <1>6

(* No stride is longer than the tile.                                      *)
LEMMA StrideHolds ==
  ASSUME NEW tile \in Nat \ {0}, NEW overlap \in 0..99
  PROVE  Stride(tile, overlap) \in 1..tile
<1> DEFINE n == tile * (100 - overlap)
           q == n \div 100
           r == n % 100
<1>1. n \in Nat /\ n <= 100 * tile
  OBVIOUS
<1> HIDE DEF n
<1>2. q \in Nat /\ r \in 0..99 /\ n = 100 * q + r
  BY <1>1
<1>3. q <= tile /\ (q = tile => r = 0)
  BY <1>1, <1>2
<1>4. Rounded(n, 100) \in Nat /\ Rounded(n, 100) <= tile
  BY <1>2, <1>3 DEF Rounded
<1> QED
  BY <1>4 DEF Stride, Larger, n

(* The march of _axis_offsets goes on for a first few steps.               *)
LEMMA MarchIsPrefix ==
  ASSUME NEW dim \in Nat \ {0}, NEW tile \in Nat \ {0}, NEW stride \in Nat \ {0}, tile < dim
  PROVE  \E n \in Nat \ {0} : /\ {k \in 0..dim : k * stride + tile < dim} = 0..(n - 1)
                              /\ Cardinality({k \in 0..dim : k * stride + tile < dim}) = n
<1> DEFINE March == {k \in 0..dim : k * stride + tile < dim}
           A == {n \in Nat : n \in March \/ \E m \in 1..n : March = 0..(m - 1)}
<1>1. 0 \in March
  OBVIOUS
<1>2. \A n \in Nat : n \in March => 0..n \subseteq March
  <2> SUFFICES ASSUME NEW n \in March, NEW k \in 0..n PROVE k \in March
    OBVIOUS
  <2>1. k * stride <= n * stride /\ k * stride \in Nat /\ n * stride \in Nat
    BY ProductGrows
  <2>2. n * stride + tile < dim /\ n \in 0..dim
    OBVIOUS
  <2>3. k * stride + tile < dim /\ k \in 0..dim
    BY <2>1, <2>2
  <2> QED BY <2>3
<1>3. dim \notin March
  <2>1. 1 * dim <= stride * dim /\ stride * dim = dim * stride
    BY ProductGrows
  <2> QED BY <2>1
<1>4. ASSUME NEW n \in A PROVE n + 1 \in A
  <2>1. CASE \E m \in 1..n : March = 0..(m - 1)
    BY <2>1
  <2>2. CASE n \in March /\ n + 1 \in March
    BY <2>2
  <2>3. CASE n \in March /\ n + 1 \notin March
    <3>1. \A k \in March : k <= n
      <4> TAKE k \in March
      <4>1. k \in Nat /\ 0..k \subseteq March
        BY <1>2
      <4> HIDE DEF March
      <4> QED BY <2>3, <4>1
    <3>2. March = 0..((n + 1) - 1)
      <4>1. 0..n \subseteq March /\ March \subseteq Nat /\ n \in Nat
        BY <1>2, <2>3
      <4>2. (n + 1) - 1 = n
        BY <4>1
      <4>3. March \subseteq 0..n
        <5> HIDE DEF March
        <5> QED BY <3>1, <4>1
      <4> HIDE DEF March
      <4> QED BY <4>1, <4>2, <4>3
    <3>3. n + 1 \in Nat /\ n + 1 \in 1..(n + 1)
      OBVIOUS
    <3> HIDE DEF March
    <3> QED BY <3>2, <3>3
  <2> QED BY <2>1, <2>2, <2>3
<1>5. A = Nat
  <2>1. 0 \in A
    BY <1>1
  <2> HIDE DEF A
  <2> QED BY <2>1, <1>4, NatSetInduction DEF A
<1>6. PICK m \in 1..dim : March = 0..(m - 1)
  BY <1>3, <1>5
<1>7. Cardinality(March) = m
  <2>1. Cardinality(0..(m - 1)) = IF 0 > m - 1 THEN 0 ELSE (m - 1) - 0 + 1
    BY FS_Interval
  <2> HIDE DEF March
  <2> QED BY <1>6, <2>1
<1>8. m \in Nat \ {0}
  OBVIOUS
<1> HIDE DEF March
<1> QED BY <1>6, <1>7, <1>8 DEF March

(* What is asked of the offsets along an axis: every tile fits, and every  *)
(* stretch that is no longer than what two neighbours share, and one       *)
(* pixel, lies in one.                                                     *)
Short(dim, tile, stride, a, b) == a < b /\ (b - a <= tile - stride + 1 \/ dim <= tile)

OffsetFits(dim, tile, off) ==
  off \in Nat /\ off + Smaller(tile, dim) <= dim /\ Smaller(tile, dim - off) = Smaller(tile, dim)

AxisCovered(dim, tile, stride, offs) ==
  /\ offs \in Seq(Nat) /\ Len(offs) \in Nat \ {0}
  /\ \A i \in 1..Len(offs) : OffsetFits(dim, tile, offs[i])
  /\ \A a \in 0..(dim - 1), b \in 1..dim :
       Short(dim, tile, stride, a, b) =>
         \E i \in 1..Len(offs) : offs[i] <= a /\ b <= offs[i] + Smaller(tile, dim)

LEMMA AxisOffsetsHold ==
  ASSUME NEW dim \in Nat \ {0}, NEW tile \in Nat \ {0}, NEW stride \in 1..tile
  PROVE  AxisCovered(dim, tile, stride, AxisOffsets(dim, tile, stride))
<1> USE DEF AxisCovered, OffsetFits, Short
<1>1. CASE dim <= tile
  <2>1. AxisOffsets(dim, tile, stride) = <<0>>
    BY <1>1 DEF AxisOffsets
  <2>2. Smaller(tile, dim) = dim /\ Smaller(tile, dim - 0) = dim
    BY <1>1 DEF Smaller
  <2> QED BY <2>1, <2>2
<1>2. CASE tile < dim
  <2>1. PICK n \in Nat \ {0} : /\ {k \in 0..dim : k * stride + tile < dim} = 0..(n - 1)
                               /\ Cardinality({k \in 0..dim : k * stride + tile < dim}) = n
    <3>1. stride \in Nat \ {0}
      OBVIOUS
    <3>2. \A st \in Nat \ {0} : \E n \in Nat \ {0} :
            /\ {k \in 0..dim : k * st + tile < dim} = 0..(n - 1)
            /\ Cardinality({k \in 0..dim : k * st + tile < dim}) = n
      BY <1>2, MarchIsPrefix
    <3> QED BY <3>1, <3>2
  <2>2. PICK offs : offs = AxisOffsets(dim, tile, stride)
    OBVIOUS
  <2>3. offs = [i \in 1..(n + 1) |-> IF i <= n THEN (i - 1) * stride ELSE dim - tile]
    BY <1>2, <2>1, <2>2 DEF AxisOffsets
  <2>4. \A k \in 0..(n - 1) : k * stride \in Nat /\ k * stride + tile < dim
    <3> TAKE k \in 0..(n - 1)
    <3>1. k \in {j \in 0..dim : j * stride + tile < dim}
      BY <2>1
    <3> QED BY <3>1
  <2>5. \A i \in 1..(n + 1) : offs[i] \in Nat /\ offs[i] + tile <= dim
    <3> SUFFICES ASSUME NEW i \in 1..(n + 1) PROVE offs[i] \in Nat /\ offs[i] + tile <= dim
      OBVIOUS
    <3>1. CASE i <= n
      <4>1. i - 1 \in 0..(n - 1) /\ offs[i] = (i - 1) * stride
        BY <2>3, <3>1
      <4> QED BY <2>4, <4>1
    <3>2. CASE i = n + 1
      BY <2>3, <3>2, <1>2
    <3> QED BY <3>1, <3>2
  <2>6. offs \in Seq(Nat) /\ Len(offs) = n + 1 /\ n + 1 \in Nat \ {0}
    BY <2>3, <2>5
  <2>7. Smaller(tile, dim) = tile /\ \A i \in 1..(n + 1) : Smaller(tile, dim - offs[i]) = tile
    BY <1>2, <2>5 DEF Smaller
  <2>8. ASSUME NEW a \in 0..(dim - 1), NEW b \in 1..dim, a < b, b - a <= tile - stride + 1
        PROVE  \E i \in 1..(n + 1) : offs[i] <= a /\ b <= offs[i] + tile
    <3>1. CASE a >= dim - tile
      <4>1. n + 1 \in 1..(n + 1) /\ offs[n + 1] = dim - tile
        BY <2>3
      <4> QED BY <3>1, <4>1
    <3>2. CASE a + tile < dim
      <4>1. PICK q \in Nat, r \in 0..(stride - 1) : a = q * stride + r
        <5>1. /\ a \div stride \in Nat /\ a % stride \in 0..(stride - 1)
              /\ a = stride * (a \div stride) + (a % stride)
          <6>1. a \in Nat /\ stride \in Nat \ {0}
            OBVIOUS
          <6> QED BY <6>1, Division
        <5>2. stride * (a \div stride) = (a \div stride) * stride
          BY <5>1
        <5> QED BY <5>1, <5>2
      <4>2. q * stride \in Nat /\ q * stride <= a
        BY <4>1
      <4>3. q <= dim
        <5>1. q * 1 <= q * stride
          BY <4>1
        <5> QED BY <4>2, <5>1
      <4>4. q \in 0..(n - 1)
        <5>1. q \in {j \in 0..dim : j * stride + tile < dim}
          BY <3>2, <4>2, <4>3
        <5> QED BY <2>1, <5>1
      <4>5. q + 1 \in 1..n /\ offs[q + 1] = q * stride
        BY <2>3, <4>4
      <4>6. b <= q * stride + tile
        BY <2>8, <4>1, <4>2
      <4> QED BY <4>2, <4>5, <4>6
    <3> QED BY <3>1, <3>2
  <2> HIDE DEF Smaller
  <2>9. \A a \in 0..(dim - 1), b \in 1..dim :
          a < b /\ b - a <= tile - stride + 1 =>
            \E i \in 1..(n + 1) : offs[i] <= a /\ b <= offs[i] + tile
    BY <2>8
  <2>10. \A i \in 1..Len(offs) : OffsetFits(dim, tile, offs[i])
    <3> TAKE i \in 1..Len(offs)
    <3>1. i \in 1..(n + 1)
      BY <2>6
    <3> QED BY <2>5, <2>7, <3>1 DEF OffsetFits
  <2>11. \A a \in 0..(dim - 1), b \in 1..dim :
           Short(dim, tile, stride, a, b) =>
             \E i \in 1..Len(offs) : offs[i] <= a /\ b <= offs[i] + Smaller(tile, dim)
    <3> TAKE a \in 0..(dim - 1), b \in 1..dim
    <3>1. HAVE Short(dim, tile, stride, a, b)
    <3>2. a < b /\ b - a <= tile - stride + 1
      BY <1>2, <3>1 DEF Short
    <3>3. PICK i \in 1..(n + 1) : offs[i] <= a /\ b <= offs[i] + tile
      BY <2>9, <3>2
    <3>4. i \in 1..Len(offs)
      BY <2>6
    <3> QED BY <2>7, <3>3, <3>4
  <2> HIDE DEF Short, OffsetFits
  <2> QED BY <2>2, <2>6, <2>10, <2>11 DEF AxisCovered
<1> QED BY <1>1, <1>2

(* Every place of a grid is one of the places of the list of its rows.     *)
LEMMA GridPlaces ==
  ASSUME NEW m \in Nat \ {0}, NEW n \in Nat \ {0}
  PROVE  /\ m * n \in Nat \ {0}
         /\ \A i \in 1..(m * n) : ((i - 1) \div n) + 1 \in 1..m /\ ((i - 1) % n) + 1 \in 1..n
<1>1. m * n \in Nat \ {0}
  <2>1. 1 * n <= m * n /\ m * n \in Nat
    BY ProductGrows
  <2> QED BY <2>1
<1>2. ASSUME NEW i \in 1..(m * n)
      PROVE  ((i - 1) \div n) + 1 \in 1..m /\ ((i - 1) % n) + 1 \in 1..n
  <2>1. PICK q \in Nat, r \in 0..(n - 1) :
          q = (i - 1) \div n /\ r = (i - 1) % n /\ i - 1 = n * q + r
    <3>1. i - 1 \in Nat
      BY <1>1
    <3> QED BY <3>1, Division
  <2>2. q < m
    <3>1. SUFFICES ASSUME m <= q PROVE FALSE
      OBVIOUS
    <3>2. m * n <= q * n /\ q * n = n * q
      BY <3>1, ProductGrows
    <3>3. m * n \in Nat /\ n * q \in Nat /\ i <= m * n
      BY <1>1
    <3> QED BY <2>1, <3>2, <3>3
  <2>3. q + 1 \in 1..m /\ r + 1 \in 1..n
    BY <2>2
  <2> QED BY <2>1, <2>3
<1> QED BY <1>1, <1>2

IsPlace(n, i, r, c) == ((i - 1) \div n) + 1 = r /\ ((i - 1) % n) + 1 = c
Places(m, n) == 1..(m * n)

LEMMA GridPlace ==
  ASSUME NEW m \in Nat \ {0}, NEW n \in Nat \ {0}, NEW r \in 1..m, NEW c \in 1..n
  PROVE  \E i \in Places(m, n) : IsPlace(n, i, r, c)
<1>1. PICK q \in Nat, x \in 0..(n - 1) : q = r - 1 /\ x = c - 1
  <2>1. r - 1 \in Nat /\ c - 1 \in 0..(n - 1)
    OBVIOUS
  <2> QED BY <2>1
<1>2. PICK y : y = n * q + x
  OBVIOUS
<1>3. n * q \in Nat /\ y \in Nat
  BY <1>2
<1>4. y \div n = q /\ y % n = x
  BY <1>2, DivisionOf
<1>5. y + 1 <= m * n
  <2>1. r * n <= m * n /\ r * n \in Nat /\ m * n \in Nat
    BY ProductGrows
  <2>2. r * n = n * q + n
    BY <1>1
  <2> QED BY <1>2, <1>3, <2>1, <2>2
<1>6. (y + 1) - 1 = y /\ y + 1 \in 1..(m * n)
  BY GridPlaces, <1>3, <1>5
<1>7. (((y + 1) - 1) \div n) + 1 = r /\ (((y + 1) - 1) % n) + 1 = c
  BY <1>1, <1>4, <1>6
<1> QED BY <1>6, <1>7 DEF Places, IsPlace

(* The windows of compute_tile_windows lie in the image, are full tiles    *)
(* along every axis that is longer than one, and show whole whatever is no *)
(* longer than what two neighbours share, and one pixel.                   *)
WindowsFit(width, height, tile, windows) ==
  \A i \in DOMAIN windows :
    /\ windows[i].x1 = windows[i].x0 + Smaller(tile, width) /\ windows[i].x1 <= width
    /\ windows[i].y1 = windows[i].y0 + Smaller(tile, height) /\ windows[i].y1 <= height

Shows(windows, x0, x1, y0, y1) ==
  \E i \in DOMAIN windows : /\ windows[i].x0 <= x0 /\ x1 <= windows[i].x1
                            /\ windows[i].y0 <= y0 /\ y1 <= windows[i].y1

WindowsShow(width, height, tile, stride, windows) ==
  \A x0 \in 0..(width - 1), x1 \in 1..width, y0 \in 0..(height - 1), y1 \in 1..height :
    Short(width, tile, stride, x0, x1) /\ Short(height, tile, stride, y0, y1) =>
      Shows(windows, x0, x1, y0, y1)

LEMMA WindowsHold ==
  ASSUME NEW width, NEW height, NEW tile, NEW overlap,
         Tileable(width, height, tile, overlap),
         NEW stride, stride = Stride(tile, overlap),
         NEW windows, windows = Windows(width, height, tile, overlap)
  PROVE  /\ windows \in Seq(Box) /\ windows # <<>>
         /\ WindowsFit(width, height, tile, windows)
         /\ WindowsShow(width, height, tile, stride, windows)
<1>1. /\ width \in Nat \ {0} /\ height \in Nat \ {0} /\ tile \in Nat \ {0}
      /\ overlap \in 0..99 /\ stride \in 1..tile
  BY StrideHolds DEF Tileable
<1>2. PICK rows, cols, m, n :
        /\ rows = AxisOffsets(height, tile, stride) /\ m = Len(rows)
        /\ cols = AxisOffsets(width, tile, stride) /\ n = Len(cols)
  OBVIOUS
<1>a. AxisCovered(height, tile, stride, rows) /\ AxisCovered(width, tile, stride, cols)
  BY <1>1, <1>2, AxisOffsetsHold
<1>3. /\ m \in Nat \ {0} /\ \A i \in 1..m : OffsetFits(height, tile, rows[i])
      /\ \A a \in 0..(height - 1), b \in 1..height :
           Short(height, tile, stride, a, b) =>
             \E i \in 1..m : rows[i] <= a /\ b <= rows[i] + Smaller(tile, height)
  BY <1>2, <1>a DEF AxisCovered
<1>4. /\ n \in Nat \ {0} /\ \A i \in 1..n : OffsetFits(width, tile, cols[i])
      /\ \A a \in 0..(width - 1), b \in 1..width :
           Short(width, tile, stride, a, b) =>
             \E i \in 1..n : cols[i] <= a /\ b <= cols[i] + Smaller(tile, width)
  BY <1>2, <1>a DEF AxisCovered
<1>5. windows = [i \in 1..(m * n) |->
         [ x0 |-> cols[((i - 1) % n) + 1],
           x1 |-> cols[((i - 1) % n) + 1] + Smaller(tile, width - cols[((i - 1) % n) + 1]),
           y0 |-> rows[((i - 1) \div n) + 1],
           y1 |-> rows[((i - 1) \div n) + 1]
                    + Smaller(tile, height - rows[((i - 1) \div n) + 1]) ]]
  BY <1>2 DEF Windows
<1>6. Smaller(tile, width) \in Nat /\ Smaller(tile, height) \in Nat
  BY <1>1 DEF Smaller
<1>7. m * n \in Nat \ {0}
  BY <1>3, <1>4, GridPlaces
<1>8. \A i \in 1..(m * n) :
        \E r \in 1..m, c \in 1..n :
          windows[i] = [ x0 |-> cols[c], x1 |-> cols[c] + Smaller(tile, width),
                         y0 |-> rows[r], y1 |-> rows[r] + Smaller(tile, height) ]
  <2> TAKE i \in 1..(m * n)
  <2>1. PICK r \in 1..m, c \in 1..n : r = ((i - 1) \div n) + 1 /\ c = ((i - 1) % n) + 1
    BY <1>3, <1>4, GridPlaces
  <2>2. OffsetFits(height, tile, rows[r]) /\ OffsetFits(width, tile, cols[c])
    BY <1>3, <1>4
  <2> QED BY <1>5, <2>1, <2>2 DEF OffsetFits
<1>9. \A i \in 1..(m * n) :
        /\ windows[i] \in Box
        /\ windows[i].x1 = windows[i].x0 + Smaller(tile, width) /\ windows[i].x1 <= width
        /\ windows[i].y1 = windows[i].y0 + Smaller(tile, height) /\ windows[i].y1 <= height
  <2> TAKE i \in 1..(m * n)
  <2>1. PICK r \in 1..m, c \in 1..n :
          windows[i] = [ x0 |-> cols[c], x1 |-> cols[c] + Smaller(tile, width),
                         y0 |-> rows[r], y1 |-> rows[r] + Smaller(tile, height) ]
    BY <1>8
  <2>2. OffsetFits(height, tile, rows[r]) /\ OffsetFits(width, tile, cols[c])
    BY <1>3, <1>4
  <2> HIDE DEF Smaller
  <2> QED BY <1>6, <2>1, <2>2 DEF Box, OffsetFits
<1>10. windows \in Seq(Box) /\ DOMAIN windows = 1..(m * n) /\ windows # <<>>
  <2>1. DOMAIN windows = 1..(m * n)
    BY <1>5
  <2>2. windows \in [1..(m * n) -> Box]
    BY <1>5, <1>9
  <2> QED BY <1>7, <2>1, <2>2
<1>11. ASSUME NEW x0 \in 0..(width - 1), NEW x1 \in 1..width,
              NEW y0 \in 0..(height - 1), NEW y1 \in 1..height,
              Short(width, tile, stride, x0, x1), Short(height, tile, stride, y0, y1)
       PROVE  Shows(windows, x0, x1, y0, y1)
  <2>1. PICK r \in 1..m : rows[r] <= y0 /\ y1 <= rows[r] + Smaller(tile, height)
    BY <1>3, <1>11
  <2>2. PICK c \in 1..n : cols[c] <= x0 /\ x1 <= cols[c] + Smaller(tile, width)
    BY <1>4, <1>11
  <2>3. PICK i \in Places(m, n) : IsPlace(n, i, r, c)
    <3>1. m \in Nat \ {0} /\ n \in Nat \ {0}
      BY <1>3, <1>4
    <3> QED BY <3>1, GridPlace
  <2>4. OffsetFits(height, tile, rows[r]) /\ OffsetFits(width, tile, cols[c])
    BY <1>3, <1>4
  <2>5. /\ windows[i].x0 = cols[c] /\ windows[i].x1 = cols[c] + Smaller(tile, width)
        /\ windows[i].y0 = rows[r] /\ windows[i].y1 = rows[r] + Smaller(tile, height)
    BY <1>5, <2>3, <2>4 DEF OffsetFits, Places, IsPlace
  <2> QED BY <1>10, <2>1, <2>2, <2>3, <2>5 DEF Places, Shows
<1>12. WindowsFit(width, height, tile, windows)
  BY <1>9, <1>10 DEF WindowsFit
<1>13. WindowsShow(width, height, tile, stride, windows)
  BY <1>11 DEF WindowsShow
<1> QED BY <1>10, <1>12, <1>13
-----------------------------------------------------------------------------
(* The ladder. *)

(* A batch of the ladder lies in what was handled. *)
BatchesIn(l) ==
  \A i \in DOMAIN l.partial :
    /\ 1 <= l.partial[i].first
    /\ l.partial[i].first <= l.partial[i].last
    /\ l.partial[i].last <= l.handled

(* Until the first warning there is one batch, of everything. *)
WholeUntilWarned(l) ==
  l.warnings = 0 =>
    /\ l.size = Len(l.request.tiles)
    /\ l.quant = Quantization[l.request.entry]
    /\ \/ l.handled = 0 /\ l.partial = <<>>
       \/ /\ l.handled = Len(l.request.tiles)
          /\ l.partial = << [ first |-> 1, last |-> Len(l.request.tiles),
                              quant |-> Quantization[l.request.entry] ] >>

(* TilesAccounted alone is not inductive: that a new batch lies behind all *)
(* earlier ones needs BatchesIn, and LossIsLastResort needs to know what   *)
(* the state before the answer is.                                         *)
LadderInv(l) ==
  \/ l = Idle
  \/ /\ l \in LadderRecord
     /\ Len(l.request.tiles) \in Nat \ {0}
     /\ l.handled <= Len(l.request.tiles)
     /\ BatchesIn(l)
     /\ WholeUntilWarned(l)
     /\ TilesAccounted(l)
     /\ l.dropped # {} => l.quant = LastTier

(* An idle ladder is not one that runs. *)
LEMMA RunningIsRecord ==
  ASSUME NEW l, LadderInv(l), l.status = "running"
  PROVE  /\ l # Idle
         /\ l \in LadderRecord
         /\ Len(l.request.tiles) \in Nat \ {0}
         /\ l.handled <= Len(l.request.tiles)
         /\ BatchesIn(l)
         /\ WholeUntilWarned(l)
         /\ TilesAccounted(l)
         /\ l.dropped # {} => l.quant = LastTier
BY DEF LadderInv, Idle

(* A record of the ladder's fields is not the idle one. *)
LEMMA RecordNotIdle ==
  ASSUME NEW l \in LadderRecord
  PROVE  l # Idle
BY DEF LadderRecord, Idle

(* A call begins with all tiles left. *)
LEMMA NewLadderInv ==
  ASSUME NEW r \in Requests, RegistryServes
  PROVE  LadderInv(NewLadder(r))
<1> DEFINE l == NewLadder(r)
<1>1. r \in Request /\ r.tiles # <<>>
  BY DEF RegistryServes
<1>2. r.tiles \in Seq(Images) /\ Len(r.tiles) \in Nat \ {0} /\ r.entry \in Models
  BY <1>1, EmptySeq, LenProperties DEF Request
<1>3. Quantization[r.entry] \in Quants
  BY <1>2 DEF RegistryServes
<1>4. l \in LadderRecord
  BY <1>1, <1>2, <1>3 DEF NewLadder, LadderRecord
<1>5. l.partial = <<>> /\ l.dropped = {} /\ l.handled = 0 /\ l.status = "running"
      /\ l.request = r /\ l.size = Len(r.tiles) /\ l.quant = Quantization[r.entry]
  BY DEF NewLadder
<1> HIDE DEF l
<1>6. Covered(l) = {}
  BY <1>5 DEF Covered
<1>7. TilesAccounted(l)
  BY <1>5, <1>6 DEF TilesAccounted
<1>8. BatchesIn(l) /\ WholeUntilWarned(l)
  BY <1>5 DEF BatchesIn, WholeUntilWarned
<1>9. QED
  BY <1>2, <1>4, <1>5, <1>7, <1>8 DEF LadderInv, l

(* The batch lies behind what was handled, is not empty, and ends within   *)
(* the tiles.                                                              *)
LEMMA BatchSpan ==
  ASSUME NEW l, LadderInv(l), l.status = "running", Left(l) > 0
  PROVE  /\ BatchEnd(l) \in Nat
         /\ l.handled < BatchEnd(l)
         /\ BatchEnd(l) <= Len(l.request.tiles)
<1>1. /\ l.handled \in Nat /\ l.size \in Nat \ {0} /\ Len(l.request.tiles) \in Nat
      /\ l.handled <= Len(l.request.tiles)
  BY RunningIsRecord DEF LadderRecord
<1>2. QED BY <1>1 DEF BatchEnd, Left

(* The batches of an appended list are those of the list and the last one. *)
LEMMA CoveredAppend ==
  ASSUME NEW l, NEW m, NEW b, NEW S, l.partial \in Seq(S), b \in S,
         m.partial = Append(l.partial, b)
  PROVE  /\ DOMAIN m.partial = 1..Len(l.partial) + 1
         /\ DOMAIN l.partial = 1..Len(l.partial)
         /\ Len(l.partial) \in Nat
         /\ \A i \in DOMAIN l.partial : m.partial[i] = l.partial[i]
         /\ m.partial[Len(l.partial) + 1] = b
         /\ Covered(m) = Covered(l) \cup (b.first..b.last)
<1>1. /\ Len(Append(l.partial, b)) = Len(l.partial) + 1
      /\ \A i \in 1..Len(l.partial) : Append(l.partial, b)[i] = l.partial[i]
      /\ Append(l.partial, b)[Len(l.partial) + 1] = b
      /\ Append(l.partial, b) \in Seq(S)
  BY AppendProperties
<1>2. Len(l.partial) \in Nat /\ DOMAIN l.partial = 1..Len(l.partial)
  BY LenProperties
<1>3. DOMAIN m.partial = 1..Len(l.partial) + 1
  BY <1>1, LenProperties
<1>4. Covered(m) = Covered(l) \cup (b.first..b.last)
  BY <1>1, <1>2, <1>3 DEF Covered
<1>5. QED BY <1>1, <1>2, <1>3, <1>4

(* A batch that succeeds. *)
LEMMA ProcessedInv ==
  ASSUME NEW l, LadderInv(l), l.status = "running", Left(l) > 0
  PROVE  LadderInv(Processed(l)) /\ Left(Processed(l)) < Left(l)
<1> DEFINE m == Processed(l)
           b == Batch(l)
<1>0. /\ l \in LadderRecord
      /\ Len(l.request.tiles) \in Nat \ {0}
      /\ l.handled <= Len(l.request.tiles)
      /\ BatchesIn(l)
      /\ WholeUntilWarned(l)
      /\ TilesAccounted(l)
      /\ l.dropped # {} => l.quant = LastTier
      /\ l # Idle
  BY RunningIsRecord
<1>1. /\ BatchEnd(l) \in Nat /\ l.handled < BatchEnd(l)
      /\ BatchEnd(l) <= Len(l.request.tiles)
  BY BatchSpan
<1>2. /\ b \in [first : Nat, last : Nat, quant : Quants]
      /\ b.first = l.handled + 1 /\ b.last = BatchEnd(l) /\ b.quant = l.quant
  BY <1>0, <1>1 DEF Batch, LadderRecord
<1>3. l.partial \in Seq([first : Nat, last : Nat, quant : Quants])
  BY <1>0 DEF LadderRecord
<1>4. /\ m.partial = Append(l.partial, b) /\ m.handled = BatchEnd(l)
      /\ m.status = l.status /\ m.request = l.request /\ m.size = l.size
      /\ m.quant = l.quant /\ m.dropped = l.dropped /\ m.warnings = l.warnings
  BY <1>0 DEF Processed, LadderRecord
<1>5. m \in LadderRecord
  <2> HIDE DEF b
  <2>1. Append(l.partial, b) \in Seq([first : Nat, last : Nat, quant : Quants])
    BY <1>2, <1>3, AppendProperties
  <2>2. QED BY <1>0, <1>1, <2>1 DEF Processed, LadderRecord, b
<1> HIDE DEF m, b
<1>6. /\ DOMAIN m.partial = 1..Len(l.partial) + 1
      /\ DOMAIN l.partial = 1..Len(l.partial)
      /\ Len(l.partial) \in Nat
      /\ \A i \in DOMAIN l.partial : m.partial[i] = l.partial[i]
      /\ m.partial[Len(l.partial) + 1] = b
      /\ Covered(m) = Covered(l) \cup (b.first..b.last)
  <2> DEFINE S == [first : Nat, last : Nat, quant : Quants]
  <2>1. l.partial \in Seq(S) /\ b \in S /\ m.partial = Append(l.partial, b)
    BY <1>2, <1>3, <1>4
  <2> HIDE DEF S
  <2>2. QED BY <2>1, CoveredAppend
<1>a. \A i \in DOMAIN l.partial : l.partial[i].first \in Nat /\ l.partial[i].last \in Nat
  <2> SUFFICES ASSUME NEW i \in DOMAIN l.partial
               PROVE  l.partial[i].first \in Nat /\ l.partial[i].last \in Nat
    OBVIOUS
  <2>1. l.partial[i] \in [first : Nat, last : Nat, quant : Quants]
    BY <1>3, <1>6, ElementOfSeq
  <2>2. QED BY <2>1
<1>b. l.handled \in Nat
  BY <1>0 DEF LadderRecord
<1>7. BatchesIn(m)
  <2>1. ASSUME NEW i \in DOMAIN l.partial
        PROVE  /\ 1 <= m.partial[i].first
               /\ m.partial[i].first <= m.partial[i].last
               /\ m.partial[i].last <= m.handled
    BY <1>0, <1>1, <1>4, <1>6, <1>a, <1>b, <2>1 DEF BatchesIn
  <2>2. 1 <= b.first /\ b.first <= b.last /\ b.last <= m.handled
    BY <1>1, <1>2, <1>4, <1>b
  <2>3. QED BY <1>6, <2>1, <2>2 DEF BatchesIn
<1>8. TilesAccounted(m)
  <2>1. /\ Covered(l) \cup l.dropped = 1..l.handled
        /\ Covered(l) \cap l.dropped = {}
        /\ \A i, j \in DOMAIN l.partial : i < j => l.partial[i].last < l.partial[j].first
    BY <1>0 DEF TilesAccounted
  <2>2. l.handled \in Nat
    BY <1>0 DEF LadderRecord
  <2>3. Covered(m) \cup m.dropped = 1..m.handled
    BY <1>1, <1>2, <1>4, <1>6, <2>1, <2>2
  <2>4. Covered(m) \cap m.dropped = {}
    BY <1>1, <1>2, <1>4, <1>6, <2>1, <2>2
  <2>5. ASSUME NEW i \in DOMAIN m.partial, NEW j \in DOMAIN m.partial, i < j
        PROVE  m.partial[i].last < m.partial[j].first
    <3>1. i \in DOMAIN l.partial
      BY <1>6, <2>5
    <3>2. CASE j \in DOMAIN l.partial
      BY <1>6, <2>1, <2>5, <3>1, <3>2
    <3>3. CASE j = Len(l.partial) + 1
      <4>1. l.partial[i].last <= l.handled /\ l.partial[i].last \in Nat
        BY <1>0, <1>a, <3>1 DEF BatchesIn
      <4>2. QED BY <1>2, <1>6, <2>2, <3>1, <3>3, <4>1
    <3>4. QED BY <1>6, <2>5, <3>2, <3>3
  <2>6. m.status = "running"
    BY <1>4
  <2>7. QED BY <2>3, <2>4, <2>5, <2>6 DEF TilesAccounted
<1>9. WholeUntilWarned(m)
  <2> SUFFICES ASSUME l.warnings = 0
               PROVE  /\ m.size = Len(m.request.tiles)
                      /\ m.quant = Quantization[m.request.entry]
                      /\ m.handled = Len(m.request.tiles)
                      /\ m.partial = << [ first |-> 1, last |-> Len(m.request.tiles),
                                          quant |-> Quantization[m.request.entry] ] >>
    BY <1>4 DEF WholeUntilWarned
  <2>1. /\ l.size = Len(l.request.tiles)
        /\ l.quant = Quantization[l.request.entry]
        /\ l.handled = 0 /\ l.partial = <<>>
    BY <1>0 DEF WholeUntilWarned, Left
  <2>2. BatchEnd(l) = Len(l.request.tiles)
    BY <1>0, <2>1 DEF BatchEnd, Left
  <2>3. m.partial = <<b>>
    BY <1>4, <2>1
  <2>4. b = [ first |-> 1, last |-> Len(l.request.tiles), quant |-> l.quant ]
    BY <2>1, <2>2 DEF b, Batch
  <2>5. QED BY <1>4, <2>1, <2>2, <2>3, <2>4
<1>10. LadderInv(m)
  BY <1>0, <1>1, <1>4, <1>5, <1>7, <1>8, <1>9 DEF LadderInv
<1>11. Left(m) < Left(l)
  BY <1>0, <1>1, <1>4 DEF Left, LadderRecord
<1>12. QED BY <1>10, <1>11 DEF m

(* An out-of-memory error, in each of the three ways the ladder answers    *)
(* it.                                                                     *)
LEMMA OutOfMemoryInv ==
  ASSUME NEW l, NEW m, LadderInv(l), l.status = "running", Left(l) > 0,
         OutOfMemory(l, m)
  PROVE  LadderInv(m) /\ Descends(l, m)
<1>0. /\ l \in LadderRecord
      /\ Len(l.request.tiles) \in Nat \ {0}
      /\ l.handled <= Len(l.request.tiles)
      /\ BatchesIn(l)
      /\ WholeUntilWarned(l)
      /\ TilesAccounted(l)
      /\ l.dropped # {} => l.quant = LastTier
      /\ l # Idle
  BY RunningIsRecord
<1>1. /\ l.handled \in Nat /\ l.size \in Nat \ {0} /\ l.quant \in Quants
      /\ l.warnings \in Nat /\ l.dropped \subseteq Nat
      /\ Left(l) \in Nat \ {0} /\ Left(l) = Len(l.request.tiles) - l.handled
  BY <1>0 DEF LadderRecord, Left
<1>2. CASE l.size > 1 /\ m = Shrunk(l)
  <2>1. /\ m.status = l.status /\ m.request = l.request /\ m.handled = l.handled
        /\ m.quant = l.quant /\ m.partial = l.partial /\ m.dropped = l.dropped
        /\ m.warnings = l.warnings + 1
        /\ m.size = IF l.size \div 2 > 1 THEN l.size \div 2 ELSE 1
    BY <1>0, <1>2 DEF Shrunk, LadderRecord
  <2>2. m.size \in Nat \ {0} /\ m.size < l.size
    BY <1>1, <1>2, <2>1
  <2>3. m \in LadderRecord
    <3>1. m = [l EXCEPT !.size = m.size, !.warnings = m.warnings]
      BY <1>0, <1>2 DEF Shrunk, LadderRecord
    <3>2. m.warnings \in Nat
      BY <1>1, <2>1
    <3>3. QED BY <1>0, <2>2, <3>1, <3>2 DEF LadderRecord
  <2>4. BatchesIn(m) /\ TilesAccounted(m)
    BY <1>0, <2>1 DEF BatchesIn, TilesAccounted, Covered, Left
  <2>5. WholeUntilWarned(m)
    BY <1>1, <2>1 DEF WholeUntilWarned
  <2>6. Descends(l, m)
    BY <1>1, <2>1, <2>2 DEF Descends, Left
  <2>7. QED
    BY <1>0, <2>1, <2>3, <2>4, <2>5, <2>6 DEF LadderInv
<1>3. CASE l.size = 1 /\ l.quant # LastTier /\ m = SteppedDown(l)
  <2>1. /\ m.status = l.status /\ m.request = l.request /\ m.handled = l.handled
        /\ m.quant = NextTier(l.quant) /\ m.partial = l.partial
        /\ m.dropped = l.dropped /\ m.warnings = l.warnings + 1
        /\ m.size = Left(l)
    BY <1>0, <1>3 DEF SteppedDown, LadderRecord
  <2>2. m.quant \in Quants /\ Rank(m.quant) < Rank(l.quant) /\ l.dropped = {}
    BY <1>0, <1>1, <1>3, <2>1 DEF NextTier, Rank, Quants, LastTier
  <2>3. m \in LadderRecord
    <3>1. m = [l EXCEPT !.quant = m.quant, !.size = m.size, !.warnings = m.warnings]
      BY <1>0, <1>3 DEF SteppedDown, LadderRecord
    <3>2. m.warnings \in Nat /\ m.size \in Nat \ {0}
      BY <1>1, <2>1
    <3>3. QED BY <1>0, <2>2, <3>1, <3>2 DEF LadderRecord
  <2>4. BatchesIn(m) /\ TilesAccounted(m)
    BY <1>0, <2>1 DEF BatchesIn, TilesAccounted, Covered, Left
  <2>5. WholeUntilWarned(m)
    BY <1>1, <2>1 DEF WholeUntilWarned
  <2>6. Descends(l, m)
    BY <2>1, <2>2 DEF Descends, Left
  <2>7. QED
    BY <1>0, <2>1, <2>2, <2>3, <2>4, <2>5, <2>6 DEF LadderInv
<1>4. CASE l.size = 1 /\ l.quant = LastTier /\ m = TileDropped(l)
  <2>1. /\ m.status = l.status /\ m.request = l.request /\ m.handled = l.handled + 1
        /\ m.quant = l.quant /\ m.partial = l.partial
        /\ m.dropped = l.dropped \cup {l.handled + 1} /\ m.warnings = l.warnings + 2
        /\ m.size = IF Left(l) > 1 THEN Left(l) - 1 ELSE 1
    <3>1. PICK h, d, k, w :
            /\ h = l.handled + 1 /\ d = l.dropped \cup {l.handled + 1}
            /\ k = IF Left(l) > 1 THEN Left(l) - 1 ELSE 1
            /\ w = l.warnings + 2
      OBVIOUS
    <3>2. m = [l EXCEPT !.handled = h, !.dropped = d, !.size = k, !.warnings = w]
      BY <1>4, <3>1 DEF TileDropped
    <3>3. /\ m.status = l.status /\ m.request = l.request /\ m.handled = h
          /\ m.quant = l.quant /\ m.partial = l.partial
          /\ m.dropped = d /\ m.warnings = w /\ m.size = k
      BY <1>0, <3>2 DEF LadderRecord
    <3>4. QED BY <3>1, <3>3
  <2>2. m.size \in Nat \ {0} /\ Left(m) < Left(l) /\ m.handled <= Len(m.request.tiles)
    <3>1. Left(m) = Len(l.request.tiles) - (l.handled + 1)
      BY <2>1 DEF Left
    <3>2. Len(l.request.tiles) \in Nat
      BY <1>0
    <3>3. Left(m) = Left(l) - 1 /\ l.handled + 1 <= Len(l.request.tiles)
      BY <1>1, <3>1, <3>2
    <3>4. Left(m) < Left(l)
      BY <1>1, <3>3
    <3>5. m.handled <= Len(m.request.tiles)
      BY <2>1, <3>3
    <3>6. m.size \in Nat \ {0}
      <4>1. Left(l) > 1 => Left(l) - 1 \in Nat \ {0}
        BY <1>1
      <4>2. QED BY <2>1, <4>1
    <3>7. QED BY <3>4, <3>5, <3>6
  <2>3. m \in LadderRecord
    <3>1. m = [l EXCEPT !.handled = m.handled, !.dropped = m.dropped,
                         !.size = m.size, !.warnings = m.warnings]
      BY <1>0, <1>4 DEF TileDropped, LadderRecord
    <3>2. m.warnings \in Nat /\ m.handled \in Nat /\ m.dropped \subseteq Nat
      BY <1>1, <2>1
    <3>3. QED BY <1>0, <2>2, <3>1, <3>2 DEF LadderRecord
  <2>a. \A i \in DOMAIN l.partial : l.partial[i].first \in Nat /\ l.partial[i].last \in Nat
    <3> SUFFICES ASSUME NEW i \in DOMAIN l.partial
                 PROVE  l.partial[i].first \in Nat /\ l.partial[i].last \in Nat
      OBVIOUS
    <3>1. l.partial \in Seq([first : Nat, last : Nat, quant : Quants])
      BY <1>0 DEF LadderRecord
    <3>2. l.partial[i] \in [first : Nat, last : Nat, quant : Quants]
      BY <3>1, ElementOfSeq, LenProperties
    <3>3. QED BY <3>2
  <2>4. BatchesIn(m)
    BY <1>0, <1>1, <2>1, <2>a DEF BatchesIn
  <2>5. TilesAccounted(m)
    <3>1. Covered(m) = Covered(l)
      BY <2>1 DEF Covered
    <3>2. l.handled + 1 \notin Covered(l)
      BY <1>0, <1>1, <2>a DEF BatchesIn, Covered
    <3>3. /\ Covered(l) \cup l.dropped = 1..l.handled
          /\ Covered(l) \cap l.dropped = {}
          /\ \A i, j \in DOMAIN l.partial : i < j => l.partial[i].last < l.partial[j].first
      BY <1>0 DEF TilesAccounted
    <3>4. Covered(m) \cup m.dropped = 1..m.handled
      BY <1>1, <2>1, <3>1, <3>3
    <3>5. Covered(m) \cap m.dropped = {}
      BY <2>1, <3>1, <3>2, <3>3
    <3>6. QED BY <2>1, <3>3, <3>4, <3>5 DEF TilesAccounted
  <2>6. WholeUntilWarned(m)
    BY <1>1, <2>1 DEF WholeUntilWarned
  <2>7. Descends(l, m)
    BY <2>2 DEF Descends
  <2>8. QED
    BY <1>0, <1>4, <2>1, <2>2, <2>3, <2>4, <2>5, <2>6, <2>7 DEF LadderInv
<1>5. QED BY <1>2, <1>3, <1>4 DEF OutOfMemory

(* An exception that leaves the loop. *)
LEMMA RaisedInv ==
  ASSUME NEW l, LadderInv(l), l.status = "running",
         NEW cause \in {"model_error", "adapter_error"}
  PROVE  LadderInv(Raised(l, cause)) /\ Raised(l, cause).status = cause
<1> DEFINE m == Raised(l, cause)
<1>0. /\ l \in LadderRecord
      /\ Len(l.request.tiles) \in Nat \ {0}
      /\ l.handled <= Len(l.request.tiles)
      /\ BatchesIn(l)
      /\ WholeUntilWarned(l)
      /\ TilesAccounted(l)
      /\ l.dropped # {} => l.quant = LastTier
      /\ l # Idle
  BY RunningIsRecord
<1>1. /\ m.status = cause /\ m.request = l.request /\ m.handled = l.handled
      /\ m.size = l.size /\ m.quant = l.quant /\ m.partial = l.partial
      /\ m.dropped = l.dropped /\ m.warnings = l.warnings
  BY <1>0 DEF Raised, LadderRecord
<1>2. m \in LadderRecord
  BY <1>0 DEF Raised, LadderRecord
<1> HIDE DEF m
<1>3. BatchesIn(m) /\ WholeUntilWarned(m) /\ TilesAccounted(m)
  BY <1>0, <1>1 DEF BatchesIn, WholeUntilWarned, TilesAccounted, Covered, Left
<1>4. LadderInv(m)
  BY <1>0, <1>1, <1>2, <1>3 DEF LadderInv
<1>5. QED BY <1>1, <1>4 DEF m

(* The loop is over. *)
LEMMA EndedInv ==
  ASSUME NEW l, LadderInv(l), l.status = "running", Left(l) = 0
  PROVE  LadderInv(Ended(l)) /\ Ended(l).status \in {"answered", "empty"}
<1> DEFINE m == Ended(l)
<1>0. /\ l \in LadderRecord
      /\ Len(l.request.tiles) \in Nat \ {0}
      /\ l.handled <= Len(l.request.tiles)
      /\ BatchesIn(l)
      /\ WholeUntilWarned(l)
      /\ TilesAccounted(l)
      /\ l.dropped # {} => l.quant = LastTier
      /\ l # Idle
  BY RunningIsRecord
<1>1. /\ m.status \in {"answered", "empty"} /\ m.request = l.request
      /\ m.handled = l.handled /\ m.size = l.size /\ m.quant = l.quant
      /\ m.partial = l.partial /\ m.dropped = l.dropped /\ m.warnings = l.warnings
  BY <1>0 DEF Ended, LadderRecord
<1>2. m \in LadderRecord
  BY <1>0 DEF Ended, LadderRecord
<1> HIDE DEF m
<1>3. BatchesIn(m) /\ WholeUntilWarned(m) /\ TilesAccounted(m)
  BY <1>0, <1>1 DEF BatchesIn, WholeUntilWarned, TilesAccounted, Covered, Left
<1>4. LadderInv(m)
  BY <1>0, <1>1, <1>2, <1>3 DEF LadderInv
<1>5. QED BY <1>1, <1>4 DEF m

(* What the invariant says, in the terms of the properties. *)
LEMMA InvImplies ==
  ASSUME NEW l, LadderInv(l)
  PROVE  LadderTyped(l) /\ TilesAccounted(l) /\ LossIsLastResort(l)
<1>1. CASE l = Idle
  BY <1>1 DEF LadderTyped, TilesAccounted, LossIsLastResort
<1>2. CASE l # Idle
  <2>1. /\ l \in LadderRecord /\ TilesAccounted(l)
        /\ WholeUntilWarned(l) /\ Len(l.request.tiles) \in Nat \ {0}
        /\ l.dropped # {} => l.quant = LastTier
    BY <1>2 DEF LadderInv
  <2>2. l.status = "answered" => Left(l) = 0
    BY <1>2, <2>1 DEF TilesAccounted
  <2>3. LossIsLastResort(l)
    BY <2>1, <2>2 DEF LossIsLastResort, WholeUntilWarned, Left, LadderRecord
  <2>4. QED BY <2>1, <2>3 DEF LadderTyped
<1>3. QED BY <1>1, <1>2

(* No outcome changes the request, and only a batch that succeeds adds one *)
(* to the batches.                                                         *)
LEMMA RequestKept ==
  ASSUME NEW l, LadderInv(l), l.status = "running", NEW m,
         \/ OutOfMemory(l, m) \/ m = Ended(l)
         \/ \E cause \in {"model_error", "adapter_error"} : m = Raised(l, cause)
  PROVE  m.status # "idle" /\ m.request = l.request /\ m.partial = l.partial
<1>1. l \in LadderRecord
  BY RunningIsRecord
<1>2. CASE OutOfMemory(l, m)
  <2>1. \/ m = Shrunk(l) \/ m = SteppedDown(l) \/ m = TileDropped(l)
    BY <1>2 DEF OutOfMemory
  <2>2. CASE m = Shrunk(l)
    BY <1>1, <2>2 DEF Shrunk, LadderRecord
  <2>3. CASE m = SteppedDown(l)
    BY <1>1, <2>3 DEF SteppedDown, LadderRecord
  <2>4. CASE m = TileDropped(l)
    BY <1>1, <2>4 DEF TileDropped, LadderRecord
  <2> QED BY <2>1, <2>2, <2>3, <2>4
<1>3. CASE m = Ended(l)
  BY <1>1, <1>3 DEF Ended, LadderRecord
<1>4. ASSUME NEW cause \in {"model_error", "adapter_error"}, m = Raised(l, cause)
      PROVE  m.status # "idle" /\ m.request = l.request /\ m.partial = l.partial
  BY <1>1, <1>4 DEF Raised, LadderRecord
<1> QED BY <1>2, <1>3, <1>4

LEMMA BatchAdded ==
  ASSUME NEW l, LadderInv(l), l.status = "running", NEW m, m = Processed(l)
  PROVE  /\ m.status # "idle" /\ m.request = l.request
         /\ l.partial \in Seq([first : Nat, last : Nat, quant : Quants])
         /\ m.partial = Append(l.partial, Batch(l))
<1>1. l \in LadderRecord
  BY RunningIsRecord
<1> QED BY <1>1 DEF Processed, LadderRecord

(* Once it ends, each tile is in a batch or was dropped.                   *)
LEMMA EndsComplete ==
  ASSUME NEW l, LadderInv(l), l.status \in {"answered", "empty"}
  PROVE  /\ l \in LadderRecord
         /\ \A p \in 1..Len(l.request.tiles) :
              \/ p \in l.dropped
              \/ \E k \in DOMAIN l.partial : p \in l.partial[k].first..l.partial[k].last
<1>1. l # Idle
  BY DEF Idle
<1>2. l \in LadderRecord /\ TilesAccounted(l) /\ Len(l.request.tiles) \in Nat
  BY <1>1 DEF LadderInv
<1>3. l.handled \in Nat
  BY <1>2 DEF LadderRecord
<1>4. Covered(l) \cup l.dropped = 1..l.handled /\ Left(l) = 0
  BY <1>1, <1>2 DEF TilesAccounted
<1>5. l.handled = Len(l.request.tiles)
  BY <1>2, <1>3, <1>4 DEF Left
<1>6. ASSUME NEW p \in 1..Len(l.request.tiles), p \notin l.dropped
      PROVE  \E k \in DOMAIN l.partial : p \in l.partial[k].first..l.partial[k].last
  <2>1. p \in Covered(l)
    BY <1>4, <1>5, <1>6
  <2> QED BY <2>1 DEF Covered
<1> QED BY <1>2, <1>6

(* No tile is dropped without a warning.                                   *)
LEMMA DropWarns ==
  ASSUME NEW l, LadderInv(l), l # Idle, l.dropped # {}
  PROVE  l.warnings > 0
<1> SUFFICES ASSUME l.warnings = 0 PROVE FALSE
  BY DEF LadderInv, LadderRecord
<1>1. /\ WholeUntilWarned(l) /\ TilesAccounted(l) /\ Len(l.request.tiles) \in Nat \ {0}
  BY DEF LadderInv
<1>2. l.dropped \subseteq 1..l.handled /\ Covered(l) \cap l.dropped = {}
  BY <1>1 DEF TilesAccounted
<1>3. CASE l.handled = 0
  BY <1>2, <1>3
<1>4. CASE /\ l.handled = Len(l.request.tiles)
           /\ l.partial = << [ first |-> 1, last |-> Len(l.request.tiles),
                               quant |-> Quantization[l.request.entry] ] >>
  <2>1. PICK n : n = Len(l.request.tiles)
    OBVIOUS
  <2>2. 1 \in DOMAIN l.partial /\ l.partial[1].first = 1 /\ l.partial[1].last = n
    BY <1>4, <2>1
  <2>3. 1..n \subseteq Covered(l)
    BY <2>2 DEF Covered
  <2> QED BY <1>2, <1>4, <2>1, <2>3
<1> QED BY <1>1, <1>3, <1>4 DEF WholeUntilWarned

(* An answer without a warning is one batch.                               *)
LEMMA UnwarnedIsWhole ==
  ASSUME NEW l, LadderInv(l), l.status \in {"answered", "empty"}, l.warnings = 0
  PROVE  l.partial = << [ first |-> 1, last |-> Len(l.request.tiles),
                          quant |-> Quantization[l.request.entry] ] >>
<1>1. l # Idle
  BY DEF Idle
<1>2. l \in LadderRecord /\ WholeUntilWarned(l) /\ TilesAccounted(l) /\ Len(l.request.tiles) \in Nat \ {0}
  BY <1>1 DEF LadderInv
<1>3. Left(l) = 0 /\ l.handled \in Nat
  BY <1>1, <1>2 DEF TilesAccounted, LadderRecord
<1>4. l.handled # 0
  BY <1>2, <1>3 DEF Left
<1> QED BY <1>2, <1>4 DEF WholeUntilWarned

(* Batches follow each other.                                              *)
LEMMA BatchesFollow ==
  ASSUME NEW l, LadderInv(l), l \in LadderRecord, NEW j \in DOMAIN l.partial, NEW k \in DOMAIN l.partial
  PROVE  /\ l.partial[j].first \in Nat /\ l.partial[j].last \in Nat
         /\ 1 <= l.partial[j].first /\ l.partial[j].last <= Len(l.request.tiles)
         /\ l.handled \in Nat
         /\ \/ j = k \/ l.partial[j].last < l.partial[k].first \/ l.partial[k].last < l.partial[j].first
<1>0. l # Idle
  BY RecordNotIdle
<1>1. BatchesIn(l) /\ TilesAccounted(l) /\ l.handled <= Len(l.request.tiles) /\ Len(l.request.tiles) \in Nat
  BY <1>0 DEF LadderInv
<1>2. l.partial \in Seq([first : Nat, last : Nat, quant : Quants]) /\ l.handled \in Nat
  BY DEF LadderRecord
<1>3. PICK n \in Nat : DOMAIN l.partial = 1..n
  BY <1>2
<1>4. l.partial[j] \in [first : Nat, last : Nat, quant : Quants]
  <2>1. PICK S, list : S = [first : Nat, last : Nat, quant : Quants] /\ list = l.partial
    OBVIOUS
  <2>2. list \in Seq(S) /\ j \in 1..Len(list)
    BY <1>2, <2>1, LenProperties
  <2> QED BY <2>1, <2>2, ElementOfSeq
<1>5. j \in Nat /\ k \in Nat
  BY <1>3
<1>6. j < k => l.partial[j].last < l.partial[k].first
  BY <1>0, <1>1 DEF TilesAccounted
<1>7. k < j => l.partial[k].last < l.partial[j].first
  BY <1>0, <1>1 DEF TilesAccounted
<1>8. 1 <= l.partial[j].first /\ l.partial[j].last <= l.handled
  BY <1>1 DEF BatchesIn
<1>9. l.partial[j].first \in Nat /\ l.partial[j].last \in Nat
  BY <1>4
<1>10. l.partial[j].last <= Len(l.request.tiles)
  <2>1. PICK x, y, z : x = l.partial[j].last /\ y = l.handled /\ z = Len(l.request.tiles)
    OBVIOUS
  <2>2. x \in Nat /\ y \in Nat /\ z \in Nat /\ x <= y /\ y <= z
    BY <1>1, <1>2, <1>8, <1>9, <2>1
  <2>3. x <= z
    BY <2>2
  <2> QED BY <2>1, <2>3
<1> QED BY <1>2, <1>5, <1>6, <1>7, <1>8, <1>9, <1>10
=============================================================================

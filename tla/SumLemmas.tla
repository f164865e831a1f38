----------------------------- MODULE SumLemmas ------------------------------
(***************************************************************************)
(* Sums and products over finite sets.  The models add up with folds of    *)
(* the community modules, whose definition is a recursive function on the  *)
(* subsets of the index set; here are the facts about such sums that the   *)
(* proofs about money and counters cite.  Induction is the existence of a  *)
(* smallest counterexample (SmallestSet), which the well-foundedness of    *)
(* strict inclusion gives as a statement about sets.                       *)
(***************************************************************************)
EXTENDS Integers, FiniteSets, SequencesExt, FiniteSetTheorems, TLAPS

\* Induction over a finite set: a non-empty set of its subsets has a smallest
\* member.  Applied to the counterexamples of a claim, it leaves one all of whose
\* proper subsets satisfy the claim.
LEMMA SmallestSet ==
  ASSUME NEW S, IsFiniteSet(S), NEW T \in SUBSET SUBSET S, T # {}
  PROVE  \E s \in T : \A t \in T : t \subseteq s => t = s
<1> DEFINE R == StrictSubsetOrdering(S)
<1>1. IsWellFoundedOn(R, FiniteSubsetsOf(S))
  BY FS_StrictSubsetOrderingWellFounded
<1>2. T \subseteq FiniteSubsetsOf(S)
  BY FS_FiniteSubsetsOfFinite
<1>3. \E s \in T : \A t \in T : ~ (<<t, s>> \in R)
  <2> HIDE DEF R
  <2> QED
    BY <1>1, <1>2, WFMin
<1>4. PICK s \in T : \A t \in T : ~ (<<t, s>> \in R)
  BY <1>3
<1>5. \A t \in T : t \subseteq s => t = s
  <2> SUFFICES ASSUME NEW t \in T, t \subseteq s, t # s PROVE FALSE
    OBVIOUS
  <2>1. <<t, s>> \in (SUBSET S) \X (SUBSET S)
    OBVIOUS
  <2>2. <<t, s>> \in R
    BY <2>1 DEF StrictSubsetOrdering
  <2> QED
    BY <1>4, <2>2
<1> QED
  BY <1>5

-----------------------------------------------------------------------------
(* The recursive function behind a fold *)

\* The sum of f over the indices S.
SumOn(f, S) == FoldFunctionOnSet(+, 0, f, S)

\* The element a fold takes first.
Pick(s) == CHOOSE x \in s : TRUE

\* g satisfies the recursive equation of the fold of f over the subsets of S.
Adds(g, f, S) == g = [s \in SUBSET S |-> IF s = {} THEN 0 ELSE f[Pick(s)] + g[s \ {Pick(s)}]]

\* What the definition of the fold says: the value at S of some such function.
LEMMA FoldIs ==
  ASSUME NEW f, NEW S
  PROVE  SumOn(f, S) = (CHOOSE g : Adds(g, f, S))[S]
BY DEF SumOn, FoldFunctionOnSet, MapThenFoldSet, Adds, Pick

\* A set that is not empty holds its pick.
LEMMA PickIn ==
  ASSUME NEW s, s # {}
  PROVE  Pick(s) \in s
BY DEF Pick

\* A solution of the equation solves it on fewer subsets too.
LEMMA AddsRestricts ==
  ASSUME NEW f, NEW S, NEW T \in SUBSET S, NEW g, Adds(g, f, S)
  PROVE  Adds([s \in SUBSET T |-> g[s]], f, T)
<1> DEFINE h == [s \in SUBSET T |-> g[s]]
<1>1. ASSUME NEW s \in SUBSET T
      PROVE  h[s] = IF s = {} THEN 0 ELSE f[Pick(s)] + h[s \ {Pick(s)}]
  <2>1. s \in SUBSET S /\ s \ {Pick(s)} \in SUBSET T
    OBVIOUS
  <2>2. g[s] = IF s = {} THEN 0 ELSE f[Pick(s)] + g[s \ {Pick(s)}]
    BY <2>1 DEF Adds
  <2> QED
    BY <2>1, <2>2
<1>2. h = [s \in SUBSET T |-> IF s = {} THEN 0 ELSE f[Pick(s)] + h[s \ {Pick(s)}]]
  <2> HIDE DEF h
  <2>1. h = [s \in SUBSET T |-> h[s]]
    BY DEF h
  <2> QED
    BY <1>1, <2>1
<1> QED
  BY <1>2 DEF Adds

\* On a finite set the equation has at most one solution ...
LEMMA AddsUnique ==
  ASSUME NEW f, NEW S, IsFiniteSet(S), NEW g, NEW h, Adds(g, f, S), Adds(h, f, S)
  PROVE  g = h
<1> DEFINE T == {s \in SUBSET S : g[s] # h[s]}
<1>1. T = {}
  <2> SUFFICES ASSUME T # {} PROVE FALSE
    OBVIOUS
  <2>1. PICK s \in T : \A t \in T : t \subseteq s => t = s
    <3>1. T \in SUBSET SUBSET S
      OBVIOUS
    <3> HIDE DEF T
    <3> QED
      BY <3>1, SmallestSet
  <2>2. /\ g[s] = IF s = {} THEN 0 ELSE f[Pick(s)] + g[s \ {Pick(s)}]
        /\ h[s] = IF s = {} THEN 0 ELSE f[Pick(s)] + h[s \ {Pick(s)}]
    BY DEF Adds
  <2>3. s # {}
    BY <2>2
  <2>4. s \ {Pick(s)} \in SUBSET S /\ s \ {Pick(s)} # s
    BY <2>3, PickIn
  <2>5. s \ {Pick(s)} \notin T
    BY <2>1, <2>4
  <2> QED
    BY <2>2, <2>3, <2>4, <2>5
<1>2. g = [s \in SUBSET S |-> g[s]] /\ h = [s \in SUBSET S |-> h[s]]
  BY DEF Adds
<1> QED
  BY <1>1, <1>2

\* ... and it has one.
LEMMA AddsExists ==
  ASSUME NEW f, NEW D, IsFiniteSet(D)
  PROVE  \A S \in SUBSET D : \E g : Adds(g, f, S)
<1> DEFINE T == {S \in SUBSET D : ~\E g : Adds(g, f, S)}
           G(S) == CHOOSE g : Adds(g, f, S)
<1> SUFFICES ASSUME T # {} PROVE FALSE
  OBVIOUS
<1>1. PICK S \in T : \A t \in T : t \subseteq S => t = S
  <2>1. T \in SUBSET SUBSET D
    OBVIOUS
  <2> HIDE DEF T
  <2> QED
    BY <2>1, SmallestSet
<1>2. ASSUME NEW s \in SUBSET S, s # S PROVE Adds(G(s), f, s)
  <2>1. s \notin T /\ s \in SUBSET D
    BY <1>1, <1>2
  <2> QED
    BY <2>1
<1>3. IsFiniteSet(S)
  BY FS_Subset
<1> DEFINE h == [s \in SUBSET S |->
                   IF s = S
                   THEN IF S = {} THEN 0 ELSE f[Pick(S)] + G(S \ {Pick(S)})[S \ {Pick(S)}]
                   ELSE G(s)[s]]
<1>4. ASSUME NEW s \in SUBSET S
      PROVE  h[s] = IF s = {} THEN 0 ELSE f[Pick(s)] + h[s \ {Pick(s)}]
  <2> DEFINE r == s \ {Pick(s)}
  <2>1. r \in SUBSET S /\ r \in SUBSET s
    OBVIOUS
  <2>2. CASE s = {}
    <3>1. s # S => G(s)[s] = 0
      <4> HIDE DEF G
      <4> QED
        BY <1>2, <2>2 DEF Adds
    <3> QED
      BY <2>2, <3>1
  <2>3. CASE s # {}
    <3>1. r # s /\ r # S
      BY <2>3, PickIn
    <3>2. h[r] = G(r)[r]
      BY <2>1, <3>1
    <3>3. CASE s = S
      BY <2>3, <3>2, <3>3
    <3>4. CASE s # S
      <4> HIDE DEF G
      <4>1. Adds(G(s), f, s) /\ Adds(G(r), f, r)
        BY <1>2, <2>1, <3>1, <3>4
      <4>2. G(s)[s] = f[Pick(s)] + G(s)[r]
        BY <2>3, <4>1 DEF Adds
      <4>3. Adds([t \in SUBSET r |-> G(s)[t]], f, r)
        BY <2>1, <4>1, AddsRestricts
      <4>4. IsFiniteSet(r)
        BY <1>3, <2>1, FS_Subset
      <4>5. G(r) = [t \in SUBSET r |-> G(s)[t]]
        BY <4>1, <4>3, <4>4, AddsUnique
      <4>6. G(r)[r] = G(s)[r]
        BY <4>5
      <4>7. h[s] = G(s)[s]
        BY <3>4
      <4> QED
        BY <2>3, <3>2, <4>2, <4>6, <4>7
    <3> QED
      BY <3>3, <3>4
  <2> QED
    BY <2>2, <2>3
<1>5. Adds(h, f, S)
  <2> HIDE DEF h
  <2>1. h = [s \in SUBSET S |-> h[s]]
    BY DEF h
  <2> QED
    BY <1>4, <2>1 DEF Adds
<1> QED
  BY <1>5

\* So a sum takes its pick first and goes on with the rest.
LEMMA SumOnStep ==
  ASSUME NEW f, NEW S, IsFiniteSet(S)
  PROVE  SumOn(f, S) = IF S = {} THEN 0 ELSE f[Pick(S)] + SumOn(f, S \ {Pick(S)})
<1> DEFINE G(s) == CHOOSE g : Adds(g, f, s)
           r == S \ {Pick(S)}
<1>1. Adds(G(S), f, S) /\ Adds(G(r), f, r)
  BY AddsExists
<1>2. SumOn(f, S) = G(S)[S] /\ SumOn(f, r) = G(r)[r]
  BY FoldIs
<1> HIDE DEF G
<1>3. IsFiniteSet(r)
  BY FS_Subset
<1>4. Adds([t \in SUBSET r |-> G(S)[t]], f, r)
  BY <1>1, AddsRestricts
<1>5. G(r) = [t \in SUBSET r |-> G(S)[t]]
  BY <1>1, <1>3, <1>4, AddsUnique
<1>6. G(r)[r] = G(S)[r]
  BY <1>5
<1>7. G(S)[S] = IF S = {} THEN 0 ELSE f[Pick(S)] + G(S)[r]
  BY <1>1 DEF Adds
<1> QED
  BY <1>2, <1>6, <1>7

\* The order in which the elements are taken does not matter.
LEMMA SumOnRemove ==
  ASSUME NEW D, IsFiniteSet(D), NEW f, \A x \in D : f[x] \in Int
  PROVE  \A S \in SUBSET D :
           /\ SumOn(f, S) \in Int
           /\ \A x \in S : SumOn(f, S) = f[x] + SumOn(f, S \ {x})
<1> DEFINE Good(S) == /\ SumOn(f, S) \in Int
                      /\ \A x \in S : SumOn(f, S) = f[x] + SumOn(f, S \ {x})
           T == {S \in SUBSET D : ~Good(S)}
<1> SUFFICES ASSUME T # {} PROVE FALSE
  OBVIOUS
<1>1. PICK S \in T : \A t \in T : t \subseteq S => t = S
  <2>1. T \in SUBSET SUBSET D
    OBVIOUS
  <2> HIDE DEF T
  <2> QED
    BY <2>1, SmallestSet
<1>2. ASSUME NEW s \in SUBSET S, s # S PROVE Good(s)
  BY <1>1, <1>2
<1>3. IsFiniteSet(S)
  BY FS_Subset
<1>4. CASE S = {}
  <2>1. SumOn(f, S) = 0
    BY <1>3, <1>4, SumOnStep
  <2> QED
    BY <1>4, <2>1
<1>5. CASE S # {}
  <2> SUFFICES Good(S)
    OBVIOUS
  <2> DEFINE c == Pick(S)
  <2>1. c \in S /\ f[c] \in Int
    BY <1>5, PickIn
  <2>2. SumOn(f, S) = f[c] + SumOn(f, S \ {c})
    BY <1>3, <1>5, SumOnStep
  <2> HIDE DEF c
  <2>3. Good(S \ {c})
    BY <1>2, <2>1
  <2>4. ASSUME NEW x \in S PROVE SumOn(f, S) = f[x] + SumOn(f, S \ {x})
    <3>1. CASE x = c
      BY <2>2, <3>1
    <3>2. CASE x # c
      <4>1. Good(S \ {x}) /\ c \in S \ {x} /\ x \in S \ {c}
        BY <1>2, <2>1, <3>2
      <4>2. SumOn(f, S \ {c}) = f[x] + SumOn(f, (S \ {c}) \ {x})
        BY <2>3, <4>1
      <4>3. SumOn(f, S \ {x}) = f[c] + SumOn(f, (S \ {x}) \ {c})
        BY <4>1
      <4>4. (S \ {c}) \ {x} = (S \ {x}) \ {c}
        OBVIOUS
      <4>5. Good((S \ {c}) \ {x})
        BY <1>2, <2>1
      <4>6. f[x] \in Int /\ SumOn(f, (S \ {c}) \ {x}) \in Int
        BY <4>5
      <4> DEFINE rest == SumOn(f, (S \ {c}) \ {x})
      <4>7. SumOn(f, S \ {x}) = f[c] + rest /\ SumOn(f, S \ {c}) = f[x] + rest /\ rest \in Int
        BY <4>2, <4>3, <4>4, <4>6
      <4> HIDE DEF rest
      <4> QED
        BY <2>1, <2>2, <4>6, <4>7
    <3> QED
      BY <3>1, <3>2
  <2> QED
    BY <2>1, <2>2, <2>3, <2>4
<1> QED
  BY <1>4, <1>5

\* A sum depends on the summands alone.
LEMMA SumOnSame ==
  ASSUME NEW D, IsFiniteSet(D), NEW f, NEW g, \A x \in D : f[x] = g[x]
  PROVE  SumOn(f, D) = SumOn(g, D)
<1> DEFINE T == {S \in SUBSET D : SumOn(f, S) # SumOn(g, S)}
<1> SUFFICES ASSUME T # {} PROVE FALSE
  OBVIOUS
<1>1. PICK S \in T : \A t \in T : t \subseteq S => t = S
  <2>1. T \in SUBSET SUBSET D
    OBVIOUS
  <2> HIDE DEF T
  <2> QED
    BY <2>1, SmallestSet
<1>2. IsFiniteSet(S)
  BY FS_Subset
<1>3. /\ SumOn(f, S) = IF S = {} THEN 0 ELSE f[Pick(S)] + SumOn(f, S \ {Pick(S)})
      /\ SumOn(g, S) = IF S = {} THEN 0 ELSE g[Pick(S)] + SumOn(g, S \ {Pick(S)})
  BY <1>2, SumOnStep
<1>4. S # {}
  BY <1>3
<1>5. Pick(S) \in S
  BY <1>4, PickIn
<1>6. S \ {Pick(S)} \notin T /\ S \ {Pick(S)} \in SUBSET D
  BY <1>1, <1>5
<1> QED
  BY <1>3, <1>4, <1>5, <1>6
-----------------------------------------------------------------------------
(* The facts to cite *)

\* A sum of integers is an integer, and nothing adds up to 0.
LEMMA SumType ==
  ASSUME NEW S, IsFiniteSet(S), NEW f, \A x \in S : f[x] \in Int
  PROVE  SumOn(f, S) \in Int /\ SumOn(f, {}) = 0
<1>1. SumOn(f, S) \in Int
  BY SumOnRemove
<1>2. SumOn(f, {}) = 0
  BY FS_EmptySet, SumOnStep
<1> QED
  BY <1>1, <1>2

\* One more index adds its summand.
LEMMA SumAdd ==
  ASSUME NEW S, IsFiniteSet(S), NEW x, x \notin S, NEW f, \A y \in S \cup {x} : f[y] \in Int
  PROVE  SumOn(f, S \cup {x}) = SumOn(f, S) + f[x]
<1> DEFINE D == S \cup {x}
<1>1. IsFiniteSet(D) /\ D \ {x} = S /\ x \in D /\ D \in SUBSET D
  BY FS_AddElement
<1>2. SumOn(f, D) = f[x] + SumOn(f, D \ {x})
  <2>1. \A y \in D : f[y] \in Int
    OBVIOUS
  <2> HIDE DEF D
  <2> QED
    BY <1>1, <2>1, SumOnRemove
<1>3. f[x] \in Int /\ SumOn(f, S) \in Int
  BY SumType
<1>4. SumOn(f, D) = SumOn(f, S) + f[x]
  <2> HIDE DEF D
  <2>1. SumOn(f, D \ {x}) = SumOn(f, S)
    BY <1>1, Zenon
  <2> QED
    BY <1>2, <1>3, <2>1
<1> QED
  BY <1>4

\* A change of one summand changes the sum by as much.
LEMMA SumChange ==
  ASSUME NEW S, IsFiniteSet(S), NEW x \in S, NEW f, NEW g,
         \A y \in S : f[y] \in Int /\ g[y] \in Int,
         \A y \in S : y # x => g[y] = f[y]
  PROVE  SumOn(g, S) = SumOn(f, S) + (g[x] - f[x])
<1> DEFINE R == S \ {x}
<1>1. IsFiniteSet(R) /\ S = R \cup {x} /\ x \notin R
  BY FS_RemoveElement
<1>2. SumOn(g, R) = SumOn(f, R)
  <2>1. \A y \in R : g[y] = f[y]
    OBVIOUS
  <2> HIDE DEF R
  <2> QED
    BY <1>1, <2>1, SumOnSame
<1>3. SumOn(g, S) = SumOn(g, R) + g[x] /\ SumOn(f, S) = SumOn(f, R) + f[x]
  <2> HIDE DEF R
  <2> QED
    BY <1>1, SumAdd
<1>4. SumOn(f, R) \in Int /\ f[x] \in Int /\ g[x] \in Int
  BY <1>1, SumType
<1> HIDE DEF R
<1> QED
  BY <1>2, <1>3, <1>4

\* Summands that are all 0 add up to 0.
LEMMA SumOfNothing ==
  ASSUME NEW D, IsFiniteSet(D), NEW f, \A x \in D : f[x] = 0
  PROVE  SumOn(f, D) = 0
<1> DEFINE T == {S \in SUBSET D : SumOn(f, S) # 0}
<1> SUFFICES ASSUME T # {} PROVE FALSE
  OBVIOUS
<1>1. PICK S \in T : \A t \in T : t \subseteq S => t = S
  <2>1. T \in SUBSET SUBSET D
    OBVIOUS
  <2> HIDE DEF T
  <2> QED
    BY <2>1, SmallestSet
<1>2. IsFiniteSet(S)
  BY FS_Subset
<1>3. SumOn(f, S) = IF S = {} THEN 0 ELSE f[Pick(S)] + SumOn(f, S \ {Pick(S)})
  BY <1>2, SumOnStep
<1>4. S # {} /\ Pick(S) \in S
  BY <1>3, PickIn
<1>5. SumOn(f, S \ {Pick(S)}) = 0
  BY <1>1, <1>4
<1> QED
  BY <1>3, <1>4, <1>5

\* Where one summand at most is not 0, it is the sum.
LEMMA SumOfOne ==
  ASSUME NEW S, IsFiniteSet(S), NEW x \in S, NEW f, f[x] \in Int,
         \A y \in S : y # x => f[y] = 0
  PROVE  SumOn(f, S) = f[x]
<1> DEFINE R == S \ {x}
<1>1. IsFiniteSet(R) /\ S = R \cup {x} /\ x \notin R
  BY FS_RemoveElement
<1>2. \A y \in R : f[y] = 0
  OBVIOUS
<1> HIDE DEF R
<1>3. SumOn(f, R) = 0
  BY <1>1, <1>2, SumOfNothing
<1>4. SumOn(f, S) = SumOn(f, R) + f[x]
  BY <1>1, <1>2, SumAdd
<1> QED
  BY <1>3, <1>4

\* The sum over two sets that share nothing is the sum of their sums.
LEMMA SumUnion ==
  ASSUME NEW A, IsFiniteSet(A), NEW B, IsFiniteSet(B), A \cap B = {},
         NEW f, \A x \in A \cup B : f[x] \in Int
  PROVE  SumOn(f, A \cup B) = SumOn(f, A) + SumOn(f, B)
<1> DEFINE T == {S \in SUBSET B : SumOn(f, A \cup S) # SumOn(f, A) + SumOn(f, S)}
<1> SUFFICES ASSUME T # {} PROVE FALSE
  OBVIOUS
<1>1. PICK S \in T : \A t \in T : t \subseteq S => t = S
  <2>1. T \in SUBSET SUBSET B
    OBVIOUS
  <2> HIDE DEF T
  <2> QED
    BY <2>1, SmallestSet
<1>2. S \in SUBSET B /\ IsFiniteSet(S) /\ SumOn(f, A \cup S) # SumOn(f, A) + SumOn(f, S)
  BY FS_Subset
<1>3. SumOn(f, A) \in Int /\ SumOn(f, {}) = 0
  BY SumType
<1>4. S # {}
  <2>1. A \cup {} = A
    OBVIOUS
  <2>2. SumOn(f, A) = SumOn(f, A) + 0
    BY <1>3
  <2> QED
    BY <1>2, <1>3, <2>1, <2>2
<1>5. PICK x \in S : TRUE
  BY <1>4
<1> DEFINE R == S \ {x}
<1>6. R \in SUBSET B /\ IsFiniteSet(R) /\ x \notin R /\ R \cup {x} = S /\ R # S
  BY <1>2, FS_RemoveElement
<1>7. SumOn(f, A \cup R) = SumOn(f, A) + SumOn(f, R)
  BY <1>1, <1>6
<1> HIDE DEF R, T
<1>8. SumOn(f, R \cup {x}) = SumOn(f, R) + f[x] /\ SumOn(f, R) \in Int /\ f[x] \in Int
  <2>1. \A y \in R \cup {x} : f[y] \in Int
    BY <1>2, <1>6
  <2>2. SumOn(f, R) \in Int
    BY <1>6, <2>1, SumType
  <2>3. SumOn(f, R \cup {x}) = SumOn(f, R) + f[x]
    BY <1>6, <2>1, SumAdd
  <2> QED
    BY <2>1, <2>2, <2>3
<1>9. SumOn(f, (A \cup R) \cup {x}) = SumOn(f, A \cup R) + f[x]
  <2>1. IsFiniteSet(A \cup R) /\ x \notin A \cup R
    BY <1>2, <1>6, FS_Union
  <2>2. \A y \in (A \cup R) \cup {x} : f[y] \in Int
    BY <1>2, <1>6
  <2> QED
    BY <2>1, <2>2, SumAdd
<1>10. (A \cup R) \cup {x} = A \cup S
  BY <1>6
<1>11. SumOn(f, A \cup S) = (SumOn(f, A) + SumOn(f, R)) + f[x] /\ SumOn(f, S) = SumOn(f, R) + f[x]
  BY <1>6, <1>7, <1>8, <1>9, <1>10
<1> QED
  BY <1>2, <1>3, <1>8, <1>11

\* A sum may be taken class by class.
LEMMA SumByParts ==
  ASSUME NEW S, IsFiniteSet(S), NEW f, \A x \in S : f[x] \in Int,
         NEW D, IsFiniteSet(D), NEW class, \A x \in S : class[x] \in D
  PROVE  SumOn(f, S) = SumOn([e \in D |-> SumOn(f, {x \in S : class[x] = e})], D)
<1> DEFINE h == [e \in D |-> SumOn(f, {x \in S : class[x] = e})]
           Of(E) == {x \in S : class[x] \in E}
           T == {E \in SUBSET D : SumOn(f, Of(E)) # SumOn(h, E)}
<1>1. \A e \in D : h[e] = SumOn(f, {x \in S : class[x] = e})
  OBVIOUS
<1>2. ASSUME NEW P \in SUBSET S PROVE IsFiniteSet(P) /\ SumOn(f, P) \in Int
  <2>1. IsFiniteSet(P)
    BY FS_Subset
  <2> QED
    BY <2>1, SumType
<1>3. \A e \in D : h[e] \in Int
  BY <1>1, <1>2
<1> HIDE DEF h
<1>4. T = {}
  <2> SUFFICES ASSUME T # {} PROVE FALSE
    OBVIOUS
  <2>1. PICK E \in T : \A t \in T : t \subseteq E => t = E
    <3>1. T \in SUBSET SUBSET D
      OBVIOUS
    <3> HIDE DEF T
    <3> QED
      BY <3>1, SmallestSet
  <2>2. E \in SUBSET D /\ IsFiniteSet(E) /\ SumOn(f, Of(E)) # SumOn(h, E)
    BY FS_Subset
  <2>3. E # {}
    <3>1. Of({}) = {} /\ SumOn(f, {}) = 0 /\ SumOn(h, {}) = 0
      BY <1>3, SumType
    <3> QED
      BY <2>2, <3>1
  <2>4. PICK e \in E : TRUE
    BY <2>3
  <2> DEFINE R == E \ {e}
             P == {x \in S : class[x] = e}
  <2>5. R \in SUBSET D /\ IsFiniteSet(R) /\ e \notin R /\ R \cup {e} = E /\ R # E
    BY <2>2, FS_RemoveElement
  <2>6. SumOn(f, Of(R)) = SumOn(h, R)
    BY <2>1, <2>5
  <2> HIDE DEF T, R
  <2>7. SumOn(h, E) = SumOn(h, R) + h[e]
    <3>1. \A y \in R \cup {e} : h[y] \in Int
      BY <1>3, <2>2, <2>5
    <3>2. SumOn(h, R \cup {e}) = SumOn(h, R) + h[e]
      BY <2>5, <3>1, SumAdd
    <3> QED
      BY <2>5, <3>2
  <2>8. Of(E) = Of(R) \cup P /\ Of(R) \cap P = {} /\ Of(R) \in SUBSET S /\ P \in SUBSET S
    BY <2>4, <2>5
  <2>9. SumOn(f, Of(E)) = SumOn(f, Of(R)) + SumOn(f, P)
    <3>1. IsFiniteSet(Of(R)) /\ IsFiniteSet(P) /\ \A x \in Of(R) \cup P : f[x] \in Int
      BY <1>2, <2>8
    <3> HIDE DEF Of, P
    <3>2. SumOn(f, Of(R) \cup P) = SumOn(f, Of(R)) + SumOn(f, P)
      BY <2>8, <3>1, SumUnion
    <3> QED
      BY <2>8, <3>2
  <2>10. h[e] = SumOn(f, P)
    BY <1>1, <2>2, <2>4
  <2> QED
    BY <2>2, <2>6, <2>7, <2>9, <2>10
<1>5. Of(D) = S
  OBVIOUS
<1>6. SumOn(f, Of(D)) = SumOn(h, D)
  BY <1>4
<1> QED
  BY <1>5, <1>6 DEF h

\* Larger summands, larger sum.
LEMMA SumOrdered ==
  ASSUME NEW D, IsFiniteSet(D), NEW f, NEW g,
         \A x \in D : f[x] \in Int /\ g[x] \in Int /\ f[x] <= g[x]
  PROVE  SumOn(f, D) <= SumOn(g, D)
<1> DEFINE T == {S \in SUBSET D : ~(SumOn(f, S) <= SumOn(g, S))}
<1> SUFFICES ASSUME T # {} PROVE FALSE
  OBVIOUS
<1>1. PICK S \in T : \A t \in T : t \subseteq S => t = S
  <2>1. T \in SUBSET SUBSET D
    OBVIOUS
  <2> HIDE DEF T
  <2> QED
    BY <2>1, SmallestSet
<1>2. IsFiniteSet(S) /\ IsFiniteSet(S \ {Pick(S)})
  BY FS_Subset
<1>3. /\ SumOn(f, S) = IF S = {} THEN 0 ELSE f[Pick(S)] + SumOn(f, S \ {Pick(S)})
      /\ SumOn(g, S) = IF S = {} THEN 0 ELSE g[Pick(S)] + SumOn(g, S \ {Pick(S)})
  BY <1>2, SumOnStep
<1>4. S # {}
  BY <1>3
<1>5. Pick(S) \in S
  BY <1>4, PickIn
<1>6. SumOn(f, S \ {Pick(S)}) <= SumOn(g, S \ {Pick(S)})
  BY <1>1, <1>5
<1>7. SumOn(f, S \ {Pick(S)}) \in Int /\ SumOn(g, S \ {Pick(S)}) \in Int
  BY <1>2, SumType
<1> QED
  BY <1>1, <1>3, <1>4, <1>5, <1>6, <1>7

\* One summand larger and none smaller, and the sum is larger.
LEMMA SumLarger ==
  ASSUME NEW D, IsFiniteSet(D), NEW f, NEW g, NEW x \in D, f[x] < g[x],
         \A y \in D : f[y] \in Int /\ g[y] \in Int /\ f[y] <= g[y]
  PROVE  SumOn(f, D) < SumOn(g, D)
<1>1. IsFiniteSet(D \ {x})
  BY FS_Subset
<1>2. SumOn(f, D \ {x}) <= SumOn(g, D \ {x})
  BY <1>1, SumOrdered
<1>3. SumOn(f, D \ {x}) \in Int /\ SumOn(g, D \ {x}) \in Int
  BY <1>1, SumType
<1>4. SumOn(f, D) = f[x] + SumOn(f, D \ {x}) /\ SumOn(g, D) = g[x] + SumOn(g, D \ {x})
  BY SumOnRemove
<1> QED
  BY <1>2, <1>3, <1>4

\* As many ones as elements.
LEMMA SumOfOnes ==
  ASSUME NEW D, IsFiniteSet(D), NEW f, \A x \in D : f[x] = 1
  PROVE  SumOn(f, D) = Cardinality(D)
<1> DEFINE T == {S \in SUBSET D : SumOn(f, S) # Cardinality(S)}
<1> SUFFICES ASSUME T # {} PROVE FALSE
  OBVIOUS
<1>1. PICK S \in T : \A t \in T : t \subseteq S => t = S
  <2>1. T \in SUBSET SUBSET D
    OBVIOUS
  <2> HIDE DEF T
  <2> QED
    BY <2>1, SmallestSet
<1>2. IsFiniteSet(S)
  BY FS_Subset
<1>3. SumOn(f, S) = IF S = {} THEN 0 ELSE f[Pick(S)] + SumOn(f, S \ {Pick(S)})
  BY <1>2, SumOnStep
<1>4. S # {}
  BY <1>3, FS_EmptySet
<1>5. Pick(S) \in S
  BY <1>4, PickIn
<1>6. SumOn(f, S \ {Pick(S)}) = Cardinality(S \ {Pick(S)})
  BY <1>1, <1>5
<1>7. Cardinality(S \ {Pick(S)}) = Cardinality(S) - 1 /\ Cardinality(S) \in Nat
  BY <1>2, <1>5, FS_RemoveElement, FS_CardinalityType
<1> QED
  BY <1>1, <1>3, <1>4, <1>5, <1>6, <1>7

\* The sum of the sums of two families is the sum of both.
LEMMA SumPlus ==
  ASSUME NEW D, IsFiniteSet(D), NEW f, NEW g, NEW h,
         \A x \in D : f[x] \in Int /\ g[x] \in Int /\ h[x] = f[x] + g[x]
  PROVE  SumOn(h, D) = SumOn(f, D) + SumOn(g, D)
<1> DEFINE T == {S \in SUBSET D : SumOn(h, S) # SumOn(f, S) + SumOn(g, S)}
<1> SUFFICES ASSUME T # {} PROVE FALSE
  OBVIOUS
<1>1. PICK S \in T : \A t \in T : t \subseteq S => t = S
  <2>1. T \in SUBSET SUBSET D
    OBVIOUS
  <2> HIDE DEF T
  <2> QED
    BY <2>1, SmallestSet
<1>2. IsFiniteSet(S) /\ IsFiniteSet(S \ {Pick(S)})
  BY FS_Subset
<1>3. /\ SumOn(f, S) = IF S = {} THEN 0 ELSE f[Pick(S)] + SumOn(f, S \ {Pick(S)})
      /\ SumOn(g, S) = IF S = {} THEN 0 ELSE g[Pick(S)] + SumOn(g, S \ {Pick(S)})
      /\ SumOn(h, S) = IF S = {} THEN 0 ELSE h[Pick(S)] + SumOn(h, S \ {Pick(S)})
  BY <1>2, SumOnStep
<1>4. S # {}
  BY <1>3
<1>5. Pick(S) \in S
  BY <1>4, PickIn
<1>6. SumOn(h, S \ {Pick(S)}) = SumOn(f, S \ {Pick(S)}) + SumOn(g, S \ {Pick(S)})
  BY <1>1, <1>5
<1>7. SumOn(f, S \ {Pick(S)}) \in Int /\ SumOn(g, S \ {Pick(S)}) \in Int
  BY <1>2, SumType
<1> QED
  BY <1>1, <1>3, <1>4, <1>5, <1>6, <1>7

\* Summands taken under other names, each once: those that are taken add up.
LEMMA SumRenamed ==
  ASSUME NEW S, IsFiniteSet(S), NEW D, IsFiniteSet(D),
         NEW o \in [S -> D], \A x, y \in S : o[x] = o[y] => x = y,
         NEW f, \A e \in D : f[e] \in Int, NEW g, \A x \in S : g[x] = f[o[x]]
  PROVE  /\ (\A e \in D : \E x \in S : o[x] = e) => SumOn(g, S) = SumOn(f, D)
         /\ (\A e \in D : f[e] >= 0) => SumOn(g, S) <= SumOn(f, D)
<1> DEFINE t == [e \in D |-> SumOn(g, {x \in S : o[x] = e})]
<1>1. SumOn(g, S) = SumOn(t, D)
  <2>1. /\ \A x \in S : g[x] \in Int
        /\ \A x \in S : o[x] \in D
    OBVIOUS
  <2> QED
    BY <2>1, SumByParts
<1>2. ASSUME NEW e \in D
      PROVE  /\ (\E x \in S : o[x] = e) => t[e] = f[e]
             /\ ~(\E x \in S : o[x] = e) => t[e] = 0
  <2> DEFINE part == {x \in S : o[x] = e}
  <2>1. t[e] = SumOn(g, part)
    OBVIOUS
  <2>2. IsFiniteSet(part)
    BY FS_Subset
  <2>3. ASSUME NEW x \in S, o[x] = e PROVE t[e] = f[e]
    <3>1. x \in part /\ \A y \in part : y = x
      BY <2>3
    <3>2. g[x] = f[e] /\ g[x] \in Int
      BY <2>3
    <3> HIDE DEF part
    <3>3. SumOn(g, part) = g[x]
      BY <2>2, <3>1, <3>2, SumOfOne
    <3> QED
      BY <2>1, <3>2, <3>3
  <2>4. ASSUME ~(\E x \in S : o[x] = e) PROVE t[e] = 0
    <3>1. part = {}
      BY <2>4
    <3>2. SumOn(g, {}) = 0
      BY FS_EmptySet, SumType
    <3> QED
      BY <2>1, <3>1, <3>2
  <2> QED
    BY <2>3, <2>4
<1> HIDE DEF t
<1>3. ASSUME \A e \in D : \E x \in S : o[x] = e PROVE SumOn(g, S) = SumOn(f, D)
  <2>1. \A e \in D : t[e] = f[e]
    BY <1>2, <1>3
  <2> QED
    BY <1>1, <2>1, SumOnSame
<1>4. ASSUME \A e \in D : f[e] >= 0 PROVE SumOn(g, S) <= SumOn(f, D)
  <2>1. \A e \in D : t[e] \in Int /\ f[e] \in Int /\ t[e] <= f[e]
    BY <1>2, <1>4
  <2> QED
    BY <1>1, <2>1, SumOrdered
<1> QED
  BY <1>3, <1>4

-----------------------------------------------------------------------------
(* The largest and the smallest *)

Bounded(s) == /\ \E x \in s : \A y \in s : x >= y
              /\ \E x \in s : \A y \in s : x <= y

\* Every finite set of integers is bounded, unless it is empty.
LEMMA FiniteIsBounded ==
  ASSUME NEW S, IsFiniteSet(S), \A x \in S : x \in Int
  PROVE  S # {} => Bounded(S)
<1> DEFINE T == {s \in SUBSET S : s # {} /\ ~Bounded(s)}
<1>1. T = {}
  <2> SUFFICES ASSUME T # {} PROVE FALSE
    OBVIOUS
  <2>1. PICK s \in T : \A t \in T : t \subseteq s => t = s
    <3>1. T \in SUBSET SUBSET S
      OBVIOUS
    <3>2. T # {}
      OBVIOUS
    <3> HIDE DEF T
    <3> QED
      BY <3>1, <3>2, SmallestSet
  <2>2. s \in SUBSET S /\ s # {} /\ ~Bounded(s)
    OBVIOUS
  <2>3. PICK z \in s : TRUE
    BY <2>2
  <2> DEFINE r == s \ {z}
  <2>4. r = {} \/ Bounded(r)
    <3>1. r # s /\ r \subseteq s /\ r \in SUBSET S
      BY <2>2, <2>3
    <3>2. r \notin T
      BY <2>1, <3>1
    <3> HIDE DEF r
    <3> QED
      BY <3>1, <3>2
  <2>5. CASE r = {}
    <3>1. s = {z}
      BY <2>3, <2>5
    <3>2. z >= z /\ z <= z
      BY <2>2, <2>3
    <3> QED
      BY <2>2, <3>1, <3>2 DEF Bounded
  <2>6. CASE Bounded(r)
    <3>1. PICK a \in r : \A y \in r : a >= y
      BY <2>6 DEF Bounded
    <3>2. PICK b \in r : \A y \in r : b <= y
      BY <2>6 DEF Bounded
    <3>3. a \in Int /\ b \in Int /\ z \in Int /\ a \in s /\ b \in s /\ s \subseteq Int
      BY <2>2, <2>3
    <3>4. \A y \in s : y = z \/ y \in r
      OBVIOUS
    <3>5. \E x \in s : \A y \in s : x >= y
      <4>1. CASE a >= z
        BY <3>1, <3>3, <3>4, <4>1
      <4>2. CASE z > a
        BY <2>3, <3>1, <3>3, <3>4, <4>2
      <4> QED
        BY <3>3, <4>1, <4>2
    <3>6. \E x \in s : \A y \in s : x <= y
      <4>1. CASE b <= z
        BY <3>2, <3>3, <3>4, <4>1
      <4>2. CASE z < b
        BY <2>3, <3>2, <3>3, <3>4, <4>2
      <4> QED
        BY <3>3, <4>1, <4>2
    <3> QED
      BY <2>2, <3>5, <3>6 DEF Bounded
  <2> QED
    BY <2>4, <2>5, <2>6
<1> QED
  BY <1>1

\* A finite set of integers that is not empty has a largest and a smallest element.
LEMMA MaxMinOf ==
  ASSUME NEW S, IsFiniteSet(S), \A x \in S : x \in Int, S # {}
  PROVE  /\ Max(S) \in S /\ \A y \in S : Max(S) >= y
         /\ Min(S) \in S /\ \A y \in S : Min(S) <= y
BY FiniteIsBounded DEF Bounded, Max, Min

-----------------------------------------------------------------------------
(* Products *)

\* The product of f over the indices S.
ProductOn(f, S) == FoldFunctionOnSet(LAMBDA a, b : a * b, 1, f, S)

\* g satisfies the recursive equation of the fold of f over the subsets of S.
Multiplies(g, f, S) == g = [s \in SUBSET S |-> IF s = {} THEN 1 ELSE f[Pick(s)] * g[s \ {Pick(s)}]]

\* What the definition of the fold says: the value at S of some such function.
LEMMA ProductIs ==
  ASSUME NEW f, NEW S
  PROVE  ProductOn(f, S) = (CHOOSE g : Multiplies(g, f, S))[S]
BY DEF ProductOn, FoldFunctionOnSet, MapThenFoldSet, Multiplies, Pick

\* A solution of the equation solves it on fewer subsets too.
LEMMA MultipliesRestricts ==
  ASSUME NEW f, NEW S, NEW T \in SUBSET S, NEW g, Multiplies(g, f, S)
  PROVE  Multiplies([s \in SUBSET T |-> g[s]], f, T)
<1> DEFINE h == [s \in SUBSET T |-> g[s]]
<1>1. ASSUME NEW s \in SUBSET T
      PROVE  h[s] = IF s = {} THEN 1 ELSE f[Pick(s)] * h[s \ {Pick(s)}]
  <2>1. s \in SUBSET S /\ s \ {Pick(s)} \in SUBSET T
    OBVIOUS
  <2>2. g[s] = IF s = {} THEN 1 ELSE f[Pick(s)] * g[s \ {Pick(s)}]
    BY <2>1 DEF Multiplies
  <2> QED
    BY <2>1, <2>2
<1>2. h = [s \in SUBSET T |-> IF s = {} THEN 1 ELSE f[Pick(s)] * h[s \ {Pick(s)}]]
  <2> HIDE DEF h
  <2>1. h = [s \in SUBSET T |-> h[s]]
    BY DEF h
  <2> QED
    BY <1>1, <2>1
<1> QED
  BY <1>2 DEF Multiplies

\* On a finite set the equation has at most one solution ...
LEMMA MultipliesUnique ==
  ASSUME NEW f, NEW S, IsFiniteSet(S), NEW g, NEW h, Multiplies(g, f, S), Multiplies(h, f, S)
  PROVE  g = h
<1> DEFINE T == {s \in SUBSET S : g[s] # h[s]}
<1>1. T = {}
  <2> SUFFICES ASSUME T # {} PROVE FALSE
    OBVIOUS
  <2>1. PICK s \in T : \A t \in T : t \subseteq s => t = s
    <3>1. T \in SUBSET SUBSET S
      OBVIOUS
    <3> HIDE DEF T
    <3> QED
      BY <3>1, SmallestSet
  <2>2. /\ g[s] = IF s = {} THEN 1 ELSE f[Pick(s)] * g[s \ {Pick(s)}]
        /\ h[s] = IF s = {} THEN 1 ELSE f[Pick(s)] * h[s \ {Pick(s)}]
    BY DEF Multiplies
  <2>3. s # {}
    BY <2>2
  <2>4. s \ {Pick(s)} \in SUBSET S /\ s \ {Pick(s)} # s
    BY <2>3, PickIn
  <2>5. s \ {Pick(s)} \notin T
    BY <2>1, <2>4
  <2> QED
    BY <2>2, <2>3, <2>4, <2>5
<1>2. g = [s \in SUBSET S |-> g[s]] /\ h = [s \in SUBSET S |-> h[s]]
  BY DEF Multiplies
<1> QED
  BY <1>1, <1>2

\* ... and it has one.
LEMMA MultipliesExists ==
  ASSUME NEW f, NEW D, IsFiniteSet(D)
  PROVE  \A S \in SUBSET D : \E g : Multiplies(g, f, S)
<1> DEFINE T == {S \in SUBSET D : ~\E g : Multiplies(g, f, S)}
           G(S) == CHOOSE g : Multiplies(g, f, S)
<1> SUFFICES ASSUME T # {} PROVE FALSE
  OBVIOUS
<1>1. PICK S \in T : \A t \in T : t \subseteq S => t = S
  <2>1. T \in SUBSET SUBSET D
    OBVIOUS
  <2> HIDE DEF T
  <2> QED
    BY <2>1, SmallestSet
<1>2. ASSUME NEW s \in SUBSET S, s # S PROVE Multiplies(G(s), f, s)
  <2>1. s \notin T /\ s \in SUBSET D
    BY <1>1, <1>2
  <2> QED
    BY <2>1
<1>3. IsFiniteSet(S)
  BY FS_Subset
<1> DEFINE h == [s \in SUBSET S |->
                   IF s = S
                   THEN IF S = {} THEN 1 ELSE f[Pick(S)] * G(S \ {Pick(S)})[S \ {Pick(S)}]
                   ELSE G(s)[s]]
<1>4. ASSUME NEW s \in SUBSET S
      PROVE  h[s] = IF s = {} THEN 1 ELSE f[Pick(s)] * h[s \ {Pick(s)}]
  <2> DEFINE r == s \ {Pick(s)}
  <2>1. r \in SUBSET S /\ r \in SUBSET s
    OBVIOUS
  <2>2. CASE s = {}
    <3>1. s # S => G(s)[s] = 1
      <4> HIDE DEF G
      <4> QED
        BY <1>2, <2>2 DEF Multiplies
    <3> QED
      BY <2>2, <3>1
  <2>3. CASE s # {}
    <3>1. r # s /\ r # S
      BY <2>3, PickIn
    <3>2. h[r] = G(r)[r]
      BY <2>1, <3>1
    <3>3. CASE s = S
      BY <2>3, <3>2, <3>3
    <3>4. CASE s # S
      <4> HIDE DEF G
      <4>1. Multiplies(G(s), f, s) /\ Multiplies(G(r), f, r)
        BY <1>2, <2>1, <3>1, <3>4
      <4>2. G(s)[s] = f[Pick(s)] * G(s)[r]
        BY <2>3, <4>1 DEF Multiplies
      <4>3. Multiplies([t \in SUBSET r |-> G(s)[t]], f, r)
        BY <2>1, <4>1, MultipliesRestricts
      <4>4. IsFiniteSet(r)
        BY <1>3, <2>1, FS_Subset
      <4>5. G(r) = [t \in SUBSET r |-> G(s)[t]]
        BY <4>1, <4>3, <4>4, MultipliesUnique
      <4>6. G(r)[r] = G(s)[r]
        BY <4>5
      <4>7. h[s] = G(s)[s]
        BY <3>4
      <4> QED
        BY <2>3, <3>2, <4>2, <4>6, <4>7
    <3> QED
      BY <3>3, <3>4
  <2> QED
    BY <2>2, <2>3
<1>5. Multiplies(h, f, S)
  <2> HIDE DEF h
  <2>1. h = [s \in SUBSET S |-> h[s]]
    BY DEF h
  <2> QED
    BY <1>4, <2>1 DEF Multiplies
<1> QED
  BY <1>5

\* So a product takes its pick first and goes on with the rest.
LEMMA ProductOnStep ==
  ASSUME NEW f, NEW S, IsFiniteSet(S)
  PROVE  ProductOn(f, S) = IF S = {} THEN 1 ELSE f[Pick(S)] * ProductOn(f, S \ {Pick(S)})
<1> DEFINE G(s) == CHOOSE g : Multiplies(g, f, s)
           r == S \ {Pick(S)}
<1>1. Multiplies(G(S), f, S) /\ Multiplies(G(r), f, r)
  BY MultipliesExists
<1>2. ProductOn(f, S) = G(S)[S] /\ ProductOn(f, r) = G(r)[r]
  BY ProductIs
<1> HIDE DEF G
<1>3. IsFiniteSet(r)
  BY FS_Subset
<1>4. Multiplies([t \in SUBSET r |-> G(S)[t]], f, r)
  BY <1>1, MultipliesRestricts
<1>5. G(r) = [t \in SUBSET r |-> G(S)[t]]
  BY <1>1, <1>3, <1>4, MultipliesUnique
<1>6. G(r)[r] = G(S)[r]
  BY <1>5
<1>7. G(S)[S] = IF S = {} THEN 1 ELSE f[Pick(S)] * G(S)[r]
  BY <1>1 DEF Multiplies
<1> QED
  BY <1>2, <1>6, <1>7

\* A product of positive numbers is one, and no factor is larger.
LEMMA ProductFacts ==
  ASSUME NEW D, IsFiniteSet(D), NEW f, \A x \in D : f[x] \in Nat /\ f[x] > 0
  PROVE  /\ ProductOn(f, D) \in Nat /\ ProductOn(f, D) > 0
         /\ \A x \in D : f[x] <= ProductOn(f, D)
<1> DEFINE Good(S) == /\ ProductOn(f, S) \in Nat /\ ProductOn(f, S) > 0
                      /\ \A x \in S : f[x] <= ProductOn(f, S)
           T == {S \in SUBSET D : ~Good(S)}
<1> SUFFICES ASSUME T # {} PROVE FALSE
  OBVIOUS
<1>1. PICK S \in T : \A t \in T : t \subseteq S => t = S
  <2>1. T \in SUBSET SUBSET D
    OBVIOUS
  <2> HIDE DEF T
  <2> QED
    BY <2>1, SmallestSet
<1>2. IsFiniteSet(S)
  BY FS_Subset
<1>3. ProductOn(f, S) = IF S = {} THEN 1 ELSE f[Pick(S)] * ProductOn(f, S \ {Pick(S)})
  BY <1>2, ProductOnStep
<1>4. S # {}
  <2>1. S = {} => Good(S)
    BY <1>3
  <2> QED
    BY <2>1
<1> DEFINE c == Pick(S)
<1>5. c \in S
  BY <1>4, PickIn
<1> HIDE DEF c
<1>6. Good(S \ {c})
  BY <1>1, <1>5
<1>7. PICK a \in Nat, b \in Nat : a = f[c] /\ b = ProductOn(f, S \ {c})
  BY <1>5, <1>6
<1>8. a > 0 /\ b > 0 /\ ProductOn(f, S) = a * b
  BY <1>3, <1>4, <1>5, <1>6, <1>7 DEF c
<1>9. a * b \in Nat /\ a <= a * b /\ b <= a * b /\ a * b > 0
  BY <1>8, SMTT(30)
<1>10. \A x \in S : f[x] <= a * b
  <2> SUFFICES ASSUME NEW x \in S PROVE f[x] <= a * b
    OBVIOUS
  <2>1. f[x] \in Nat
    OBVIOUS
  <2>2. CASE x = c
    BY <1>7, <1>9, <2>2
  <2>3. CASE x # c
    <3>1. f[x] <= b
      BY <1>6, <1>7, <2>3
    <3>2. PICK ab \in Nat : ab = a * b
      BY <1>9
    <3> QED
      BY <1>9, <2>1, <3>1, <3>2
  <2> QED
    BY <2>2, <2>3
<1>11. Good(S)
  BY <1>8, <1>9, <1>10
<1> QED
  BY <1>11

=============================================================================

---------------------------- MODULE FigureProofs -----------------------------
(***************************************************************************)
(* Proofs about the figures that are computed of candles and of trades:    *)
(* what is read in a market (MarketReading), the analytics of a backtest   *)
(* (Analytics) and its simulations (MonteCarlo), each for every behaviour  *)
(* of Research.  A figure that is computed element by element is a         *)
(* recursive function, about which the lemmas of the first part speak.     *)
(***************************************************************************)
EXTENDS ResearchProofs

-----------------------------------------------------------------------------
(* Recursive functions *)

\* A set that holds the first of an interval, and with a number the next one, holds all.
LEMMA IntervalInduction ==
  ASSUME NEW lo \in Int, NEW hi \in Int, NEW P, lo \in P,
         \A n \in lo + 1 .. hi : n - 1 \in P => n \in P
  PROVE  \A n \in lo .. hi : n \in P
<1> DEFINE T == {k \in Nat : lo + k <= hi /\ lo + k \notin P}
<1> SUFFICES T = {}
  <2> SUFFICES ASSUME NEW n \in lo .. hi PROVE n \in P
    OBVIOUS
  <2>1. PICK k \in Nat : n = lo + k
    <3>1. n - lo \in Nat /\ n = lo + (n - lo)
      OBVIOUS
    <3> QED
      BY <3>1
  <2>2. k \notin T
    OBVIOUS
  <2> QED
    BY <2>1, <2>2
<1> SUFFICES ASSUME T # {} PROVE FALSE
  OBVIOUS
<1>1. PICK k \in T : \A j \in T : k <= j
  <2>1. T \in SUBSET Nat
    OBVIOUS
  <2> HIDE DEF T
  <2> QED
    BY <2>1, LeastOne
<1>2. k # 0 /\ k - 1 \in Nat /\ k - 1 \notin T
  BY <1>1
<1>3. lo + (k - 1) \in P
  BY <1>1, <1>2
<1>4. lo + k \in lo + 1 .. hi /\ (lo + k) - 1 = lo + (k - 1)
  BY <1>1, <1>2
<1> QED
  BY <1>1, <1>3, <1>4

\* f starts with base and goes on by step, over an interval and within a set.
Recursion(f, S, base, lo, hi, step) ==
  /\ f \in [lo .. hi -> S]
  /\ \A n \in lo .. hi : f[n] = IF n = lo THEN base ELSE step[<<f[n - 1], n>>]

\* A recursion over an interval whose step stays within a set has a solution.
LEMMA TypedRecursion ==
  ASSUME NEW S, NEW base \in S, NEW lo \in Int, NEW hi \in Int, lo <= hi,
         NEW step \in [S \X (lo + 1 .. hi) -> S]
  PROVE  \E f : Recursion(f, S, base, lo, hi, step)
<1> DEFINE Solves(f, k) == \A n \in lo .. k : f[n] = IF n = lo THEN base ELSE step[<<f[n - 1], n>>]
           P == {k \in lo .. hi : \E f \in [lo .. k -> S] : Solves(f, k)}
<1>1. lo \in P
  <2>1. PICK f : f = [n \in lo .. lo |-> base]
    OBVIOUS
  <2>2. f \in [lo .. lo -> S] /\ Solves(f, lo)
    BY <2>1
  <2>3. lo \in lo .. hi
    OBVIOUS
  <2> HIDE DEF Solves
  <2> QED
    BY <2>2, <2>3
<1>2. ASSUME NEW k \in lo + 1 .. hi, k - 1 \in P
      PROVE  k \in P
  <2>1. PICK f \in [lo .. k - 1 -> S] : Solves(f, k - 1)
    BY <1>2
  <2>2. k - 1 \in lo .. k - 1 /\ k # lo /\ k \notin lo .. k - 1
    OBVIOUS
  <2>3. PICK x : x = step[<<f[k - 1], k>>]
    OBVIOUS
  <2>4. x \in S
    BY <2>2, <2>3
  <2> DEFINE g == [n \in lo .. k |-> IF n = k THEN x ELSE f[n]]
  <2>5. g \in [lo .. k -> S]
    <3>1. ASSUME NEW n \in lo .. k PROVE (IF n = k THEN x ELSE f[n]) \in S
      BY <2>4
    <3> QED
      BY <3>1
  <2>6. ASSUME NEW n \in lo .. k
        PROVE  g[n] = IF n = lo THEN base ELSE step[<<g[n - 1], n>>]
    <3>1. CASE n = k
      <4>1. g[n] = x /\ g[n - 1] = f[n - 1] /\ n # lo
        BY <2>2, <3>1
      <4> QED
        BY <2>3, <3>1, <4>1
    <3>2. CASE n # k
      <4>1. n \in lo .. k - 1 /\ (n # lo => n - 1 \in lo .. k - 1 /\ n - 1 \in lo .. k /\ n - 1 # k)
        BY <3>2
      <4>2. g[n] = f[n] /\ (n # lo => g[n - 1] = f[n - 1])
        BY <3>2, <4>1
      <4> QED
        BY <2>1, <4>1, <4>2
    <3> QED
      BY <3>1, <3>2
  <2> HIDE DEF g
  <2>7. Solves(g, k)
    BY <2>6
  <2> QED
    BY <2>5, <2>7
<1>3. hi \in P
  <2>1. \A k \in lo + 1 .. hi : k - 1 \in P => k \in P
    BY <1>2
  <2> HIDE DEF P
  <2>2. \A n \in lo .. hi : n \in P
    BY <1>1, <2>1, IntervalInduction
  <2> QED
    BY <2>2
<1> QED
  BY <1>3 DEF Recursion

-----------------------------------------------------------------------------
(* Reading a market *)

\* The sum of the first n is that of the first n - 1 and the n-th.
LEMMA SumToSteps ==
  ASSUME NEW list, NEW size \in Nat, \A i \in 1 .. size : list[i] \in Int
  PROVE  /\ SumTo(list, 0) = 0
         /\ \A n \in 0 .. size : SumTo(list, n) \in Int
         /\ \A n \in 1 .. size : SumTo(list, n) = SumTo(list, n - 1) + list[n]
<1>1. \A n : SumTo(list, n) = SumOn(list, 1 .. n)
  BY DEF SumTo, SumOn
<1>2. ASSUME NEW n \in 0 .. size
      PROVE  IsFiniteSet(1 .. n) /\ \A i \in 1 .. n : list[i] \in Int
  BY FS_Interval
<1>3. SumTo(list, 0) = 0
  <2>1. 1 .. 0 = {}
    OBVIOUS
  <2>2. 0 \in 0 .. size
    OBVIOUS
  <2> QED
    BY <1>1, <1>2, <2>1, <2>2, SumType
<1>4. ASSUME NEW n \in 0 .. size PROVE SumTo(list, n) \in Int
  BY <1>1, <1>2, SumType
<1>5. ASSUME NEW n \in 1 .. size PROVE SumTo(list, n) = SumTo(list, n - 1) + list[n]
  <2>1. PICK D : D = 1 .. n - 1
    OBVIOUS
  <2>2. 1 .. n = D \cup {n} /\ n \notin D /\ n - 1 \in 0 .. size /\ n \in 0 .. size
    BY <2>1
  <2>3. IsFiniteSet(D) /\ \A i \in D \cup {n} : list[i] \in Int
    BY <1>2, <2>1, <2>2
  <2>4. SumOn(list, D \cup {n}) = SumOn(list, D) + list[n]
    BY <2>2, <2>3, SumAdd
  <2> QED
    BY <1>1, <2>1, <2>2, <2>4
<1> QED
  BY <1>3, <1>4, <1>5

\* b is c times w less a, up to an index.
Linear(a, b, w, c, size) ==
  \A i \in 1 .. size : a[i] \in Int /\ w[i] \in Int /\ b[i] = c * w[i] - a[i]

\* Summands that are a multiple of one list's less another's add up so.
LEMMA SumToLinear ==
  ASSUME NEW size \in Nat, NEW a, NEW b, NEW w, NEW c \in Int, Linear(a, b, w, c, size)
  PROVE  \A n \in 0 .. size : SumTo(b, n) = c * SumTo(w, n) - SumTo(a, n)
<1>1. ASSUME NEW i \in 1 .. size PROVE a[i] \in Int /\ w[i] \in Int /\ b[i] \in Int
  <2>1. PICK x \in Int, y \in Int : x = a[i] /\ y = w[i] /\ b[i] = c * y - x
    BY DEF Linear
  <2>2. c * y \in Int
    OBVIOUS
  <2> QED
    BY <2>1, <2>2
<1> DEFINE P == {n \in 0 .. size : SumTo(b, n) = c * SumTo(w, n) - SumTo(a, n)}
<1>2. 0 \in P
  <2>1. SumTo(a, 0) = 0 /\ SumTo(b, 0) = 0 /\ SumTo(w, 0) = 0
    BY <1>1, SumToSteps
  <2> QED
    BY <2>1
<1>3. ASSUME NEW n \in 1 .. size, n - 1 \in P PROVE n \in P
  <2>1. n - 1 \in 0 .. size
    OBVIOUS
  <2>2. PICK x \in Int, y \in Int, z \in Int :
          x = SumTo(a, n - 1) /\ y = SumTo(w, n - 1) /\ z = SumTo(b, n - 1)
    BY <1>1, <2>1, SumToSteps
  <2>3. PICK x1 \in Int, y1 \in Int, z1 \in Int : x1 = a[n] /\ y1 = w[n] /\ z1 = b[n]
    BY <1>1
  <2>4. z1 = c * y1 - x1 /\ z = c * y - x
    BY <1>3, <2>2, <2>3 DEF Linear
  <2>5. SumTo(a, n) = x + x1 /\ SumTo(w, n) = y + y1 /\ SumTo(b, n) = z + z1
    BY <1>1, <2>2, <2>3, SumToSteps
  <2>6. z + z1 = c * (y + y1) - (x + x1)
    BY <2>4, SMTT(30)
  <2> QED
    BY <2>5, <2>6
<1>4. \A n \in 0 .. size : n \in P
  <2>1. \A n \in 0 + 1 .. size : n - 1 \in P => n \in P
    BY <1>3
  <2> HIDE DEF P
  <2> QED
    BY <1>2, <2>1, IntervalInduction
<1> QED
  BY <1>4


Bar == [low : Int, high : Int, close : Int, volume : Int]
Fraction == Int \X Int

\* A price reflected like the market's.
Flip(x) == <<2 * MirrorPrice * x[2] - x[1], x[2]>>

LEMMA ReadingConstants ==
  /\ EmaPeriod \in Nat /\ EmaPeriod >= 1 /\ RsiPeriod \in Nat /\ RsiPeriod >= 1
  /\ AtrPeriod \in Nat /\ AtrPeriod >= 1 /\ SupertrendPeriod \in Nat /\ SupertrendPeriod >= 1
  /\ SupertrendMultiplier \in Int /\ RsiBullish \in Int /\ RsiBearish \in Int
  /\ MinAgreeingChecks \in Int /\ MirrorPrice \in Int /\ RsiBearish < RsiBullish
  /\ VwapEnabled \in BOOLEAN /\ SupertrendEnabled \in BOOLEAN
  /\ ReadBars \subseteq Bar
BY ReadingAssumption DEF Bar

LEMMA FractionIs ==
  ASSUME NEW x \in Fraction
  PROVE  x[1] \in Int /\ x[2] \in Int /\ x = <<x[1], x[2]>>
BY DEF Fraction

\* Reflected, what was less is more.
LEMMA FlipTurns ==
  ASSUME NEW a \in Fraction, NEW b \in Fraction
  PROVE  /\ Flip(a) \in Fraction
         /\ Less(Flip(a), Flip(b)) <=> Less(b, a)
<1>1. PICK a1 \in Int, a2 \in Int, b1 \in Int, b2 \in Int : a = <<a1, a2>> /\ b = <<b1, b2>>
  BY DEF Fraction
<1>2. PICK m \in Int : m = 2 * MirrorPrice
  BY ReadingConstants
<1>3. Flip(a) = <<m * a2 - a1, a2>> /\ Flip(b) = <<m * b2 - b1, b2>> /\ m * a2 \in Int
  BY <1>1, <1>2 DEF Flip
<1>4. Flip(a) \in Fraction
  BY <1>3 DEF Fraction
<1>5. (m * a2 - a1) * b2 < (m * b2 - b1) * a2 <=> b1 * a2 < a1 * b2
  BY SMTT(30)
<1> QED
  BY <1>1, <1>3, <1>4, <1>5 DEF Less

\* A whole price reflected is twice the mirror's less the price.
LEMMA FlipOfWhole ==
  ASSUME NEW c \in Int
  PROVE  Flip(Whole(c)) = Whole(2 * MirrorPrice - c) /\ Whole(c) \in Fraction
<1>1. 2 * MirrorPrice * 1 = 2 * MirrorPrice /\ 2 * MirrorPrice \in Int
  BY ReadingConstants
<1> QED
  BY <1>1 DEF Flip, Whole, Fraction

LEMMA BarIs ==
  ASSUME NEW h \in Seq(Bar), NEW i \in 1 .. Len(h)
  PROVE  h[i].low \in Int /\ h[i].high \in Int /\ h[i].close \in Int /\ h[i].volume \in Int
<1>1. h[i] \in Bar
  OBVIOUS
<1> QED
  BY <1>1 DEF Bar

LEMMA MirroredIs ==
  ASSUME NEW h \in Seq(Bar)
  PROVE  /\ Mirrored(h) \in Seq(Bar)
         /\ Len(Mirrored(h)) = Len(h)
         /\ \A i \in 1 .. Len(h) :
              /\ Mirrored(h)[i].low = 2 * MirrorPrice - h[i].high
              /\ Mirrored(h)[i].high = 2 * MirrorPrice - h[i].low
              /\ Mirrored(h)[i].close = 2 * MirrorPrice - h[i].close
              /\ Mirrored(h)[i].volume = h[i].volume
<1> DEFINE m == 2 * MirrorPrice
           bar(i) == [low |-> m - h[i].high, high |-> m - h[i].low,
                      close |-> m - h[i].close, volume |-> h[i].volume]
<1>1. DOMAIN h = 1 .. Len(h) /\ Len(h) \in Nat /\ m \in Int
  BY ReadingConstants
<1>2. Mirrored(h) = [i \in 1 .. Len(h) |-> bar(i)]
  BY <1>1 DEF Mirrored
<1>3. ASSUME NEW i \in 1 .. Len(h) PROVE bar(i) \in Bar
  <2>1. h[i].low \in Int /\ h[i].high \in Int /\ h[i].close \in Int /\ h[i].volume \in Int
    BY BarIs
  <2>2. PICK w \in Int, x \in Int, y \in Int, z \in Int :
          w = m - h[i].high /\ x = m - h[i].low /\ y = m - h[i].close /\ z = h[i].volume
    <3> HIDE DEF m
    <3> QED
      BY <1>1, <2>1
  <2> QED
    BY <2>2 DEF Bar
<1>4. Mirrored(h) \in [1 .. Len(h) -> Bar]
  <2> HIDE DEF bar
  <2> QED
    BY <1>2, <1>3
<1>5. Mirrored(h) \in Seq(Bar) /\ Len(Mirrored(h)) = Len(h)
  BY <1>1, <1>4
<1>6. ASSUME NEW i \in 1 .. Len(h)
      PROVE  /\ Mirrored(h)[i].low = m - h[i].high /\ Mirrored(h)[i].high = m - h[i].low
             /\ Mirrored(h)[i].close = m - h[i].close /\ Mirrored(h)[i].volume = h[i].volume
  BY <1>2
<1> QED
  BY <1>5, <1>6

LEMMA ClosesAre ==
  ASSUME NEW h \in Seq(Bar)
  PROVE  /\ Len(h) \in Nat
         /\ \A i \in 1 .. Len(h) : /\ Closes(h)[i] = h[i].close /\ Closes(h)[i] \in Int
                                   /\ Volumes(h)[i] = h[i].volume /\ Volumes(h)[i] \in Int
         /\ Len(Volumes(h)) = Len(h)
BY BarIs DEF Closes, Volumes

\* The averages follow their equation.
LEMMA EmaIs ==
  ASSUME NEW h \in Seq(Bar), EmaPeriod <= Len(h)
  PROVE  \A n \in EmaPeriod .. Len(h) :
           /\ EmaTo(h)[n] \in Fraction
           /\ EmaTo(h)[n] = IF n = EmaPeriod THEN <<SumTo(Closes(h), n), n>>
                            ELSE EmaNext(EmaTo(h)[n - 1], h[n].close)
<1> DEFINE lo == EmaPeriod
           hi == Len(h)
           base == <<SumTo(Closes(h), lo), lo>>
           step == [p \in Fraction \X (lo + 1 .. hi) |-> EmaNext(p[1], h[p[2]].close)]
           Solves(f) == f = [n \in lo .. hi |-> IF n = EmaPeriod THEN <<SumTo(Closes(h), n), n>>
                                                ELSE EmaNext(f[n - 1], h[n].close)]
<1>1. lo \in Nat /\ lo >= 1 /\ hi \in Nat /\ lo <= hi /\ lo \in Int /\ hi \in Int
  BY ReadingConstants
<1>2. base \in Fraction
  <2>1. \A i \in 1 .. hi : Closes(h)[i] \in Int
    BY ClosesAre
  <2>2. SumTo(Closes(h), lo) \in Int
    BY <1>1, <2>1, SumToSteps
  <2> QED
    BY <1>1, <2>2 DEF Fraction
<1>3. ASSUME NEW e \in Fraction, NEW n \in lo + 1 .. hi
      PROVE  EmaNext(e, h[n].close) \in Fraction
  <2>1. PICK a \in Int, b \in Int, c \in Int, k \in Int :
          a = e[1] /\ b = e[2] /\ c = h[n].close /\ k = EmaPeriod
    BY <1>1, FractionIs, BarIs
  <2>2. 2 * c * b + (k - 1) * a \in Int /\ (k + 1) * b \in Int
    OBVIOUS
  <2> QED
    BY <2>1, <2>2 DEF EmaNext, Fraction
<1>4. step \in [Fraction \X (lo + 1 .. hi) -> Fraction]
  BY <1>3
<1>5. \A e \in Fraction, n \in lo + 1 .. hi : step[<<e, n>>] = EmaNext(e, h[n].close)
  OBVIOUS
<1> HIDE DEF step
<1>6. PICK f \in [lo .. hi -> Fraction] :
        \A n \in lo .. hi : f[n] = IF n = lo THEN base ELSE step[<<f[n - 1], n>>]
  <2> HIDE DEF base, lo, hi, Solves
  <2>1. PICK f : Recursion(f, Fraction, base, lo, hi, step)
    BY <1>1, <1>2, <1>4, TypedRecursion
  <2> QED
    BY <2>1 DEF Recursion
<1>7. ASSUME NEW n \in lo .. hi
      PROVE  f[n] = IF n = EmaPeriod THEN <<SumTo(Closes(h), n), n>>
                    ELSE EmaNext(f[n - 1], h[n].close)
  <2>1. CASE n = lo
    BY <1>6, <2>1
  <2>2. CASE n # lo
    <3>1. n \in lo + 1 .. hi /\ n - 1 \in lo .. hi
      BY <1>1, <2>2
    <3>2. f[n - 1] \in Fraction
      BY <3>1
    <3>3. step[<<f[n - 1], n>>] = EmaNext(f[n - 1], h[n].close)
      BY <1>5, <3>1, <3>2
    <3> QED
      BY <1>6, <2>2, <3>3
  <2> QED
    BY <2>1, <2>2
<1>8. \E g : Solves(g)
  <2>1. f = [n \in lo .. hi |-> f[n]]
    OBVIOUS
  <2>2. Solves(f)
    BY <1>7, <2>1
  <2> QED
    BY <2>2
<1>9. EmaTo(h) = CHOOSE g : Solves(g)
  BY DEF EmaTo
<1>10. Solves(EmaTo(h))
  <2> HIDE DEF Solves
  <2> QED
    BY <1>8, <1>9
<1>11. PICK e : e = EmaTo(h)
  OBVIOUS
<1>12. \A n \in lo .. hi : e[n] = IF n = EmaPeriod THEN <<SumTo(Closes(h), n), n>>
                                  ELSE EmaNext(e[n - 1], h[n].close)
  BY <1>10, <1>11
<1> DEFINE P == {n \in lo .. hi : e[n] \in Fraction}
<1>13. lo \in P
  BY <1>1, <1>2, <1>12
<1>14. ASSUME NEW n \in lo + 1 .. hi, n - 1 \in P PROVE n \in P
  <2>1. n \in lo .. hi /\ n # EmaPeriod
    BY <1>1
  <2>2. e[n] = EmaNext(e[n - 1], h[n].close)
    BY <1>12, <2>1
  <2> QED
    BY <1>3, <1>14, <2>1, <2>2
<1>15. \A n \in lo .. hi : n \in P
  <2>1. \A n \in lo + 1 .. hi : n - 1 \in P => n \in P
    BY <1>14
  <2> HIDE DEF P, lo, hi
  <2> QED
    BY <1>1, <1>13, <2>1, IntervalInduction
<1> QED
  BY <1>11, <1>12, <1>15


\* The mirrored market's closes add up to the mirror image of the sum.
LEMMA ClosesMirrored ==
  ASSUME NEW h \in Seq(Bar)
  PROVE  \A n \in 0 .. Len(h) :
           /\ SumTo(Closes(h), n) \in Int
           /\ SumTo(Closes(Mirrored(h)), n) = 2 * MirrorPrice * n - SumTo(Closes(h), n)
<1>8. PICK size \in Nat : size = Len(h)
  BY ClosesAre
<1> DEFINE ones == [i \in 1 .. size |-> 1]
           a == Closes(h)
           b == Closes(Mirrored(h))
           m == 2 * MirrorPrice
<1>1. m \in Int
  BY ReadingConstants
<1>2. \A i \in 1 .. size : a[i] \in Int /\ ones[i] \in Int /\ b[i] = m * ones[i] - a[i]
  <2>1. ASSUME NEW i \in 1 .. size PROVE a[i] \in Int /\ b[i] = m - a[i]
    BY <1>8, MirroredIs, ClosesAre
  <2> HIDE DEF a, b, m
  <2> QED
    BY <1>1, <2>1
<1>0. \A i \in 1 .. size : ones[i] = 1 /\ ones[i] \in Int
  OBVIOUS
<1> HIDE DEF a, b, m, ones
<1>3. \A n \in 0 .. size : SumTo(b, n) = m * SumTo(ones, n) - SumTo(a, n)
  <2>1. Linear(a, b, ones, m, size)
    BY <1>2 DEF Linear
  <2> QED
    BY <1>1, <2>1, SumToLinear
<1> DEFINE P == {n \in 0 .. size : SumTo(ones, n) = n}
<1>4. 0 \in P
  <2>1. SumTo(ones, 0) = 0
    BY <1>0, SumToSteps
  <2> QED
    BY <2>1
<1>5. ASSUME NEW n \in 1 .. size, n - 1 \in P PROVE n \in P
  <2>1. SumTo(ones, n) = SumTo(ones, n - 1) + 1
    BY <1>0, SumToSteps
  <2> QED
    BY <1>0, <1>5, <2>1
<1>6. \A n \in 0 .. size : n \in P
  <2>1. \A n \in 0 + 1 .. size : n - 1 \in P => n \in P
    BY <1>5
  <2> HIDE DEF P
  <2> QED
    BY <1>4, <2>1, IntervalInduction
<1>7. \A n \in 0 .. size : SumTo(a, n) \in Int
  BY <1>1, <1>2, SumToSteps
<1> QED
  BY <1>3, <1>6, <1>7, <1>8 DEF a, b, m

\* A step of the average, reflected, is a step of the reflected average.
LEMMA EmaNextTurns ==
  ASSUME NEW e \in Fraction, NEW c \in Int
  PROVE  EmaNext(Flip(e), 2 * MirrorPrice - c) = Flip(EmaNext(e, c))
<1>1. PICK a \in Int, b \in Int, k \in Int, m \in Int :
        e = <<a, b>> /\ k = EmaPeriod /\ m = 2 * MirrorPrice
  BY ReadingConstants DEF Fraction
<1>2. 2 * (m - c) * b + (k - 1) * (m * b - a) = m * ((k + 1) * b) - (2 * c * b + (k - 1) * a)
  BY SMTT(30)
<1> QED
  BY <1>1, <1>2 DEF EmaNext, Flip

LEMMA EmaMirrored ==
  ASSUME NEW h \in Seq(Bar), EmaPeriod <= Len(h)
  PROVE  Ema(h) \in Fraction /\ Ema(Mirrored(h)) = Flip(Ema(h))
<1>1. PICK lo \in Int, hi \in Int : lo = EmaPeriod /\ hi = Len(h) /\ lo >= 1 /\ lo <= hi
  BY ReadingConstants, ClosesAre
<1>2. PICK g : g = Mirrored(h)
  OBVIOUS
<1>3. g \in Seq(Bar) /\ Len(g) = hi
  BY <1>1, <1>2, MirroredIs
<1>4. PICK e, f : e = EmaTo(h) /\ f = EmaTo(g)
  OBVIOUS
<1>5. \A n \in lo .. hi : /\ e[n] \in Fraction
                          /\ e[n] = IF n = lo THEN <<SumTo(Closes(h), n), n>>
                                    ELSE EmaNext(e[n - 1], h[n].close)
  BY <1>1, <1>4, EmaIs
<1>6. \A n \in lo .. hi : f[n] = IF n = lo THEN <<SumTo(Closes(g), n), n>>
                                 ELSE EmaNext(f[n - 1], g[n].close)
  BY <1>1, <1>3, <1>4, EmaIs
<1> DEFINE P == {n \in lo .. hi : f[n] = Flip(e[n])}
<1>7. lo \in P
  <2>1. PICK s \in Int : s = SumTo(Closes(h), lo)
    BY <1>1, ClosesMirrored
  <2>2. SumTo(Closes(g), lo) = 2 * MirrorPrice * lo - s
    BY <1>1, <1>2, <2>1, ClosesMirrored
  <2>3. lo \in lo .. hi
    BY <1>1
  <2>4. e[lo] = <<s, lo>>
    BY <1>5, <2>1, <2>3
  <2>5. f[lo] = <<2 * MirrorPrice * lo - s, lo>>
    BY <1>6, <2>2, <2>3
  <2> QED
    BY <2>3, <2>4, <2>5 DEF Flip
<1>8. ASSUME NEW n \in lo + 1 .. hi, n - 1 \in P PROVE n \in P
  <2>1. n \in lo .. hi /\ n # lo /\ n - 1 \in lo .. hi /\ n \in 1 .. Len(h)
    BY <1>1
  <2>2. e[n - 1] \in Fraction /\ e[n] = EmaNext(e[n - 1], h[n].close)
    BY <1>5, <2>1
  <2>3. f[n] = EmaNext(f[n - 1], g[n].close) /\ f[n - 1] = Flip(e[n - 1])
    BY <1>6, <1>8, <2>1
  <2>4. g[n].close = 2 * MirrorPrice - h[n].close /\ h[n].close \in Int
    BY <1>2, <2>1, MirroredIs, BarIs
  <2> QED
    BY <2>1, <2>2, <2>3, <2>4, EmaNextTurns
<1>9. \A n \in lo .. hi : n \in P
  <2>1. \A n \in lo + 1 .. hi : n - 1 \in P => n \in P
    BY <1>8
  <2> HIDE DEF P
  <2> QED
    BY <1>1, <1>7, <2>1, IntervalInduction
<1>10. f[hi] = Flip(e[hi]) /\ e[hi] \in Fraction
  <2>1. hi \in lo .. hi
    BY <1>1
  <2> QED
    BY <1>5, <1>9, <2>1
<1> QED
  BY <1>1, <1>2, <1>3, <1>4, <1>10 DEF Ema

\* Wilder's mean stays within what its first value is in and its steps keep.
LEMMA WilderIs ==
  ASSUME NEW list, Len(list) \in Nat, NEW period \in 1 .. Len(list),
         NEW S, <<SumTo(list, period), period>> \in S,
         \A e \in S, n \in period + 1 .. Len(list) : WilderNext(e, list[n], period) \in S
  PROVE  Wilder(list, period) \in S
<1> DEFINE hi == Len(list)
           base == <<SumTo(list, period), period>>
           step == [p \in S \X (period + 1 .. hi) |-> WilderNext(p[1], list[p[2]], period)]
           Solves(f) == f = [n \in period .. hi |-> IF n = period THEN <<SumTo(list, n), n>>
                                                    ELSE WilderNext(f[n - 1], list[n], period)]
<1>1. period \in Int /\ hi \in Int /\ period <= hi
  OBVIOUS
<1>2. step \in [S \X (period + 1 .. hi) -> S]
  OBVIOUS
<1>3. \A e \in S, n \in period + 1 .. hi : step[<<e, n>>] = WilderNext(e, list[n], period)
  OBVIOUS
<1> HIDE DEF step
<1>4. PICK f \in [period .. hi -> S] :
        \A n \in period .. hi : f[n] = IF n = period THEN base ELSE step[<<f[n - 1], n>>]
  <2> HIDE DEF base, hi, Solves
  <2>1. base \in S
    BY DEF base
  <2>2. PICK f : Recursion(f, S, base, period, hi, step)
    BY <1>1, <1>2, <2>1, TypedRecursion
  <2> QED
    BY <2>2 DEF Recursion
<1>5. ASSUME NEW n \in period .. hi
      PROVE  f[n] = IF n = period THEN <<SumTo(list, n), n>> ELSE WilderNext(f[n - 1], list[n], period)
  <2>1. CASE n = period
    BY <1>4, <2>1
  <2>2. CASE n # period
    <3>1. n \in period + 1 .. hi /\ n - 1 \in period .. hi
      BY <2>2
    <3>2. f[n - 1] \in S
      BY <3>1
    <3>3. step[<<f[n - 1], n>>] = WilderNext(f[n - 1], list[n], period)
      BY <1>3, <3>1, <3>2
    <3> QED
      BY <1>4, <2>2, <3>3
  <2> QED
    BY <2>1, <2>2
<1>6. \E g : Solves(g)
  <2>1. f = [n \in period .. hi |-> f[n]]
    OBVIOUS
  <2>2. Solves(f)
    BY <1>5, <2>1
  <2> QED
    BY <2>2
<1>7. WilderTo(list, period) = CHOOSE g : Solves(g)
  BY DEF WilderTo
<1>8. Solves(WilderTo(list, period))
  <2> HIDE DEF Solves
  <2> QED
    BY <1>6, <1>7
<1>9. PICK e : e = WilderTo(list, period)
  OBVIOUS
<1>10. \A n \in period .. hi : e[n] = IF n = period THEN <<SumTo(list, n), n>>
                                     ELSE WilderNext(e[n - 1], list[n], period)
  BY <1>8, <1>9
<1> DEFINE P == {n \in period .. hi : e[n] \in S}
<1>11. period \in P
  BY <1>1, <1>10
<1>12. ASSUME NEW n \in period + 1 .. hi, n - 1 \in P PROVE n \in P
  <2>1. n \in period .. hi /\ n # period
    OBVIOUS
  <2>2. e[n] = WilderNext(e[n - 1], list[n], period)
    BY <1>10, <2>1
  <2> QED
    BY <1>12, <2>1, <2>2
<1>13. \A n \in period .. hi : n \in P
  <2>1. \A n \in period + 1 .. hi : n - 1 \in P => n \in P
    BY <1>12
  <2> HIDE DEF P, hi
  <2> QED
    BY <1>1, <1>11, <2>1, IntervalInduction
<1> QED
  BY <1>1, <1>9, <1>13 DEF Wilder


LEMMA RiseIs ==
  ASSUME NEW a \in Int, NEW b \in Int, NEW m \in Int
  PROVE  Rise(a, b) \in Nat /\ Rise(m - a, m - b) = Rise(b, a)
BY DEF Rise

\* What a market gains, its mirror image loses.
LEMMA GainsMirrored ==
  ASSUME NEW h \in Seq(Bar)
  PROVE  /\ Gains(h) \in Seq(Nat) /\ Losses(h) \in Seq(Nat)
         /\ Len(h) >= 1 => Len(Gains(h)) = Len(h) - 1 /\ Len(Losses(h)) = Len(h) - 1
         /\ Gains(Mirrored(h)) = Losses(h) /\ Losses(Mirrored(h)) = Gains(h)
<1>1. PICK size \in Nat : size = Len(h)
  BY ClosesAre
<1>2. PICK g : g = Mirrored(h)
  OBVIOUS
<1>3. PICK m \in Int : m = 2 * MirrorPrice
  BY ReadingConstants
<1>4. ASSUME NEW i \in 1 .. size - 1
      PROVE  /\ Rise(h[i].close, h[i + 1].close) \in Nat /\ Rise(h[i + 1].close, h[i].close) \in Nat
             /\ Rise(g[i].close, g[i + 1].close) = Rise(h[i + 1].close, h[i].close)
             /\ Rise(g[i + 1].close, g[i].close) = Rise(h[i].close, h[i + 1].close)
  <2>1. i \in 1 .. size /\ i + 1 \in 1 .. size
    OBVIOUS
  <2>2. PICK a \in Int, b \in Int : a = h[i].close /\ b = h[i + 1].close
    BY <1>1, <2>1, BarIs
  <2>3. g[i].close = m - a /\ g[i + 1].close = m - b
    BY <1>1, <1>2, <1>3, <2>1, <2>2, MirroredIs
  <2>4. /\ Rise(a, b) \in Nat /\ Rise(m - a, m - b) = Rise(b, a)
        /\ Rise(b, a) \in Nat /\ Rise(m - b, m - a) = Rise(a, b)
    BY RiseIs
  <2> QED
    BY <2>2, <2>3, <2>4
<1>5. Gains(h) \in [1 .. size - 1 -> Nat] /\ Losses(h) \in [1 .. size - 1 -> Nat]
  BY <1>1, <1>4 DEF Gains, Losses
<1>6. Gains(h) \in Seq(Nat) /\ Losses(h) \in Seq(Nat)
  <2>1. PICK n \in Nat : 1 .. size - 1 = 1 .. n
    <3>1. CASE size = 0
      <4>1. 1 .. size - 1 = 1 .. 0
        BY <3>1
      <4> QED
        BY <4>1
    <3>2. CASE size # 0
      <4>1. size - 1 \in Nat
        BY <3>2
      <4> QED
        BY <4>1
    <3> QED
      BY <3>1, <3>2
  <2>2. \A f \in [1 .. n -> Nat] : f \in Seq(Nat)
    OBVIOUS
  <2> QED
    BY <1>5, <2>1, <2>2
<1>7. Len(h) >= 1 => Len(Gains(h)) = Len(h) - 1 /\ Len(Losses(h)) = Len(h) - 1
  BY <1>1, <1>5, <1>6
<1>8. Gains(g) = Losses(h) /\ Losses(g) = Gains(h)
  <2>1. Len(g) = size
    BY <1>1, <1>2, MirroredIs
  <2>2. /\ Gains(g) = [i \in 1 .. size - 1 |-> Rise(g[i].close, g[i + 1].close)]
        /\ Losses(g) = [i \in 1 .. size - 1 |-> Rise(g[i + 1].close, g[i].close)]
        /\ Gains(h) = [i \in 1 .. size - 1 |-> Rise(h[i].close, h[i + 1].close)]
        /\ Losses(h) = [i \in 1 .. size - 1 |-> Rise(h[i + 1].close, h[i].close)]
    BY <1>1, <2>1 DEF Gains, Losses
  <2> QED
    BY <1>4, <2>2
<1> QED
  BY <1>2, <1>6, <1>7, <1>8

LEMMA SumToNat ==
  ASSUME NEW size \in Nat, NEW list, \A i \in 1 .. size : list[i] \in Nat
  PROVE  \A n \in 0 .. size : SumTo(list, n) \in Nat
<1>1. \A i \in 1 .. size : list[i] \in Int
  OBVIOUS
<1> DEFINE P == {n \in 0 .. size : SumTo(list, n) \in Nat}
<1>2. 0 \in P
  <2>1. SumTo(list, 0) = 0
    BY <1>1, SumToSteps
  <2> QED
    BY <2>1
<1>3. ASSUME NEW n \in 1 .. size, n - 1 \in P PROVE n \in P
  <2>1. SumTo(list, n) = SumTo(list, n - 1) + list[n]
    BY <1>1, SumToSteps
  <2> QED
    BY <1>3, <2>1
<1>4. \A n \in 0 + 1 .. size : n - 1 \in P => n \in P
  BY <1>3
<1>5. \A n \in 0 .. size : n \in P
  <2> HIDE DEF P
  <2> QED
    BY <1>2, <1>4, IntervalInduction
<1> QED
  BY <1>5

LEMMA WilderNextOfNats ==
  ASSUME NEW a \in Nat, NEW b \in Nat, NEW x \in Nat, NEW k \in Nat, b > 0, k > 0
  PROVE  WilderNext(<<a, b>>, x, k) \in Nat \X (Nat \ {0})
<1>1. PICK j \in Nat : j = k - 1
  OBVIOUS
<1>2. PICK p \in Nat, q \in Nat, d \in Nat : p = a * j /\ q = x * b /\ d = k * b /\ d > 0
  <2>1. a * j \in Nat /\ x * b \in Nat /\ k * b \in Nat /\ k * b > 0
    BY SMTT(30)
  <2> QED
    BY <2>1
<1>3. WilderNext(<<a, b>>, x, k) = <<p + q, d>>
  BY <1>1, <1>2 DEF WilderNext
<1> QED
  BY <1>2, <1>3

\* The mean of what is never less than nothing.
LEMMA MeanOfNats ==
  ASSUME NEW list \in Seq(Nat), NEW period \in 1 .. Len(list)
  PROVE  Wilder(list, period)[1] \in Nat
<1> DEFINE S == Nat \X (Nat \ {0})
<1>1. PICK size \in Nat : size = Len(list)
  OBVIOUS
<1>2. \A i \in 1 .. size : list[i] \in Nat /\ list[i] \in Int
  BY <1>1
<1>3. \A n \in 0 .. size : SumTo(list, n) \in Nat
  BY <1>2, SumToNat
<1>4. <<SumTo(list, period), period>> \in S
  BY <1>1, <1>3
<1>5. ASSUME NEW e \in S, NEW n \in period + 1 .. Len(list)
      PROVE  WilderNext(e, list[n], period) \in S
  <2>1. PICK a \in Nat, b \in Nat, x \in Nat, k \in Nat :
          e = <<a, b>> /\ b > 0 /\ x = list[n] /\ k = period /\ k > 0
    BY <1>1, <1>2
  <2> QED
    BY <2>1, WilderNextOfNats
<1>6. Wilder(list, period) \in S
  <2> HIDE DEF S
  <2> QED
    BY <1>1, <1>4, <1>5, WilderIs
<1> QED
  BY <1>6

LEMMA MeansMirrored ==
  ASSUME NEW h \in Seq(Bar), RsiPeriod + 1 <= Len(h)
  PROVE  /\ MeanGain(h) \in Nat /\ MeanLoss(h) \in Nat
         /\ MeanGain(Mirrored(h)) = MeanLoss(h) /\ MeanLoss(Mirrored(h)) = MeanGain(h)
<1>1. PICK size \in Nat : size = Len(h)
  BY ClosesAre
<1>2. RsiPeriod \in 1 .. Len(Gains(h)) /\ RsiPeriod \in 1 .. Len(Losses(h))
  BY <1>1, GainsMirrored, ReadingConstants
<1>3. Gains(h) \in Seq(Nat) /\ Losses(h) \in Seq(Nat)
  BY GainsMirrored
<1>4. MeanGain(h) \in Nat /\ MeanLoss(h) \in Nat
  BY <1>2, <1>3, MeanOfNats DEF MeanGain, MeanLoss
<1> QED
  BY <1>4, GainsMirrored DEF MeanGain, MeanLoss

\* The RSI of a market that has moved, compared without dividing.
LEMMA RsiIs ==
  ASSUME NEW h, MeanGain(h) \in Nat, MeanLoss(h) \in Nat, NEW s \in Nat,
         s = MeanGain(h) + MeanLoss(h), s > 0
  PROVE  /\ Rsi(h) \in Fraction
         /\ \A b \in Int : /\ Less(Whole(b), Rsi(h)) <=> b * s < 100 * MeanGain(h)
                           /\ Less(Rsi(h), Whole(b)) <=> 100 * MeanGain(h) < b * s
         /\ Distance(Rsi(h)[1], 50 * Rsi(h)[2]) >= 20 * Rsi(h)[2]
              <=> Distance(100 * MeanGain(h), 50 * s) >= 20 * s
<1>1. PICK g \in Nat, l \in Nat : g = MeanGain(h) /\ l = MeanLoss(h) /\ s = g + l
  OBVIOUS
<1>2. CASE l = 0
  <2>1. Rsi(h) = <<100, 1>> /\ s = g
    BY <1>1, <1>2 DEF Rsi, Whole
  <2>2. ASSUME NEW b \in Int
        PROVE  /\ Less(Whole(b), Rsi(h)) <=> b * s < 100 * g
               /\ Less(Rsi(h), Whole(b)) <=> 100 * g < b * s
    <3>1. (b * g < 100 * g <=> b < 100) /\ (100 * g < b * g <=> 100 < b)
      BY <2>1, SMTT(30)
    <3> QED
      BY <2>1, <3>1 DEF Less, Whole
  <2>3. Distance(100, 50) >= 20 /\ Distance(100 * g, 50 * s) >= 20 * s
    BY <2>1 DEF Distance
  <2>4. Distance(Rsi(h)[1], 50 * Rsi(h)[2]) >= 20 * Rsi(h)[2]
    BY <2>1, <2>3
  <2>5. Rsi(h) \in Fraction
    BY <2>1 DEF Fraction
  <2> QED
    BY <1>1, <2>2, <2>3, <2>4, <2>5
<1>3. CASE l # 0
  <2>1. Rsi(h) = <<100 * g, s>>
    BY <1>1, <1>3 DEF Rsi
  <2>2. ASSUME NEW b \in Int
        PROVE  /\ Less(Whole(b), Rsi(h)) <=> b * s < 100 * g
               /\ Less(Rsi(h), Whole(b)) <=> 100 * g < b * s
    BY <2>1 DEF Less, Whole
  <2>3. Rsi(h) \in Fraction
    BY <2>1 DEF Fraction
  <2>4. Rsi(h)[1] = 100 * g /\ Rsi(h)[2] = s
    BY <2>1
  <2> QED
    BY <1>1, <2>2, <2>3, <2>4
<1> QED
  BY <1>2, <1>3

\* Reflected, the RSI is as far below 50 as it was above.
LEMMA RsiMirrored ==
  ASSUME NEW h \in Seq(Bar), RsiPeriod + 1 <= Len(h), Moved(h)
  PROVE  /\ Rsi(h) \in Fraction
         /\ \A b \in Int : /\ Less(Whole(b), Rsi(Mirrored(h))) <=> Less(Rsi(h), Whole(100 - b))
                           /\ Less(Rsi(Mirrored(h)), Whole(b)) <=> Less(Whole(100 - b), Rsi(h))
         /\ LET own == Rsi(h)
                mirror == Rsi(Mirrored(h))
            IN Distance(mirror[1], 50 * mirror[2]) >= 20 * mirror[2]
                 <=> Distance(own[1], 50 * own[2]) >= 20 * own[2]
<1>1. PICK g \in Nat, l \in Nat, s \in Nat :
        g = MeanGain(h) /\ l = MeanLoss(h) /\ s = g + l /\ s > 0
  BY MeansMirrored DEF Moved
<1>2. PICK k : k = Mirrored(h)
  OBVIOUS
<1>3. MeanGain(k) = l /\ MeanLoss(k) = g
  BY <1>1, <1>2, MeansMirrored
<1>4. /\ Rsi(h) \in Fraction
      /\ \A b \in Int : (Less(Whole(b), Rsi(h)) <=> b * s < 100 * g) /\ (Less(Rsi(h), Whole(b)) <=> 100 * g < b * s)
      /\ Distance(Rsi(h)[1], 50 * Rsi(h)[2]) >= 20 * Rsi(h)[2] <=> Distance(100 * g, 50 * s) >= 20 * s
  BY <1>1, RsiIs
<1>5. /\ \A b \in Int : (Less(Whole(b), Rsi(k)) <=> b * s < 100 * l) /\ (Less(Rsi(k), Whole(b)) <=> 100 * l < b * s)
      /\ Distance(Rsi(k)[1], 50 * Rsi(k)[2]) >= 20 * Rsi(k)[2] <=> Distance(100 * l, 50 * s) >= 20 * s
  <2>1. MeanGain(k) \in Nat /\ MeanLoss(k) \in Nat /\ s = MeanGain(k) + MeanLoss(k)
    BY <1>1, <1>3
  <2> QED
    BY <1>1, <1>3, <2>1, RsiIs
<1>6. ASSUME NEW b \in Int
      PROVE  /\ b * s < 100 * l <=> 100 * g < (100 - b) * s
             /\ 100 * l < b * s <=> (100 - b) * s < 100 * g
  <2>1. PICK p \in Int : p = b * s
    OBVIOUS
  <2>2. PICK q \in Int : q = (100 - b) * s /\ q = 100 * s - p
    <3>1. (100 - b) * s = 100 * s - p
      BY <2>1, SMTT(30)
    <3> QED
      BY <3>1
  <2>3. s = g + l
    BY <1>1
  <2> QED
    BY <2>1, <2>2, <2>3
<1>7. Distance(100 * l, 50 * s) >= 20 * s <=> Distance(100 * g, 50 * s) >= 20 * s
  <2>1. s = g + l
    BY <1>1
  <2> QED
    BY <2>1 DEF Distance
<1>8. \A b \in Int : 100 - b \in Int
  OBVIOUS
<1> QED
  BY <1>2, <1>4, <1>5, <1>6, <1>7, <1>8


\* A candle of the mirrored market ranges as far.
LEMMA TrueRangeMirrored ==
  ASSUME NEW h \in Seq(Bar), NEW i \in 1 .. Len(h)
  PROVE  TrueRange(h, i) \in Int /\ TrueRange(Mirrored(h), i) = TrueRange(h, i)
<1>0. PICK g : g = Mirrored(h)
  OBVIOUS
<1>1. PICK m \in Int : g = Mirrored(h) /\ m = 2 * MirrorPrice
  BY <1>0, ReadingConstants
<1>2. PICK low \in Int, high \in Int : low = h[i].low /\ high = h[i].high
  BY BarIs
<1>3. g[i].low = m - high /\ g[i].high = m - low
  BY <1>1, <1>2, MirroredIs
<1>4. CASE i = 1
  BY <1>1, <1>2, <1>3, <1>4 DEF TrueRange
<1>5. CASE i # 1
  <2>1. i - 1 \in 1 .. Len(h)
    BY <1>5
  <2>2. PICK close \in Int : close = h[i - 1].close
    BY <2>1, BarIs
  <2>3. g[i - 1].close = m - close
    BY <1>1, <2>1, <2>2, MirroredIs
  <2>4. PICK a \in Int, b \in Int, c \in Int :
          a = high - low /\ b = Distance(high, close) /\ c = Distance(low, close)
    <3>1. high - low \in Int /\ Distance(high, close) \in Int /\ Distance(low, close) \in Int
      BY DEF Distance
    <3> QED
      BY <3>1
  <2>5. TrueRange(h, i) = Max({a, b, c})
    BY <1>2, <1>5, <2>2, <2>4 DEF TrueRange
  <2>6. /\ (m - low) - (m - high) = a /\ Distance(m - low, m - close) = c
        /\ Distance(m - high, m - close) = b
    BY <2>4 DEF Distance
  <2>7. TrueRange(g, i) = Max({a, c, b})
    BY <1>3, <1>5, <2>3, <2>6 DEF TrueRange
  <2>8. Max({a, b, c}) \in Int
    BY MaxOfThree
  <2>9. PICK S, T : S = {a, b, c} /\ T = {a, c, b}
    OBVIOUS
  <2>10. S = T
    BY <2>9
  <2> QED
    BY <1>1, <2>5, <2>7, <2>8, <2>9, <2>10
<1> QED
  BY <1>4, <1>5

LEMMA AtrMirrored ==
  ASSUME NEW h \in Seq(Bar), NEW p \in 1 .. Len(h)
  PROVE  Atr(h, p) \in Fraction /\ Atr(Mirrored(h), p) = Atr(h, p)
<1>1. PICK size \in Nat : size = Len(h) /\ p \in 1 .. size
  BY ClosesAre
<1>2. PICK g : g = Mirrored(h)
  OBVIOUS
<1>3. DOMAIN h = 1 .. size /\ DOMAIN g = 1 .. size
  BY <1>1, <1>2, MirroredIs
<1>4. PICK list : list = [i \in 1 .. size |-> TrueRange(h, i)]
  OBVIOUS
<1>5. \A i \in 1 .. size : list[i] \in Int
  BY <1>1, <1>4, TrueRangeMirrored
<1>6. [i \in 1 .. size |-> TrueRange(g, i)] = list
  BY <1>1, <1>2, <1>4, TrueRangeMirrored
<1>7. Atr(h, p) = Wilder(list, p) /\ Atr(g, p) = Wilder(list, p)
  BY <1>3, <1>4, <1>6 DEF Atr
<1>8. Len(list) = size
  BY <1>4
<1>9. <<SumTo(list, p), p>> \in Fraction
  <2>1. SumTo(list, p) \in Int
    BY <1>1, <1>5, SumToSteps
  <2> QED
    BY <1>1, <2>1 DEF Fraction
<1>10. ASSUME NEW e \in Fraction, NEW n \in p + 1 .. size
       PROVE  WilderNext(e, list[n], p) \in Fraction
  <2>1. PICK a \in Int, b \in Int, x \in Int, k \in Int : e = <<a, b>> /\ x = list[n] /\ k = p
    BY <1>1, <1>5 DEF Fraction
  <2>2. PICK u \in Int, v \in Int : u = a * (k - 1) + x * b /\ v = k * b
    OBVIOUS
  <2> QED
    BY <2>1, <2>2 DEF WilderNext, Fraction
<1>11. Wilder(list, p) \in Fraction
  BY <1>1, <1>8, <1>9, <1>10, WilderIs
<1> QED
  BY <1>2, <1>7, <1>11

LEMMA VwapMirrored ==
  ASSUME NEW h \in Seq(Bar)
  PROVE  Vwap(h) \in Fraction /\ Vwap(Mirrored(h)) = Flip(Vwap(h))
<1>1. PICK size \in Nat : size = Len(h)
  BY ClosesAre
<1>2. PICK g : g = Mirrored(h)
  OBVIOUS
<1>3. DOMAIN h = 1 .. size /\ DOMAIN g = 1 .. size
  BY <1>1, <1>2, MirroredIs
<1>4. PICK c \in Int : c = 6 * MirrorPrice
  BY ReadingConstants
<1>5. PICK a, b, w : /\ a = [i \in 1 .. size |-> (h[i].high + h[i].low + h[i].close) * h[i].volume]
                     /\ b = [i \in 1 .. size |-> (g[i].high + g[i].low + g[i].close) * g[i].volume]
                     /\ w = [i \in 1 .. size |-> h[i].volume]
  OBVIOUS
<1>6. Volumes(h) = w /\ Volumes(g) = w
  <2>1. \A i \in 1 .. size : g[i].volume = h[i].volume
    BY <1>1, <1>2, MirroredIs
  <2> QED
    BY <1>3, <1>5, <2>1 DEF Volumes
<1>7. ASSUME NEW i \in 1 .. size
      PROVE  a[i] \in Int /\ w[i] \in Int /\ b[i] = c * w[i] - a[i]
  <2>1. PICK x \in Int, y \in Int, z \in Int, v \in Int :
          x = h[i].high /\ y = h[i].low /\ z = h[i].close /\ v = h[i].volume
    BY <1>1, BarIs
  <2>2. PICK m \in Int : m = 2 * MirrorPrice /\ c = 3 * m
    BY <1>4, ReadingConstants
  <2>3. g[i].high = m - y /\ g[i].low = m - x /\ g[i].close = m - z /\ g[i].volume = v
    BY <1>1, <1>2, <2>1, <2>2, MirroredIs
  <2>4. a[i] = (x + y + z) * v /\ w[i] = v /\ b[i] = ((m - y) + (m - x) + (m - z)) * v
    BY <1>5, <2>1, <2>3
  <2>5. ((m - y) + (m - x) + (m - z)) * v = (3 * m) * v - (x + y + z) * v /\ (x + y + z) * v \in Int
    BY SMTT(30)
  <2> QED
    BY <2>2, <2>4, <2>5
<1>8. Linear(a, b, w, c, size)
  BY <1>7 DEF Linear
<1>9. SumTo(b, size) = c * SumTo(w, size) - SumTo(a, size)
  <2>1. \A n \in 0 .. size : SumTo(b, n) = c * SumTo(w, n) - SumTo(a, n)
    BY <1>8, SumToLinear
  <2> QED
    BY <2>1
<1>10. PICK s \in Int, v \in Int : s = SumTo(a, size) /\ v = SumTo(w, size)
  <2>1. size \in 0 .. size /\ (\A i \in 1 .. size : a[i] \in Int) /\ \A i \in 1 .. size : w[i] \in Int
    BY <1>7
  <2> QED
    BY <2>1, SumToSteps
<1>11. Len(a) = size /\ Len(b) = size /\ Len(w) = size
  BY <1>5
<1>12. Vwap(h) = <<s, 3 * v>> /\ Vwap(g) = <<c * v - s, 3 * v>>
  BY <1>3, <1>5, <1>6, <1>9, <1>10, <1>11 DEF Vwap, Sum
<1>13. c * v = 2 * MirrorPrice * (3 * v) /\ 3 * v \in Int
  <2>1. PICK m \in Int : m = MirrorPrice
    BY ReadingConstants
  <2>2. (6 * m) * v = 2 * m * (3 * v)
    BY SMTT(30)
  <2> QED
    BY <1>4, <2>1, <2>2
<1> QED
  BY <1>2, <1>12, <1>13 DEF Flip, Fraction

LEMMA VolumeMirrored ==
  ASSUME NEW h \in Seq(Bar), Len(h) >= 1
  PROVE  AnalyzeVolume(Mirrored(h)) = AnalyzeVolume(h)
<1>1. PICK size \in Nat : size = Len(h) /\ size >= 1
  BY ClosesAre
<1>2. PICK g : g = Mirrored(h)
  OBVIOUS
<1>3. Len(g) = size /\ DOMAIN g = 1 .. size /\ DOMAIN h = 1 .. size
  BY <1>1, <1>2, MirroredIs
<1>4. \A i \in 1 .. size : g[i].volume = h[i].volume
  BY <1>1, <1>2, MirroredIs
<1>5. Volumes(g) = Volumes(h)
  BY <1>3, <1>4 DEF Volumes
<1>6. Latest(g).volume = Latest(h).volume
  BY <1>1, <1>3, <1>4 DEF Latest
<1> QED
  BY <1>1, <1>2, <1>3, <1>5, <1>6 DEF AnalyzeVolume


Overturned(trend) ==
  IF trend = "UPTREND" THEN "DOWNTREND" ELSE IF trend = "DOWNTREND" THEN "UPTREND" ELSE trend

\* What DetermineTrend takes of a half.
Highest(h, part) == Max({h[i].high : i \in part})
Lowest(h, part) == Min({h[i].low : i \in part})

\* The highest of some candles is the lowest of their mirror images.
LEMMA ExtremesMirrored ==
  ASSUME NEW h \in Seq(Bar), NEW part \in SUBSET (1 .. Len(h)), part # {}
  PROVE  /\ Highest(h, part) \in Int /\ Lowest(h, part) \in Int
         /\ Highest(Mirrored(h), part) = 2 * MirrorPrice - Lowest(h, part)
         /\ Lowest(Mirrored(h), part) = 2 * MirrorPrice - Highest(h, part)
<1>1. PICK g : g = Mirrored(h)
  OBVIOUS
<1>2. PICK m \in Int : m = 2 * MirrorPrice
  BY ReadingConstants
<1>3. PICK high, low : high = [i \in part |-> h[i].high] /\ low = [i \in part |-> h[i].low]
  OBVIOUS
<1>4. PICK high2, low2 : high2 = [i \in part |-> g[i].high] /\ low2 = [i \in part |-> g[i].low]
  OBVIOUS
<1>5. ASSUME NEW i \in part
      PROVE  /\ high[i] \in Int /\ low[i] \in Int
             /\ high2[i] = m - low[i] /\ low2[i] = m - high[i]
  <2>1. i \in 1 .. Len(h)
    OBVIOUS
  <2>2. h[i].low \in Int /\ h[i].high \in Int
    BY <2>1, BarIs
  <2>3. g[i].low = m - h[i].high /\ g[i].high = m - h[i].low
    BY <1>1, <1>2, <2>1, MirroredIs
  <2> QED
    BY <1>3, <1>4, <2>2, <2>3
<1>6. IsFiniteSet(part)
  <2>1. PICK size \in Nat : size = Len(h)
    BY ClosesAre
  <2>2. IsFiniteSet(1 .. size) /\ part \in SUBSET (1 .. size)
    BY <2>1, FS_Interval
  <2> QED
    BY <2>2, FS_Subset
<1>7. PICK H, L, H2, L2 : /\ H = {high[i] : i \in part} /\ L = {low[i] : i \in part}
                          /\ H2 = {high2[i] : i \in part} /\ L2 = {low2[i] : i \in part}
  OBVIOUS
<1>8. /\ IsFiniteSet(H) /\ IsFiniteSet(L) /\ IsFiniteSet(H2) /\ IsFiniteSet(L2)
      /\ H # {} /\ L # {} /\ H2 # {} /\ L2 # {}
  BY <1>6, <1>7, ImageFinite
<1>9. /\ \A x \in H : x \in Int
      /\ \A x \in L : x \in Int
      /\ \A x \in H2 : x \in Int
      /\ \A x \in L2 : x \in Int
  BY <1>5, <1>7
<1>10. /\ Max(H) \in H /\ \A y \in H : Max(H) >= y
       /\ Min(L) \in L /\ \A y \in L : Min(L) <= y
       /\ Max(H2) \in H2 /\ \A y \in H2 : Max(H2) >= y
       /\ Min(L2) \in L2 /\ \A y \in L2 : Min(L2) <= y
  BY <1>8, <1>9, MaxMinOf
<1>11. PICK a \in Int, b \in Int, c \in Int, d \in Int :
         a = Max(H) /\ b = Min(L) /\ c = Max(H2) /\ d = Min(L2)
  BY <1>9, <1>10
<1>12. c = m - b
  <2>1. PICK i \in part : b = low[i]
    BY <1>7, <1>10, <1>11
  <2>2. PICK j \in part : c = high2[j]
    BY <1>7, <1>10, <1>11
  <2>3. c >= high2[i] /\ b <= low[j]
    BY <1>7, <1>10, <1>11
  <2> QED
    BY <1>5, <2>1, <2>2, <2>3
<1>13. d = m - a
  <2>1. PICK i \in part : a = high[i]
    BY <1>7, <1>10, <1>11
  <2>2. PICK j \in part : d = low2[j]
    BY <1>7, <1>10, <1>11
  <2>3. d <= low2[i] /\ a >= high[j]
    BY <1>7, <1>10, <1>11
  <2> QED
    BY <1>5, <2>1, <2>2, <2>3
<1>14. /\ {h[i].high : i \in part} = H /\ {h[i].low : i \in part} = L
       /\ {g[i].high : i \in part} = H2 /\ {g[i].low : i \in part} = L2
  BY <1>3, <1>4, <1>7
<1> QED
  BY <1>1, <1>2, <1>11, <1>12, <1>13, <1>14 DEF Highest, Lowest

LEMMA TrendMirrored ==
  ASSUME NEW h \in Seq(Bar), Len(h) >= 2
  PROVE  DetermineTrend(Mirrored(h)) = Overturned(DetermineTrend(h))
<1>1. PICK size \in Nat : size = Len(h) /\ size >= 2
  BY ClosesAre
<1>2. PICK g : g = Mirrored(h)
  OBVIOUS
<1>3. Len(g) = size
  BY <1>1, <1>2, MirroredIs
<1>4. PICK middle : middle = size \div 2
  OBVIOUS
<1>5. middle \in Int /\ 1 <= middle /\ middle + 1 <= size
  BY <1>1, <1>4
<1>6. PICK first, second : first = 1 .. middle /\ second = middle + 1 .. size
  OBVIOUS
<1>7. /\ first \in SUBSET (1 .. Len(h)) /\ first # {}
      /\ second \in SUBSET (1 .. Len(h)) /\ second # {}
  <2>1. 1 \in first /\ size \in second
    BY <1>1, <1>5, <1>6
  <2>2. first \subseteq 1 .. size /\ second \subseteq 1 .. size
    BY <1>5, <1>6
  <2> QED
    BY <1>1, <2>1, <2>2
<1>8. PICK m \in Int : m = 2 * MirrorPrice
  BY ReadingConstants
<1>9. PICK a \in Int, b \in Int :
        /\ a = Highest(h, first) /\ b = Lowest(h, first)
        /\ Highest(g, first) = m - b /\ Lowest(g, first) = m - a
  BY <1>2, <1>7, <1>8, ExtremesMirrored
<1>10. PICK c \in Int, d \in Int :
        /\ c = Highest(h, second) /\ d = Lowest(h, second)
        /\ Highest(g, second) = m - d /\ Lowest(g, second) = m - c
  BY <1>2, <1>7, <1>8, ExtremesMirrored
<1>11. DetermineTrend(h) = CASE c > a /\ d > b -> "UPTREND"
                             [] c < a /\ d < b -> "DOWNTREND"
                             [] OTHER -> "SIDEWAYS"
  BY <1>1, <1>4, <1>6, <1>9, <1>10 DEF DetermineTrend, Highest, Lowest
<1>12. DetermineTrend(g) = CASE m - d > m - b /\ m - c > m - a -> "UPTREND"
                             [] m - d < m - b /\ m - c < m - a -> "DOWNTREND"
                             [] OTHER -> "SIDEWAYS"
  BY <1>3, <1>4, <1>6, <1>9, <1>10 DEF DetermineTrend, Highest, Lowest
<1>13. CASE c > a /\ d > b
  BY <1>2, <1>11, <1>12, <1>13 DEF Overturned
<1>14. CASE c < a /\ d < b
  BY <1>2, <1>11, <1>12, <1>14 DEF Overturned
<1>15. CASE ~(c > a /\ d > b) /\ ~(c < a /\ d < b)
  BY <1>2, <1>11, <1>12, <1>15 DEF Overturned
<1> QED
  BY <1>13, <1>14, <1>15


LEMMA PrefixMirrored ==
  ASSUME NEW h \in Seq(Bar), NEW i \in 1 .. Len(h)
  PROVE  /\ SubSeq(h, 1, i) \in Seq(Bar) /\ Len(SubSeq(h, 1, i)) = i
         /\ SubSeq(Mirrored(h), 1, i) = Mirrored(SubSeq(h, 1, i))
<1>1. PICK g, p, q : g = Mirrored(h) /\ p = SubSeq(h, 1, i) /\ q = SubSeq(g, 1, i)
  OBVIOUS
<1>2. g \in Seq(Bar) /\ Len(g) = Len(h)
  BY <1>1, MirroredIs
<1>3. /\ p \in Seq(Bar) /\ Len(p) = i /\ \A j \in 1 .. i : p[j] = h[j]
      /\ q \in Seq(Bar) /\ Len(q) = i /\ \A j \in 1 .. i : q[j] = g[j]
  BY <1>1, <1>2
<1>4. DOMAIN p = 1 .. i /\ DOMAIN h = 1 .. Len(h)
  BY <1>3
<1> DEFINE bar(x) == [low |-> 2 * MirrorPrice - x.high, high |-> 2 * MirrorPrice - x.low,
                      close |-> 2 * MirrorPrice - x.close, volume |-> x.volume]
<1>5. Mirrored(p) = [j \in 1 .. i |-> bar(p[j])] /\ g = [j \in 1 .. Len(h) |-> bar(h[j])]
  BY <1>1, <1>4 DEF Mirrored
<1>6. \A j \in 1 .. i : q[j] = bar(p[j])
  <2>1. \A j \in 1 .. i : j \in 1 .. Len(h)
    OBVIOUS
  <2>2. \A j \in 1 .. i : g[j] = bar(h[j])
    BY <1>5, <2>1
  <2> HIDE DEF bar
  <2> QED
    BY <1>3, <2>2
<1>7. q = [j \in 1 .. i |-> q[j]]
  BY <1>3
<1>8. q = Mirrored(p)
  <2> HIDE DEF bar
  <2> QED
    BY <1>5, <1>6, <1>7
<1> QED
  BY <1>1, <1>3, <1>8

\* A band of the mirrored market is the mirror image of the other band.
LEMMA BandMirrored ==
  ASSUME NEW h \in Seq(Bar), NEW i \in SupertrendPeriod .. Len(h), NEW side \in Int
  PROVE  /\ BasicBand(h, i, side) \in Fraction
         /\ BasicBand(Mirrored(h), i, side) = Flip(BasicBand(h, i, -side))
<1>1. i \in 1 .. Len(h) /\ SupertrendPeriod \in 1 .. i
  BY ReadingConstants, ClosesAre
<1>2. PICK p : p = SubSeq(h, 1, i)
  OBVIOUS
<1>3. p \in Seq(Bar) /\ Len(p) = i /\ SubSeq(Mirrored(h), 1, i) = Mirrored(p)
  BY <1>1, <1>2, PrefixMirrored
<1>4. Atr(p, SupertrendPeriod) \in Fraction /\ Atr(Mirrored(p), SupertrendPeriod) = Atr(p, SupertrendPeriod)
  BY <1>1, <1>3, AtrMirrored
<1>5. PICK a \in Int, d \in Int : Atr(p, SupertrendPeriod) = <<a, d>>
  BY <1>4 DEF Fraction
<1>6. PICK k \in Int, m \in Int : k = SupertrendMultiplier /\ m = 2 * MirrorPrice
  BY ReadingConstants
<1>7. PICK x \in Int, y \in Int : x = h[i].high /\ y = h[i].low
  BY <1>1, BarIs
<1>8. Mirrored(h)[i].high = m - y /\ Mirrored(h)[i].low = m - x
  BY <1>1, <1>6, <1>7, MirroredIs
<1>9. PICK e \in Int, f \in Int, b \in Int, t \in Int :
        /\ e = (x + y) * d + 2 * side * k * a /\ t = (x + y) * d + 2 * (-side) * k * a
        /\ f = ((m - y) + (m - x)) * d + 2 * side * k * a /\ b = 2 * d
  OBVIOUS
<1>10. f = m * b - t
  BY <1>9, SMTT(30)
<1>11. /\ BasicBand(h, i, side) = <<e, b>> /\ BasicBand(h, i, -side) = <<t, b>>
       /\ BasicBand(Mirrored(h), i, side) = <<f, b>>
  <2>1. PICK z : z = Atr(p, SupertrendPeriod) /\ z[1] = a /\ z[2] = d
    BY <1>5
  <2>2. z = Atr(SubSeq(h, 1, i), SupertrendPeriod) /\ z = Atr(SubSeq(Mirrored(h), 1, i), SupertrendPeriod)
    BY <1>2, <1>3, <1>4, <2>1
  <2>3. \A s \in Int : BasicBand(h, i, s) = <<(x + y) * d + 2 * s * k * a, 2 * d>>
    BY <1>6, <1>7, <2>1, <2>2, Zenon DEF BasicBand
  <2>4. BasicBand(Mirrored(h), i, side) = <<((m - y) + (m - x)) * d + 2 * side * k * a, 2 * d>>
    BY <1>6, <1>8, <2>1, <2>2, Zenon DEF BasicBand
  <2>5. -side \in Int
    OBVIOUS
  <2> QED
    BY <1>9, <2>3, <2>4, <2>5, Zenon
<1> QED
  BY <1>6, <1>10, <1>11 DEF Flip, Fraction

Trail == [upper : Fraction, lower : Fraction, bullish : BOOLEAN, left : BOOLEAN]

LEMMA TrailIs ==
  ASSUME NEW st \in Trail
  PROVE  st.upper \in Fraction /\ st.lower \in Fraction /\ st.bullish \in BOOLEAN /\ st.left \in BOOLEAN
BY DEF Trail

LEMMA FinalBands ==
  ASSUME NEW a \in Fraction, NEW b \in Fraction, NEW c \in Fraction
  PROVE  /\ FinalUpper(a, b, c) \in Fraction /\ FinalLower(a, b, c) \in Fraction
         /\ FinalUpper(Flip(a), Flip(b), Flip(c)) = Flip(FinalLower(a, b, c))
         /\ FinalLower(Flip(a), Flip(b), Flip(c)) = Flip(FinalUpper(a, b, c))
<1>1. /\ Less(Flip(a), Flip(b)) <=> Less(b, a)
      /\ Less(Flip(b), Flip(a)) <=> Less(a, b)
      /\ Less(Flip(b), Flip(c)) <=> Less(c, b)
      /\ Less(Flip(c), Flip(b)) <=> Less(b, c)
  BY FlipTurns
<1> QED
  BY <1>1 DEF FinalUpper, FinalLower

LEMMA SupertrendTyped ==
  ASSUME NEW h \in Seq(Bar), SupertrendPeriod + 1 <= Len(h)
  PROVE  /\ SupertrendStart(h) \in Trail
         /\ \A st \in Trail, i \in SupertrendPeriod + 2 .. Len(h) : SupertrendStep(h, st, i) \in Trail
<1>1. SupertrendStart(h) \in Trail
  <2>1. PICK i : i = SupertrendPeriod + 1 /\ i \in SupertrendPeriod .. Len(h)
    BY ReadingConstants, ClosesAre
  <2>2. PICK u \in Fraction, l \in Fraction : u = BasicBand(h, i, 1) /\ l = BasicBand(h, i, -1)
    BY <2>1, BandMirrored
  <2>3. PICK b \in BOOLEAN : b = ~Less(Whole(h[i].close), l)
    BY Zenon
  <2>4. SupertrendStart(h) = [upper |-> u, lower |-> l, bullish |-> b, left |-> FALSE]
    BY <2>1, <2>2, <2>3, Zenon DEF SupertrendStart
  <2> QED
    BY <2>4 DEF Trail
<1>2. ASSUME NEW st \in Trail, NEW i \in SupertrendPeriod + 2 .. Len(h)
      PROVE  SupertrendStep(h, st, i) \in Trail
  <2>1. i \in SupertrendPeriod .. Len(h) /\ i \in 1 .. Len(h) /\ i - 1 \in 1 .. Len(h)
    BY ReadingConstants, ClosesAre
  <2>2. PICK c \in Fraction, before \in Fraction : c = Whole(h[i].close) /\ before = Whole(h[i - 1].close)
    BY <2>1, BarIs, FlipOfWhole
  <2>3. BasicBand(h, i, 1) \in Fraction /\ BasicBand(h, i, -1) \in Fraction
    BY <2>1, BandMirrored
  <2>4. PICK u \in Fraction, l \in Fraction :
          /\ u = FinalUpper(BasicBand(h, i, 1), st.upper, before)
          /\ l = FinalLower(BasicBand(h, i, -1), st.lower, before)
    BY <2>3, TrailIs, FinalBands
  <2>5. PICK b \in BOOLEAN : b = (IF st.bullish THEN ~Less(c, l) ELSE Less(u, c))
    <3>1. CASE st.bullish
      <4>1. PICK b \in BOOLEAN : b = ~Less(c, l)
        BY Zenon
      <4> QED
        BY <3>1, <4>1, Zenon
    <3>2. CASE ~st.bullish
      <4>1. PICK b \in BOOLEAN : b = Less(u, c)
        <5>1. Less(u, c) \in BOOLEAN
          BY DEF Less
        <5> QED
          BY <5>1, Zenon
      <4> QED
        BY <3>2, <4>1, Zenon
    <3> QED
      BY <3>1, <3>2
  <2>6. PICK out \in BOOLEAN : out = (st.left \/ Less(c, l) # Less(u, c))
    BY Zenon
  <2>7. SupertrendStep(h, st, i) = [upper |-> u, lower |-> l, bullish |-> b, left |-> out]
    BY <2>2, <2>4, <2>5, <2>6, Zenon DEF SupertrendStep
  <2> QED
    BY <2>7 DEF Trail
<1> QED
  BY <1>1, <1>2


\* The directions follow their equation.
LEMMA SupertrendIs ==
  ASSUME NEW h \in Seq(Bar), SupertrendPeriod + 1 <= Len(h)
  PROVE  \A n \in SupertrendPeriod + 1 .. Len(h) :
           /\ SupertrendTo(h)[n] \in Trail
           /\ SupertrendTo(h)[n] = IF n = SupertrendPeriod + 1 THEN SupertrendStart(h)
                                   ELSE SupertrendStep(h, SupertrendTo(h)[n - 1], n)
<1> DEFINE step == [p \in Trail \X (SupertrendPeriod + 1 + 1 .. Len(h)) |-> SupertrendStep(h, p[1], p[2])]
           Solves(f) == f = [n \in SupertrendPeriod + 1 .. Len(h) |->
                               IF n = SupertrendPeriod + 1 THEN SupertrendStart(h)
                               ELSE SupertrendStep(h, f[n - 1], n)]
<1>1. PICK lo \in Int, hi \in Int : lo = SupertrendPeriod + 1 /\ hi = Len(h) /\ lo <= hi /\ hi \in Nat
  BY ReadingConstants, ClosesAre
<1>2. PICK base \in Trail : base = SupertrendStart(h)
  BY SupertrendTyped
<1>3. ASSUME NEW st \in Trail, NEW n \in lo + 1 .. hi
      PROVE  SupertrendStep(h, st, n) \in Trail
  <2>1. n \in SupertrendPeriod + 2 .. Len(h)
    BY <1>1, ReadingConstants
  <2> QED
    BY <2>1, SupertrendTyped
<1>4. step \in [Trail \X (lo + 1 .. hi) -> Trail]
  BY <1>1, <1>3
<1>5. \A st \in Trail, n \in lo + 1 .. hi : step[<<st, n>>] = SupertrendStep(h, st, n)
  BY <1>1
<1> HIDE DEF step
<1>6. PICK f \in [lo .. hi -> Trail] :
        \A n \in lo .. hi : f[n] = IF n = lo THEN base ELSE step[<<f[n - 1], n>>]
  <2> HIDE DEF Solves
  <2>1. PICK f : Recursion(f, Trail, base, lo, hi, step)
    BY <1>1, <1>4, TypedRecursion
  <2> QED
    BY <2>1 DEF Recursion
<1>7. ASSUME NEW n \in lo .. hi
      PROVE  f[n] = IF n = lo THEN base ELSE SupertrendStep(h, f[n - 1], n)
  <2>1. CASE n = lo
    BY <1>6, <2>1
  <2>2. CASE n # lo
    <3>1. n \in lo + 1 .. hi /\ n - 1 \in lo .. hi
      BY <2>2
    <3>2. f[n - 1] \in Trail
      BY <3>1
    <3>3. step[<<f[n - 1], n>>] = SupertrendStep(h, f[n - 1], n)
      BY <1>5, <3>1, <3>2
    <3> QED
      BY <1>6, <2>2, <3>3
  <2> QED
    BY <2>1, <2>2
<1>8. \E g : Solves(g)
  <2>1. f = [n \in lo .. hi |-> f[n]]
    OBVIOUS
  <2>2. Solves(f)
    BY <1>1, <1>2, <1>7, <2>1
  <2> QED
    BY <2>2
<1>9. SupertrendTo(h) = CHOOSE g : Solves(g)
  BY DEF SupertrendTo
<1>10. Solves(SupertrendTo(h))
  <2> HIDE DEF Solves
  <2> QED
    BY <1>8, <1>9
<1>11. PICK e : e = SupertrendTo(h)
  OBVIOUS
<1>12. \A n \in lo .. hi : e[n] = IF n = lo THEN base ELSE SupertrendStep(h, e[n - 1], n)
  BY <1>1, <1>2, <1>10, <1>11
<1> HIDE DEF Solves
<1> DEFINE P == {n \in lo .. hi : e[n] \in Trail}
<1>13. lo \in P
  BY <1>1, <1>12
<1>14. ASSUME NEW n \in lo + 1 .. hi, n - 1 \in P PROVE n \in P
  <2>1. n \in lo .. hi /\ n # lo
    OBVIOUS
  <2>2. e[n] = SupertrendStep(h, e[n - 1], n)
    BY <1>12, <2>1
  <2> QED
    BY <1>3, <1>14, <2>1, <2>2
<1>15. \A n \in lo .. hi : n \in P
  <2>1. \A n \in lo + 1 .. hi : n - 1 \in P => n \in P
    BY <1>14
  <2> HIDE DEF P
  <2> QED
    BY <1>1, <1>13, <2>1, IntervalInduction
<1> QED
  BY <1>1, <1>2, <1>11, <1>12, <1>15

\* What the bands and directions of a market and its mirror image have in common: the
\* directions are opposite once a close has been beyond one band.
Turned(own, mirror) ==
  /\ mirror.upper = Flip(own.lower) /\ mirror.lower = Flip(own.upper)
  /\ own.left <=> mirror.left
  /\ own.left => (mirror.bullish <=> ~own.bullish)

LEMMA StepTurned ==
  ASSUME NEW h \in Seq(Bar), NEW i \in SupertrendPeriod + 2 .. Len(h),
         NEW own \in Trail, NEW mirror \in Trail, Turned(own, mirror)
  PROVE  Turned(SupertrendStep(h, own, i), SupertrendStep(Mirrored(h), mirror, i))
<1>1. i \in SupertrendPeriod .. Len(h) /\ i \in 1 .. Len(h) /\ i - 1 \in 1 .. Len(h)
  BY ReadingConstants, ClosesAre
<1>2. PICK g : g = Mirrored(h)
  OBVIOUS
<1>3. PICK c \in Fraction, before \in Fraction : c = Whole(h[i].close) /\ before = Whole(h[i - 1].close)
  BY <1>1, BarIs, FlipOfWhole
<1>4. Whole(g[i].close) = Flip(c) /\ Whole(g[i - 1].close) = Flip(before)
  BY <1>1, <1>2, <1>3, BarIs, MirroredIs, FlipOfWhole
<1>5. PICK up \in Fraction, down \in Fraction :
        /\ up = BasicBand(h, i, 1) /\ down = BasicBand(h, i, -1)
        /\ BasicBand(g, i, 1) = Flip(down) /\ BasicBand(g, i, -1) = Flip(up)
  BY <1>1, <1>2, BandMirrored
<1>6. PICK u \in Fraction, l \in Fraction :
        /\ u = FinalUpper(up, own.upper, before) /\ l = FinalLower(down, own.lower, before)
        /\ FinalUpper(Flip(down), Flip(own.lower), Flip(before)) = Flip(l)
        /\ FinalLower(Flip(up), Flip(own.upper), Flip(before)) = Flip(u)
  BY TrailIs, FinalBands
<1>7. SupertrendStep(h, own, i) =
        [upper |-> u, lower |-> l,
         bullish |-> IF own.bullish THEN ~Less(c, l) ELSE Less(u, c),
         left |-> own.left \/ Less(c, l) # Less(u, c)]
  BY <1>3, <1>5, <1>6, Zenon DEF SupertrendStep
<1>8. SupertrendStep(g, mirror, i) =
        [upper |-> Flip(l), lower |-> Flip(u),
         bullish |-> IF mirror.bullish THEN ~Less(Flip(c), Flip(u)) ELSE Less(Flip(l), Flip(c)),
         left |-> mirror.left \/ Less(Flip(c), Flip(u)) # Less(Flip(l), Flip(c))]
  BY <1>4, <1>5, <1>6, Zenon DEF SupertrendStep, Turned
<1>9. /\ Less(Flip(c), Flip(u)) <=> Less(u, c)
      /\ Less(Flip(l), Flip(c)) <=> Less(c, l)
  BY FlipTurns
<1>10. /\ Less(c, l) \in BOOLEAN /\ Less(u, c) \in BOOLEAN
       /\ Less(Flip(c), Flip(u)) \in BOOLEAN /\ Less(Flip(l), Flip(c)) \in BOOLEAN
  BY DEF Less
<1>11. Less(Flip(c), Flip(u)) = Less(u, c) /\ Less(Flip(l), Flip(c)) = Less(c, l)
  BY <1>9, <1>10
<1>12. PICK below \in BOOLEAN, above \in BOOLEAN : below = Less(c, l) /\ above = Less(u, c)
  BY <1>10, Zenon
<1>13. /\ own.bullish \in BOOLEAN /\ own.left \in BOOLEAN
       /\ mirror.bullish \in BOOLEAN /\ mirror.left \in BOOLEAN
  BY TrailIs
<1>14. PICK x, y : x = SupertrendStep(h, own, i) /\ y = SupertrendStep(g, mirror, i)
  OBVIOUS
<1>15. /\ x.upper = u /\ x.lower = l
       /\ x.bullish = (IF own.bullish THEN ~below ELSE above)
       /\ x.left = (own.left \/ below # above)
  <2>1. PICK p, q : p = (IF own.bullish THEN ~Less(c, l) ELSE Less(u, c)) /\ q = (own.left \/ Less(c, l) # Less(u, c))
    BY Zenon
  <2>2. x = [upper |-> u, lower |-> l, bullish |-> p, left |-> q]
    BY <1>7, <1>14, <2>1, Zenon
  <2>3. x.upper = u /\ x.lower = l /\ x.bullish = p /\ x.left = q
    BY <2>2
  <2>4. p = (IF own.bullish THEN ~below ELSE above) /\ q = (own.left \/ below # above)
    BY <1>12, <2>1, Zenon
  <2> QED
    BY <2>3, <2>4, Zenon
<1>16. /\ y.upper = Flip(l) /\ y.lower = Flip(u)
       /\ y.bullish = (IF mirror.bullish THEN ~above ELSE below)
       /\ y.left = (mirror.left \/ above # below)
  <2>1. PICK p, q : /\ p = (IF mirror.bullish THEN ~Less(Flip(c), Flip(u)) ELSE Less(Flip(l), Flip(c)))
                    /\ q = (mirror.left \/ Less(Flip(c), Flip(u)) # Less(Flip(l), Flip(c)))
    BY Zenon
  <2>2. y = [upper |-> Flip(l), lower |-> Flip(u), bullish |-> p, left |-> q]
    BY <1>8, <1>14, <2>1, Zenon
  <2>3. y.upper = Flip(l) /\ y.lower = Flip(u) /\ y.bullish = p /\ y.left = q
    BY <2>2
  <2>4. p = (IF mirror.bullish THEN ~above ELSE below) /\ q = (mirror.left \/ above # below)
    BY <1>11, <1>12, <2>1, Zenon
  <2> QED
    BY <2>3, <2>4, Zenon
<1>17. x.left <=> y.left
  BY <1>13, <1>15, <1>16 DEF Turned
<1>18. x.left => (y.bullish <=> ~x.bullish)
  <2>1. CASE own.left
    BY <1>13, <1>15, <1>16, <2>1 DEF Turned
  <2>2. CASE ~own.left
    BY <1>13, <1>15, <1>16, <2>2 DEF Turned
  <2> QED
    BY <2>1, <2>2
<1> QED
  BY <1>2, <1>14, <1>15, <1>16, <1>17, <1>18 DEF Turned

LEMMA SupertrendMirrored ==
  ASSUME NEW h \in Seq(Bar), SupertrendPeriod + 1 <= Len(h)
  PROVE  /\ Supertrend(h) \in Trail /\ Supertrend(Mirrored(h)) \in Trail
         /\ Turned(Supertrend(h), Supertrend(Mirrored(h)))
<1>1. PICK lo \in Int, hi \in Int : lo = SupertrendPeriod + 1 /\ hi = Len(h) /\ lo <= hi
  BY ReadingConstants, ClosesAre
<1>2. PICK g : g = Mirrored(h) /\ g \in Seq(Bar) /\ Len(g) = hi
  BY <1>1, MirroredIs
<1>3. PICK e, f : e = SupertrendTo(h) /\ f = SupertrendTo(g)
  OBVIOUS
<1>4. \A n \in lo .. hi : /\ e[n] \in Trail
                          /\ e[n] = IF n = lo THEN SupertrendStart(h) ELSE SupertrendStep(h, e[n - 1], n)
  BY <1>1, <1>3, SupertrendIs
<1>5. \A n \in lo .. hi : /\ f[n] \in Trail
                          /\ f[n] = IF n = lo THEN SupertrendStart(g) ELSE SupertrendStep(g, f[n - 1], n)
  BY <1>1, <1>2, <1>3, SupertrendIs
<1> DEFINE P == {n \in lo .. hi : Turned(e[n], f[n])}
<1>6. lo \in P
  <2>1. lo \in lo .. hi /\ e[lo] = SupertrendStart(h) /\ f[lo] = SupertrendStart(g)
    BY <1>1, <1>4, <1>5
  <2>2. lo \in SupertrendPeriod .. Len(h)
    BY <1>1, ReadingConstants
  <2>3. BasicBand(g, lo, 1) = Flip(BasicBand(h, lo, -1)) /\ BasicBand(g, lo, -1) = Flip(BasicBand(h, lo, 1))
    BY <1>2, <2>2, BandMirrored
  <2>4. PICK x, y : x = SupertrendStart(h) /\ y = SupertrendStart(g)
    OBVIOUS
  <2>5. /\ x.upper = BasicBand(h, lo, 1) /\ x.lower = BasicBand(h, lo, -1) /\ x.left = FALSE
        /\ y.upper = BasicBand(g, lo, 1) /\ y.lower = BasicBand(g, lo, -1) /\ y.left = FALSE
    BY <1>1, <2>4, Zenon DEF SupertrendStart
  <2>6. Turned(x, y)
    BY <2>3, <2>5 DEF Turned
  <2> QED
    BY <2>1, <2>4, <2>6
<1>7. ASSUME NEW n \in lo + 1 .. hi, n - 1 \in P PROVE n \in P
  <2>1. n \in lo .. hi /\ n # lo /\ n - 1 \in lo .. hi /\ n \in SupertrendPeriod + 2 .. Len(h)
    BY <1>1, ReadingConstants
  <2>2. e[n] = SupertrendStep(h, e[n - 1], n) /\ f[n] = SupertrendStep(g, f[n - 1], n)
    BY <1>4, <1>5, <2>1
  <2>3. e[n - 1] \in Trail /\ f[n - 1] \in Trail /\ Turned(e[n - 1], f[n - 1])
    BY <1>4, <1>5, <1>7, <2>1
  <2>4. Turned(SupertrendStep(h, e[n - 1], n), SupertrendStep(g, f[n - 1], n))
    BY <1>2, <2>1, <2>3, StepTurned
  <2> QED
    BY <2>1, <2>2, <2>4
<1>8. \A n \in lo .. hi : n \in P
  <2>1. \A n \in lo + 1 .. hi : n - 1 \in P => n \in P
    BY <1>7
  <2> HIDE DEF P
  <2> QED
    BY <1>1, <1>6, <2>1, IntervalInduction
<1>9. hi \in lo .. hi
  BY <1>1
<1>10. e[hi] \in Trail /\ f[hi] \in Trail /\ Turned(e[hi], f[hi])
  BY <1>4, <1>5, <1>8, <1>9
<1> QED
  BY <1>1, <1>2, <1>3, <1>10 DEF Supertrend


\* What an indicator snapshot and the one of the mirrored market have in common.
Opposites(s, t) ==
  /\ s.close \in Fraction /\ s.ema \in Fraction /\ s.vwap \in Fraction /\ s.rsi \in Fraction
  /\ t.close = Flip(s.close) /\ t.ema = Flip(s.ema) /\ t.vwap = Flip(s.vwap)
  /\ \A b \in Int : /\ Less(Whole(b), t.rsi) <=> Less(s.rsi, Whole(100 - b))
                    /\ Less(t.rsi, Whole(b)) <=> Less(Whole(100 - b), s.rsi)
  /\ Distance(t.rsi[1], 50 * t.rsi[2]) >= 20 * t.rsi[2]
       <=> Distance(s.rsi[1], 50 * s.rsi[2]) >= 20 * s.rsi[2]
  /\ ~(Less(Whole(RsiBullish), s.rsi) /\ Less(s.rsi, Whole(RsiBearish)))
  /\ t.bullish <=> ~s.bullish
  /\ s.trend \in {"UPTREND", "DOWNTREND", "SIDEWAYS"} /\ t.trend = Overturned(s.trend)
  /\ t.volume = s.volume

LEMMA RsiOnOneSide ==
  ASSUME NEW h \in Seq(Bar), RsiPeriod + 1 <= Len(h), Moved(h), NEW a \in Int, NEW b \in Int, b <= a
  PROVE  ~(Less(Whole(a), Rsi(h)) /\ Less(Rsi(h), Whole(b)))
<1>1. PICK g \in Nat, s \in Nat : g = MeanGain(h) /\ s = MeanGain(h) + MeanLoss(h) /\ s > 0
  BY MeansMirrored DEF Moved
<1>2. /\ Less(Whole(a), Rsi(h)) <=> a * s < 100 * g
      /\ Less(Rsi(h), Whole(b)) <=> 100 * g < b * s
  <2>1. MeanGain(h) \in Nat /\ MeanLoss(h) \in Nat
    BY MeansMirrored
  <2> QED
    BY <1>1, <2>1, RsiIs
<1>3. b * s <= a * s /\ a * s \in Int /\ b * s \in Int
  BY SMTT(30)
<1> QED
  BY <1>2, <1>3

LEMMA SnapshotsOpposite ==
  ASSUME NEW h \in Seq(Bar), ~ReadingRaises(h), Supertrend(h).left, Moved(h)
  PROVE  Opposites(CalculateIndicatorSnapshot(h), CalculateIndicatorSnapshot(Mirrored(h)))
<1>1. PICK g : g = Mirrored(h) /\ g \in Seq(Bar) /\ Len(g) = Len(h)
  BY MirroredIs
<1>2. /\ EmaPeriod <= Len(h) /\ RsiPeriod + 1 <= Len(h) /\ SupertrendPeriod + 1 <= Len(h)
      /\ Len(h) >= 2 /\ Len(h) \in Nat /\ AtrPeriod \in 1 .. Len(h)
  BY ReadingConstants, ClosesAre DEF ReadingRaises
<1>3. PICK c \in Int : c = Latest(h).close
  BY <1>2, BarIs DEF Latest
<1>4. Latest(g).close = 2 * MirrorPrice - c
  BY <1>1, <1>2, <1>3, MirroredIs DEF Latest
<1>5. PICK s, t : s = CalculateIndicatorSnapshot(h) /\ t = CalculateIndicatorSnapshot(g)
  OBVIOUS
<1>6. /\ s.close = Whole(c) /\ s.ema = Ema(h) /\ s.rsi = Rsi(h) /\ s.vwap = Vwap(h)
      /\ s.bullish = Supertrend(h).bullish /\ s.trend = DetermineTrend(h) /\ s.volume = AnalyzeVolume(h)
      /\ t.close = Whole(2 * MirrorPrice - c) /\ t.ema = Ema(g) /\ t.rsi = Rsi(g) /\ t.vwap = Vwap(g)
      /\ t.bullish = Supertrend(g).bullish /\ t.trend = DetermineTrend(g) /\ t.volume = AnalyzeVolume(g)
  BY <1>3, <1>4, <1>5, Zenon DEF CalculateIndicatorSnapshot
<1>7. s.close \in Fraction /\ t.close = Flip(s.close)
  BY <1>6, FlipOfWhole
<1>8. s.ema \in Fraction /\ t.ema = Flip(s.ema)
  BY <1>1, <1>2, <1>6, EmaMirrored
<1>9. s.vwap \in Fraction /\ t.vwap = Flip(s.vwap)
  BY <1>1, <1>6, VwapMirrored
<1>10. /\ s.rsi \in Fraction
       /\ \A b \in Int : /\ Less(Whole(b), t.rsi) <=> Less(s.rsi, Whole(100 - b))
                         /\ Less(t.rsi, Whole(b)) <=> Less(Whole(100 - b), s.rsi)
       /\ Distance(t.rsi[1], 50 * t.rsi[2]) >= 20 * t.rsi[2]
            <=> Distance(s.rsi[1], 50 * s.rsi[2]) >= 20 * s.rsi[2]
  BY <1>1, <1>2, <1>6, RsiMirrored
<1>11. ~(Less(Whole(RsiBullish), s.rsi) /\ Less(s.rsi, Whole(RsiBearish)))
  BY <1>2, <1>6, ReadingConstants, RsiOnOneSide
<1>12. t.bullish <=> ~s.bullish
  <2>1. Turned(Supertrend(h), Supertrend(g))
    BY <1>1, <1>2, SupertrendMirrored
  <2> QED
    BY <1>6, <2>1, Zenon DEF Turned
<1>13. t.trend = Overturned(s.trend)
  BY <1>1, <1>2, <1>6, TrendMirrored
<1>14. s.trend \in {"UPTREND", "DOWNTREND", "SIDEWAYS"}
  BY <1>6 DEF DetermineTrend
<1>15. t.volume = s.volume
  BY <1>1, <1>2, <1>6, VolumeMirrored
<1> QED
  BY <1>1, <1>5, <1>7, <1>8, <1>9, <1>10, <1>11, <1>12, <1>13, <1>14, <1>15, Zenon DEF Opposites

LEMMA ContextsOpposite ==
  ASSUME NEW s, NEW t, Opposites(s, t)
  PROVE  /\ BuildMarketContext(t).trend = Opposite(BuildMarketContext(s).trend)
         /\ BuildMarketContext(t).bias = Opposite(BuildMarketContext(s).bias)
         /\ BuildMarketContext(t).momentum = BuildMarketContext(s).momentum
         /\ BuildMarketContext(t).volume = BuildMarketContext(s).volume
         /\ BuildMarketContext(s).trend = ClassifyTrend(s)
         /\ BuildMarketContext(t).trend = ClassifyTrend(t)
<1>1. PICK a, b : a = BuildMarketContext(s) /\ b = BuildMarketContext(t)
  OBVIOUS
<1>2. /\ a.trend = ClassifyTrend(s) /\ a.bias = ClassifyMarketBias(s)
      /\ a.momentum = ClassifyMomentum(s) /\ a.volume = ClassifyVolumeStrength(s)
      /\ b.trend = ClassifyTrend(t) /\ b.bias = ClassifyMarketBias(t)
      /\ b.momentum = ClassifyMomentum(t) /\ b.volume = ClassifyVolumeStrength(t)
  BY <1>1, Zenon DEF BuildMarketContext
<1>3. /\ s.trend \in {"UPTREND", "DOWNTREND", "SIDEWAYS"} /\ t.trend = Overturned(s.trend)
      /\ t.bullish <=> ~s.bullish
      /\ t.volume = s.volume
      /\ Distance(t.rsi[1], 50 * t.rsi[2]) >= 20 * t.rsi[2]
           <=> Distance(s.rsi[1], 50 * s.rsi[2]) >= 20 * s.rsi[2]
  BY Zenon DEF Opposites
<1>4. ClassifyTrend(t) = Opposite(ClassifyTrend(s))
  BY <1>3 DEF ClassifyTrend, Opposite, Overturned
<1>5. ClassifyMarketBias(t) = Opposite(ClassifyMarketBias(s))
  <2>1. 50 \in Int /\ 100 - 50 = 50
    OBVIOUS
  <2>2. /\ Less(Whole(50), t.rsi) <=> Less(s.rsi, Whole(50))
        /\ Less(t.rsi, Whole(50)) <=> Less(Whole(50), s.rsi)
    BY <2>1 DEF Opposites
  <2>3. PICK up, down : up = Less(Whole(50), s.rsi) /\ down = Less(s.rsi, Whole(50))
    OBVIOUS
  <2>4. /\ Less(Whole(50), t.rsi) <=> down
        /\ Less(t.rsi, Whole(50)) <=> up
    BY <2>2, <2>3
  <2> QED
    BY <1>3, <2>3, <2>4 DEF ClassifyMarketBias, Opposite, Overturned
<1>6. ClassifyMomentum(t) = ClassifyMomentum(s)
  BY <1>3 DEF ClassifyMomentum
<1>7. ClassifyVolumeStrength(t) = ClassifyVolumeStrength(s)
  BY <1>3 DEF ClassifyVolumeStrength
<1> QED
  BY <1>1, <1>2, <1>4, <1>5, <1>6, <1>7

Directions == {"Long", "Short", "None"}

LEMMA VotesTyped ==
  ASSUME NEW s, NEW c
  PROVE  /\ EmaAlignment(s) \in Directions /\ RsiConfirmation(s) \in Directions
         /\ VwapConfirmation(s) \in Directions /\ SupertrendConfirmation(s) \in Directions
         /\ TrendAgreement(c) \in Directions
<1>1. ASSUME NEW x, NEW a, NEW b PROVE Side(x, a, b) \in Directions
  BY DEF Side, Directions
<1>2. SupertrendConfirmation(s) \in Directions
  BY DEF SupertrendConfirmation, Directions
<1>3. TrendAgreement(c) \in Directions
  BY DEF TrendAgreement, Directions
<1> QED
  BY <1>1, <1>2, <1>3 DEF EmaAlignment, RsiConfirmation, VwapConfirmation

\* A vote that is taken or not, at the end of a list of votes.
LEMMA OneMoreVote ==
  ASSUME NEW votes \in Seq(Directions), NEW b \in BOOLEAN, NEW e \in Directions, NEW all,
         all = votes \o (IF b THEN <<e>> ELSE <<>>)
  PROVE  /\ all \in Seq(Directions)
         /\ Len(all) = Len(votes) + (IF b THEN 1 ELSE 0)
         /\ \A i \in 1 .. Len(votes) : all[i] = votes[i]
         /\ b => all[Len(all)] = e
<1>1. CASE b
  <2>1. <<e>> \in Seq(Directions) /\ Len(<<e>>) = 1 /\ <<e>>[1] = e
    OBVIOUS
  <2>2. all = votes \o <<e>>
    BY <1>1, Zenon
  <2> QED
    BY <1>1, <2>1, <2>2, ConcatProperties
<1>2. CASE ~b
  <2>1. all = votes
    BY <1>2
  <2> QED
    BY <1>2, <2>1
<1> QED
  BY <1>1, <1>2

\* How many checks vote.
Voters == (IF VwapEnabled THEN 1 ELSE 0) + (IF SupertrendEnabled THEN 1 ELSE 0) + 3

\* The checks that vote, in their places.
LEMMA ChecksAre ==
  ASSUME NEW s, NEW c, NEW votes, votes = Checks(s, c)
  PROVE  /\ votes \in Seq(Directions) /\ Len(votes) = Voters
         /\ votes[1] = EmaAlignment(s) /\ votes[2] = RsiConfirmation(s)
         /\ VwapEnabled => votes[3] = VwapConfirmation(s)
         /\ SupertrendEnabled => votes[Voters - 1] = SupertrendConfirmation(s)
         /\ votes[Voters] = TrendAgreement(c)
<1>1. PICK a \in Directions, b \in Directions, v \in Directions, u \in Directions, t \in Directions :
        /\ a = EmaAlignment(s) /\ b = RsiConfirmation(s) /\ v = VwapConfirmation(s)
        /\ u = SupertrendConfirmation(s) /\ t = TrendAgreement(c)
  BY VotesTyped
<1>2. PICK first : first = <<a, b>>
  OBVIOUS
<1>3. PICK second : second = first \o (IF VwapEnabled THEN <<v>> ELSE <<>>)
  OBVIOUS
<1>4. PICK third : third = second \o (IF SupertrendEnabled THEN <<u>> ELSE <<>>)
  OBVIOUS
<1>5. votes = third \o <<t>>
  BY <1>1, <1>2, <1>3, <1>4, Zenon DEF Checks
<1>6. first \in Seq(Directions) /\ Len(first) = 2 /\ first[1] = a /\ first[2] = b
  BY <1>2
<1>7. /\ second \in Seq(Directions) /\ Len(second) = 2 + (IF VwapEnabled THEN 1 ELSE 0)
      /\ second[1] = a /\ second[2] = b /\ (VwapEnabled => second[3] = v)
  <2>1. /\ second \in Seq(Directions) /\ Len(second) = Len(first) + (IF VwapEnabled THEN 1 ELSE 0)
        /\ \A i \in 1 .. Len(first) : second[i] = first[i]
        /\ VwapEnabled => second[Len(second)] = v
    <3>1. first \in Seq(Directions) /\ VwapEnabled \in BOOLEAN
      BY <1>6, ReadingConstants
    <3> QED
      BY <1>3, <3>1, OneMoreVote
  <2> QED
    BY <1>6, <2>1
<1>8. /\ third \in Seq(Directions)
      /\ Len(third) = Len(second) + (IF SupertrendEnabled THEN 1 ELSE 0)
      /\ \A i \in 1 .. Len(second) : third[i] = second[i]
      /\ SupertrendEnabled => third[Len(third)] = u
  BY <1>4, <1>7, ReadingConstants, OneMoreVote
<1>9. Len(third) = Voters - 1 /\ Len(third) \in Nat /\ Len(third) >= 2 /\ (VwapEnabled => Len(second) = 3)
  BY <1>7, <1>8 DEF Voters
<1>10. /\ votes \in Seq(Directions) /\ Len(votes) = Len(third) + 1
       /\ \A i \in 1 .. Len(third) : votes[i] = third[i]
       /\ votes[Len(votes)] = t
  <2>1. votes = third \o (IF TRUE THEN <<t>> ELSE <<>>)
    BY <1>5
  <2> QED
    BY <1>8, <2>1, OneMoreVote
<1>11. Len(votes) = Voters /\ votes[Voters] = t
  BY <1>9, <1>10 DEF Voters
<1>12. votes[1] = a /\ votes[2] = b
  BY <1>7, <1>8, <1>9, <1>10
<1>13. VwapEnabled => votes[3] = v
  BY <1>7, <1>8, <1>9, <1>10
<1>14. SupertrendEnabled => votes[Voters - 1] = u
  BY <1>8, <1>9, <1>10
<1> QED
  BY <1>1, <1>10, <1>11, <1>12, <1>13, <1>14


LEMMA Antisymmetric ==
  ASSUME NEW a \in Fraction, NEW b \in Fraction
  PROVE  ~(Less(a, b) /\ Less(b, a))
<1>1. PICK a1 \in Int, a2 \in Int, b1 \in Int, b2 \in Int : a = <<a1, a2>> /\ b = <<b1, b2>>
  BY DEF Fraction
<1>2. a1 * b2 \in Int /\ b1 * a2 \in Int
  OBVIOUS
<1> QED
  BY <1>1, <1>2 DEF Less

\* Every check votes in the mirrored market for the other side.
LEMMA VotesOpposite ==
  ASSUME NEW s, NEW t, Opposites(s, t), RsiBullish + RsiBearish = 100
  PROVE  /\ EmaAlignment(t) = Opposite(EmaAlignment(s))
         /\ RsiConfirmation(t) = Opposite(RsiConfirmation(s))
         /\ VwapConfirmation(t) = Opposite(VwapConfirmation(s))
         /\ SupertrendConfirmation(t) = Opposite(SupertrendConfirmation(s))
<1>1. ASSUME NEW x \in Fraction, NEW y \in Fraction
      PROVE  Side(Flip(x), Flip(y), Flip(y)) = Opposite(Side(x, y, y))
  <2>1. /\ Less(Flip(x), Flip(y)) <=> Less(y, x)
        /\ Less(Flip(y), Flip(x)) <=> Less(x, y)
    BY FlipTurns
  <2>2. ~(Less(x, y) /\ Less(y, x))
    BY Antisymmetric
  <2> QED
    BY <2>1, <2>2 DEF Side, Opposite
<1>2. /\ s.close \in Fraction /\ s.ema \in Fraction /\ s.vwap \in Fraction
      /\ t.close = Flip(s.close) /\ t.ema = Flip(s.ema) /\ t.vwap = Flip(s.vwap)
  BY Zenon DEF Opposites
<1>3. EmaAlignment(t) = Opposite(EmaAlignment(s)) /\ VwapConfirmation(t) = Opposite(VwapConfirmation(s))
  BY <1>1, <1>2 DEF EmaAlignment, VwapConfirmation
<1>4. RsiConfirmation(t) = Opposite(RsiConfirmation(s))
  <2>1. RsiBullish \in Int /\ RsiBearish \in Int /\ 100 - RsiBullish = RsiBearish /\ 100 - RsiBearish = RsiBullish
    BY ReadingConstants
  <2>2. /\ Less(Whole(RsiBullish), t.rsi) <=> Less(s.rsi, Whole(RsiBearish))
        /\ Less(t.rsi, Whole(RsiBearish)) <=> Less(Whole(RsiBullish), s.rsi)
        /\ ~(Less(Whole(RsiBullish), s.rsi) /\ Less(s.rsi, Whole(RsiBearish)))
    <3>1. \A b \in Int : /\ Less(Whole(b), t.rsi) <=> Less(s.rsi, Whole(100 - b))
                         /\ Less(t.rsi, Whole(b)) <=> Less(Whole(100 - b), s.rsi)
      BY Zenon DEF Opposites
    <3>2. ~(Less(Whole(RsiBullish), s.rsi) /\ Less(s.rsi, Whole(RsiBearish)))
      BY Zenon DEF Opposites
    <3> QED
      BY <2>1, <3>1, <3>2
  <2> QED
    BY <2>2 DEF RsiConfirmation, Side, Opposite
<1>5. SupertrendConfirmation(t) = Opposite(SupertrendConfirmation(s))
  <2>1. t.bullish <=> ~s.bullish
    BY Zenon DEF Opposites
  <2> QED
    BY <2>1 DEF SupertrendConfirmation, Opposite
<1> QED
  BY <1>3, <1>4, <1>5

\* As many vote for a side as for the other in the mirrored market.
LEMMA CountsSwapped ==
  ASSUME NEW a \in Seq(Directions), NEW b, DOMAIN b = DOMAIN a,
         \A i \in DOMAIN a : b[i] = Opposite(a[i])
  PROVE  Count(b, "Long") = Count(a, "Short") /\ Count(b, "Short") = Count(a, "Long")
<1>1. \A i \in DOMAIN a : a[i] \in Directions
  OBVIOUS
<1>2. \A i \in DOMAIN a : (b[i] = "Long" <=> a[i] = "Short") /\ (b[i] = "Short" <=> a[i] = "Long")
  BY <1>1 DEF Opposite, Directions
<1>3. /\ {i \in DOMAIN b : b[i] = "Long"} = {i \in DOMAIN a : a[i] = "Short"}
      /\ {i \in DOMAIN b : b[i] = "Short"} = {i \in DOMAIN a : a[i] = "Long"}
  BY <1>2
<1> QED
  BY <1>3 DEF Count

\* The checks of the mirrored market are the opposites, each in its place.
LEMMA ChecksOpposite ==
  ASSUME NEW s, NEW t, Opposites(s, t), RsiBullish + RsiBearish = 100,
         NEW c, NEW d, ClassifyTrend(s) = c.trend, d.trend = Opposite(c.trend),
         NEW a, NEW b, a = Checks(s, c), b = Checks(t, d)
  PROVE  /\ Len(a) = Len(b)
         /\ Count(b, "Long") = Count(a, "Short") /\ Count(b, "Short") = Count(a, "Long")
<1>1. /\ a \in Seq(Directions) /\ Len(a) = Voters
      /\ a[1] = EmaAlignment(s) /\ a[2] = RsiConfirmation(s)
      /\ VwapEnabled => a[3] = VwapConfirmation(s)
      /\ SupertrendEnabled => a[Voters - 1] = SupertrendConfirmation(s)
      /\ a[Voters] = TrendAgreement(c)
  BY ChecksAre
<1>2. /\ b \in Seq(Directions) /\ Len(b) = Voters
      /\ b[1] = EmaAlignment(t) /\ b[2] = RsiConfirmation(t)
      /\ VwapEnabled => b[3] = VwapConfirmation(t)
      /\ SupertrendEnabled => b[Voters - 1] = SupertrendConfirmation(t)
      /\ b[Voters] = TrendAgreement(d)
  BY ChecksAre
<1>3. TrendAgreement(d) = Opposite(TrendAgreement(c))
  <2>1. c.trend \in {"BullishTrend", "BearishTrend", "SidewaysTrend"}
    BY DEF ClassifyTrend
  <2> QED
    BY <2>1 DEF TrendAgreement, Opposite
<1>4. ASSUME NEW i \in 1 .. Voters PROVE b[i] = Opposite(a[i])
  <2>1. \/ i = 1 \/ i = 2 \/ i = Voters
        \/ VwapEnabled /\ i = 3
        \/ SupertrendEnabled /\ i = Voters - 1
    BY DEF Voters
  <2> QED
    BY <1>1, <1>2, <1>3, <2>1, VotesOpposite
<1>5. DOMAIN a = 1 .. Voters /\ DOMAIN b = 1 .. Voters
  BY <1>1, <1>2
<1>6. Count(b, "Long") = Count(a, "Short") /\ Count(b, "Short") = Count(a, "Long")
  BY <1>1, <1>4, <1>5, CountsSwapped
<1> QED
  BY <1>1, <1>2, <1>6


LEMMA CountBounds ==
  ASSUME NEW a, NEW n \in Nat, DOMAIN a = 1 .. n, NEW word
  PROVE  /\ Count(a, word) \in Nat /\ Count(a, word) <= n
         /\ \A i, j \in 1 .. n : i # j /\ a[i] # word /\ a[j] # word => Count(a, word) <= n - 2
<1>1. PICK N : N = 1 .. n /\ IsFiniteSet(N) /\ Cardinality(N) = n
  BY FS_Interval
<1>2. PICK S : S = {i \in DOMAIN a : a[i] = word} /\ S \in SUBSET N
  BY <1>1
<1>3. Count(a, word) = Cardinality(S)
  BY <1>2 DEF Count
<1>4. Cardinality(S) \in Nat /\ Cardinality(S) <= n
  BY <1>1, <1>2, FS_Subset, FS_CardinalityType
<1>5. ASSUME NEW i \in N, NEW j \in N, i # j, a[i] # word, a[j] # word
      PROVE  Cardinality(S) <= n - 2
  <2>1. PICK M, L : M = N \ {i} /\ L = M \ {j}
    OBVIOUS
  <2>2. IsFiniteSet(M) /\ Cardinality(M) = n - 1
    BY <1>1, <2>1, FS_RemoveElement
  <2>3. IsFiniteSet(L) /\ Cardinality(L) = n - 1 - 1
    <3>1. j \in M
      BY <1>5, <2>1
    <3> QED
      BY <2>1, <2>2, <3>1, FS_RemoveElement
  <2>4. S \in SUBSET L
    BY <1>2, <1>5, <2>1
  <2>5. Cardinality(S) <= Cardinality(L)
    BY <2>3, <2>4, FS_Subset
  <2> QED
    BY <1>4, <2>3, <2>5
<1> QED
  BY <1>1, <1>3, <1>4, <1>5

\* The side of the larger count.
SideOf(long, short) ==
  IF long > short THEN "Long" ELSE IF short > long THEN "Short" ELSE "None"

\* The same strength and validity, for the other side.
ForTheOther(e, f) == f = [e EXCEPT !.direction = Opposite(e.direction)]

LEMMA EvaluationsOpposite ==
  ASSUME NEW s, NEW t, Opposites(s, t), RsiBullish + RsiBearish = 100,
         NEW c, NEW d, ClassifyTrend(s) = c.trend, d.trend = Opposite(c.trend)
  PROVE  ForTheOther(Evaluate(s, c, TRUE), Evaluate(t, d, TRUE))
<1>1. PICK a, b : a = Checks(s, c) /\ b = Checks(t, d)
  OBVIOUS
<1>2. Len(a) = Len(b) /\ Count(b, "Long") = Count(a, "Short") /\ Count(b, "Short") = Count(a, "Long")
  BY <1>1, ChecksOpposite
<1>3. PICK n \in Nat : DOMAIN a = 1 .. n
  <2>1. a \in Seq(Directions)
    BY <1>1, ChecksAre
  <2> QED
    BY <2>1
<1>4. PICK long \in Nat, short \in Nat : long = Count(a, "Long") /\ short = Count(a, "Short")
  BY <1>3, CountBounds
<1>5. PICK most : most = Max({long, short}) /\ most = Max({short, long})
  <2>1. {long, short} = {short, long}
    OBVIOUS
  <2>2. PICK S, T : S = {long, short} /\ T = {short, long}
    OBVIOUS
  <2>3. S = T
    BY <2>2
  <2> QED
    BY <2>2, <2>3
<1>6. PICK strength : strength = StrengthFor(most, Len(a)) /\ strength = StrengthFor(most, Len(b))
  BY <1>2
<1>7. PICK own, mirror : own = SideOf(long, short) /\ mirror = SideOf(short, long)
  OBVIOUS
<1>8. mirror = Opposite(own) /\ (mirror # "None" <=> own # "None")
  BY <1>7 DEF SideOf, Opposite
<1>9. PICK valid : /\ valid = (TRUE /\ own # "None" /\ Enough(most))
                   /\ valid = (TRUE /\ mirror # "None" /\ Enough(most))
  BY <1>8, Zenon
<1>10. PICK e : e = Evaluate(s, c, TRUE) /\ e = [direction |-> own, strength |-> strength, valid |-> valid]
  <2>1. Evaluate(s, c, TRUE) = [direction |-> own, strength |-> strength, valid |-> valid]
    BY <1>1, <1>4, <1>5, <1>6, <1>7, <1>9, Zenon DEF Evaluate, SideOf
  <2> QED
    BY <2>1
<1>11. PICK f : f = Evaluate(t, d, TRUE) /\ f = [direction |-> mirror, strength |-> strength, valid |-> valid]
  <2>1. Count(b, "Long") = short /\ Count(b, "Short") = long
    BY <1>2, <1>4
  <2>2. Evaluate(t, d, TRUE) = [direction |-> mirror, strength |-> strength, valid |-> valid]
    BY <1>1, <1>5, <1>6, <1>7, <1>9, <2>1, Zenon DEF Evaluate, SideOf
  <2> QED
    BY <2>2
<1>12. e.direction = own /\ [e EXCEPT !.direction = mirror] = f
  <2>1. \A x, y, z : [direction |-> x, strength |-> y, valid |-> z].direction = x
    OBVIOUS
  <2>2. \A x, y, z, w : [[direction |-> x, strength |-> y, valid |-> z] EXCEPT !.direction = w]
                        = [direction |-> w, strength |-> y, valid |-> z]
    OBVIOUS
  <2>3. [direction |-> own, strength |-> strength, valid |-> valid].direction = own
    BY <2>1, Zenon
  <2>4. [[direction |-> own, strength |-> strength, valid |-> valid] EXCEPT !.direction = mirror]
        = [direction |-> mirror, strength |-> strength, valid |-> valid]
    BY <2>2
  <2> QED
    BY <1>10, <1>11, <2>3, <2>4, Zenon
<1> QED
  BY <1>8, <1>10, <1>11, <1>12, Zenon DEF ForTheOther

\* A market and its mirror image are read as opposites.
LEMMA ReadingsOpposed ==
  ASSUME NEW h \in Seq(Bar), ~ReadingRaises(h), Supertrend(h).left, Moved(h),
         RsiBullish + RsiBearish = 100
  PROVE  Opposed(Reading(h, TRUE, TRUE), Reading(Mirrored(h), TRUE, TRUE))
<1>1. PICK s, t : s = CalculateIndicatorSnapshot(h) /\ t = CalculateIndicatorSnapshot(Mirrored(h))
  OBVIOUS
<1>2. Opposites(s, t)
  BY <1>1, SnapshotsOpposite
<1>3. PICK c, d : c = BuildMarketContext(s) /\ d = BuildMarketContext(t)
  OBVIOUS
<1>4. /\ d.trend = Opposite(c.trend) /\ d.bias = Opposite(c.bias)
      /\ d.momentum = c.momentum /\ d.volume = c.volume /\ c.trend = ClassifyTrend(s)
  BY <1>2, <1>3, ContextsOpposite
<1>5. PICK e, f : e = Evaluate(s, c, TRUE) /\ f = Evaluate(t, d, TRUE)
  OBVIOUS
<1>6. f = [e EXCEPT !.direction = Opposite(e.direction)]
  <2>1. ForTheOther(Evaluate(s, c, TRUE), Evaluate(t, d, TRUE))
    BY <1>2, <1>4, EvaluationsOpposite
  <2> QED
    BY <1>5, <2>1 DEF ForTheOther
<1>7. PICK own, mirror : own = Reading(h, TRUE, TRUE) /\ mirror = Reading(Mirrored(h), TRUE, TRUE)
  OBVIOUS
<1>8. own.context = c /\ own.evaluation = e
  BY <1>1, <1>3, <1>5, <1>7, Zenon DEF Reading
<1>9. mirror.context = d /\ mirror.evaluation = f
  BY <1>1, <1>3, <1>5, <1>7, Zenon DEF Reading
<1> QED
  BY <1>4, <1>6, <1>7, <1>8, <1>9 DEF Opposed


\* What was read was read in the whole history, which did not raise; nothing is read
\* before the warm-up is over.
ReadingInv ==
  /\ seen \in Seq(ReadBars)
  /\ Len(seen) <= ReadWarmup => reading = Unread
  /\ reading.outcome = "read" =>
       ~ReadingRaises(seen) /\ \E canTrade, riskOk \in BOOLEAN : reading = Reading(seen, canTrade, riskOk)

LEMMA BarsAreBars ==
  ASSUME NEW h \in Seq(ReadBars)
  PROVE  h \in Seq(Bar)
<1>1. \A x \in ReadBars : x \in Bar
  BY ReadingConstants
<1>2. h \in [1 .. Len(h) -> Bar] /\ Len(h) \in Nat
  BY <1>1
<1> QED
  BY <1>2

\* A strict vote for a side leaves no room for two checks against it.
LEMMA StrictVotesFit ==
  ASSUME StrictVote, NEW h \in Seq(Bar), NEW canTrade \in BOOLEAN, NEW riskOk \in BOOLEAN,
         NEW r, r = Reading(h, canTrade, riskOk), ~ReadingRaises(h), r.recommendation.recommended
  PROVE  /\ r.recommendation.direction = "Long" =>
              r.context.trend # "BearishTrend" /\ r.context.bias # "BearishBias"
         /\ r.recommendation.direction = "Short" =>
              r.context.trend # "BullishTrend" /\ r.context.bias # "BullishBias"
<1>1. PICK s : s = CalculateIndicatorSnapshot(h)
  OBVIOUS
<1>2. PICK c : c = BuildMarketContext(s)
  OBVIOUS
<1>3. PICK e : e = Evaluate(s, c, canTrade)
  OBVIOUS
<1>4. r.context = c /\ r.recommendation = BuildTradeRecommendation(e, canTrade, riskOk)
  BY <1>1, <1>2, <1>3, Zenon DEF Reading
<1>5. c.trend = ClassifyTrend(s) /\ c.bias = ClassifyMarketBias(s)
  BY <1>2, Zenon DEF BuildMarketContext
<1>6. r.recommendation.direction = e.direction /\ e.valid
  <2>1. CASE e.valid /\ riskOk
    <3>1. r.recommendation = [recommended |-> canTrade, direction |-> e.direction]
      BY <1>4, <2>1, Zenon DEF BuildTradeRecommendation
    <3>2. PICK dir : dir = e.direction
      OBVIOUS
    <3>3. r.recommendation = [recommended |-> canTrade, direction |-> dir]
      BY <3>1, <3>2, Zenon
    <3>4. PICK trade : r.recommendation = [recommended |-> trade, direction |-> dir]
      BY <3>3, Zenon
    <3>5. r.recommendation.direction = dir
      BY <3>4
    <3> QED
      BY <2>1, <3>2, <3>5, Zenon
  <2>2. CASE ~(e.valid /\ riskOk)
    <3>1. r.recommendation = [recommended |-> FALSE, direction |-> "None"]
      BY <1>4, <2>2, Zenon DEF BuildTradeRecommendation
    <3> QED
      BY <3>1
  <2> QED
    BY <2>1, <2>2
<1>7. PICK a : a = Checks(s, c)
  OBVIOUS
<1>8. /\ a \in Seq(Directions) /\ Len(a) = Voters
      /\ a[2] = RsiConfirmation(s) /\ a[Voters - 1] = SupertrendConfirmation(s) /\ a[Voters] = TrendAgreement(c)
  BY <1>7, ChecksAre DEF StrictVote
<1>9. PICK n \in Nat : n = Voters /\ DOMAIN a = 1 .. n /\ n >= 4 /\ n - 1 <= MinAgreeingChecks
  <2>1. Voters \in Nat /\ Voters >= 4 /\ Voters - 1 <= MinAgreeingChecks
    BY ReadingConstants DEF Voters, StrictVote
  <2>2. DOMAIN a = 1 .. Voters
    <3>1. DOMAIN a = 1 .. Len(a)
      BY <1>8
    <3> QED
      BY <1>8, <3>1
  <2> QED
    BY <2>1, <2>2
<1>10. PICK long \in Nat, short \in Nat : long = Count(a, "Long") /\ short = Count(a, "Short")
  BY <1>9, CountBounds
<1>11. PICK most : most = Max({long, short})
  OBVIOUS
<1>12. most \in {long, short} /\ most >= long /\ most >= short
  <2>1. \E x \in {long, short} : \A y \in {long, short} : x >= y
    OBVIOUS
  <2> QED
    BY <1>11, <2>1 DEF Max
<1>13. e.direction = SideOf(long, short) /\ Enough(most)
  <2>1. PICK strength, valid : /\ strength = StrengthFor(most, Len(a))
                               /\ valid = (canTrade /\ SideOf(long, short) # "None" /\ Enough(most))
    BY Zenon
  <2>2. e = [direction |-> SideOf(long, short), strength |-> strength, valid |-> valid]
    BY <1>3, <1>7, <1>10, <1>11, <2>1, Zenon DEF Evaluate, SideOf
  <2>3. e.direction = SideOf(long, short) /\ e.valid = valid
    BY <2>2
  <2> QED
    BY <1>6, <2>1, <2>3, Zenon
<1>14. /\ e.direction = "Long" => long >= n - 1
       /\ e.direction = "Short" => short >= n - 1
  BY <1>9, <1>12, <1>13, ReadingConstants DEF SideOf, Enough
<1>15. ASSUME NEW word, NEW i \in 1 .. n, NEW j \in 1 .. n, i # j, a[i] # word, a[j] # word
       PROVE  Count(a, word) <= n - 2
  BY <1>9, <1>15, CountBounds
<1>16. n - 1 \in 1 .. n /\ n \in 1 .. n /\ n - 1 # n /\ 2 \in 1 .. n /\ 2 # n
  BY <1>9
<1>17. /\ c.trend = "BearishTrend" => a[n] # "Long" /\ a[n - 1] # "Long"
       /\ c.trend = "BullishTrend" => a[n] # "Short" /\ a[n - 1] # "Short"
  BY <1>5, <1>8, <1>9 DEF TrendAgreement, SupertrendConfirmation, ClassifyTrend
<1>18. /\ c.bias = "BearishBias" => a[n] # "Long" /\ a[2] # "Long"
       /\ c.bias = "BullishBias" => a[n] # "Short" /\ a[2] # "Short"
  <2>1. RsiBearish <= 50 /\ 50 <= RsiBullish /\ RsiBearish \in Int /\ RsiBullish \in Int
    BY ReadingConstants DEF StrictVote
  <2>2. /\ Less(s.rsi, Whole(50)) => ~Less(Whole(RsiBullish), s.rsi)
        /\ Less(Whole(50), s.rsi) => ~Less(s.rsi, Whole(RsiBearish))
    <3>1. s.rsi = Rsi(h)
      BY <1>1, Zenon DEF CalculateIndicatorSnapshot
    <3>2. PICK x \in Int, y \in Nat : s.rsi = <<x, y>>
      <4>1. RsiPeriod + 1 <= Len(h)
        BY ReadingConstants, ClosesAre DEF ReadingRaises
      <4>2. MeanGain(h) \in Nat /\ MeanLoss(h) \in Nat
        BY <4>1, MeansMirrored
      <4>3. PICK g \in Nat, l \in Nat : g = MeanGain(h) /\ l = MeanLoss(h)
        BY <4>2
      <4>4. CASE l = 0
        <5>1. s.rsi = <<100, 1>>
          BY <3>1, <4>3, <4>4 DEF Rsi, Whole
        <5> QED
          BY <5>1
      <4>5. CASE l # 0
        <5>1. s.rsi = <<100 * g, g + l>>
          BY <3>1, <4>3, <4>5 DEF Rsi, Whole
        <5>2. PICK x, y : x = 100 * g /\ y = g + l
          OBVIOUS
        <5>3. x \in Int /\ y \in Nat /\ s.rsi = <<x, y>>
          BY <5>1, <5>2
        <5> QED
          BY <5>3
      <4> QED
        BY <4>4, <4>5
    <3>3. RsiBearish * y <= 50 * y /\ 50 * y <= RsiBullish * y
      BY <2>1, SMTT(30)
    <3>4. PICK p \in Int, q \in Int : p = RsiBearish * y /\ q = RsiBullish * y
      BY <2>1
    <3> QED
      BY <3>2, <3>3, <3>4 DEF Less, Whole
  <2>3. /\ c.bias = "BearishBias" => s.trend = "DOWNTREND" /\ Less(s.rsi, Whole(50))
        /\ c.bias = "BullishBias" => s.trend = "UPTREND" /\ Less(Whole(50), s.rsi)
    BY <1>5 DEF ClassifyMarketBias
  <2>4. /\ s.trend = "DOWNTREND" => c.trend # "BullishTrend"
        /\ s.trend = "UPTREND" => c.trend # "BearishTrend"
    BY <1>5 DEF ClassifyTrend
  <2>5. /\ c.bias = "BearishBias" => a[n] # "Long"
        /\ c.bias = "BullishBias" => a[n] # "Short"
    BY <1>8, <1>9, <2>3, <2>4 DEF TrendAgreement
  <2>6. /\ c.bias = "BearishBias" => a[2] # "Long"
        /\ c.bias = "BullishBias" => a[2] # "Short"
    BY <1>8, <2>2, <2>3 DEF RsiConfirmation, Side
  <2> QED
    BY <2>5, <2>6
<1>19. /\ e.direction = "Long" => c.trend # "BearishTrend" /\ c.bias # "BearishBias"
       /\ e.direction = "Short" => c.trend # "BullishTrend" /\ c.bias # "BullishBias"
  <2>1. /\ c.trend = "BearishTrend" \/ c.bias = "BearishBias" => long <= n - 2
        /\ c.trend = "BullishTrend" \/ c.bias = "BullishBias" => short <= n - 2
    BY <1>10, <1>15, <1>16, <1>17, <1>18
  <2> QED
    BY <1>14, <2>1
<1> QED
  BY <1>4, <1>6, <1>19

LEMMA ReadAreTrusted ==
  ASSUME ReadingInv
  PROVE  ReadingsTrusted
<1>1. seen \in Seq(Bar)
  BY BarsAreBars DEF ReadingInv
<1>2. MarketsMirrored
  <2> SUFFICES ASSUME reading.outcome = "read", Supertrend(seen).left, Moved(seen), RsiBullish + RsiBearish = 100
               PROVE  Opposed(Reading(seen, TRUE, TRUE), Reading(Mirrored(seen), TRUE, TRUE))
    BY DEF MarketsMirrored
  <2>1. ~ReadingRaises(seen)
    BY DEF ReadingInv
  <2> QED
    BY <1>1, <2>1, ReadingsOpposed
<1>3. SignalsFitContext
  <2> SUFFICES ASSUME StrictVote, reading.outcome = "read", reading.recommendation.recommended
               PROVE  SignalsFitContext
    BY DEF SignalsFitContext
  <2>1. ~ReadingRaises(seen)
    BY DEF ReadingInv
  <2>2. PICK canTrade \in BOOLEAN, riskOk \in BOOLEAN : reading = Reading(seen, canTrade, riskOk)
    BY DEF ReadingInv
  <2>3. /\ reading.recommendation.direction = "Long" =>
             reading.context.trend # "BearishTrend" /\ reading.context.bias # "BearishBias"
        /\ reading.recommendation.direction = "Short" =>
             reading.context.trend # "BullishTrend" /\ reading.context.bias # "BullishBias"
    BY <1>1, <2>1, <2>2, StrictVotesFit
  <2> QED
    BY <2>3 DEF SignalsFitContext
<1> QED
  BY <1>2, <1>3 DEF ReadingsTrusted

\* The inductive invariant of a market that is read candle by candle: what was read is
\* the reading of the whole history.
THEOREM ReadingInvariant == Spec => []ReadingInv
<1>1. Init => ReadingInv
  <2>1. Init => seen = <<>> /\ reading = Unread
    BY DEF Init, ReadingInit
  <2>2. ASSUME seen = <<>>, reading = Unread PROVE ReadingInv
    BY <2>2 DEF ReadingInv, Unread
  <2> QED
    BY <2>1, <2>2
<1>2. ReadingInv /\ [Next]_vars => ReadingInv'
  <2> SUFFICES ASSUME ReadingInv, [Next]_vars PROVE ReadingInv'
    OBVIOUS
  <2>1. CASE ReadingNext
    <3>1. PICK c \in ReadBars :
            \/ WarmReading(c)
            \/ \E canTrade, riskOk \in BOOLEAN : ReadCandle(c, canTrade, riskOk)
      BY <2>1 DEF ReadingNext
    <3>2. seen' = Append(seen, c)
      BY <3>1 DEF WarmReading, ReadCandle
    <3>3. seen' \in Seq(ReadBars) /\ Len(seen') = Len(seen) + 1 /\ Len(seen) \in Nat
      BY <3>2 DEF ReadingInv
    <3>4. CASE WarmReading(c)
      <4>1. reading = Unread /\ reading' = Unread
        BY <3>3, <3>4, ReadingAssumption DEF WarmReading, ReadingInv
      <4>2. reading'.outcome # "read"
        BY <4>1 DEF Unread
      <4> QED
        BY <3>3, <4>1, <4>2 DEF ReadingInv, Unread
    <3>5. ASSUME NEW canTrade \in BOOLEAN, NEW riskOk \in BOOLEAN, ReadCandle(c, canTrade, riskOk)
          PROVE  ReadingInv'
      <4>1. ~(Len(seen') <= ReadWarmup)
        BY <3>3, <3>5, ReadingAssumption DEF ReadCandle
      <4>2. CASE ReadingRaises(seen')
        <5>1. reading'.outcome # "read"
          BY <3>5, <4>2 DEF ReadCandle, ReadingRaised
        <5> QED
          BY <3>3, <4>1, <5>1 DEF ReadingInv
      <4>3. CASE ~ReadingRaises(seen')
        <5>1. reading' = Reading(seen', canTrade, riskOk)
          BY <3>5, <4>3 DEF ReadCandle
        <5> QED
          BY <3>3, <4>1, <4>3, <5>1 DEF ReadingInv
      <4> QED
        BY <4>2, <4>3
    <3> QED
      BY <3>1, <3>4, <3>5
  <2>2. CASE UNCHANGED readingVars
    BY <2>2 DEF ReadingInv, readingVars
  <2> QED
    BY <2>1, <2>2 DEF Next, vars
<1> QED
  BY <1>1, <1>2, PTL DEF Spec

\* What is read in a market is trusted (ReadingsTrusted): its mirror image is read as the
\* opposite, and what a strict vote recommends fits the context.
THEOREM ReadingsAreTrusted == Spec => []ReadingsTrusted
BY ReadAreTrusted, ReadingInvariant, PTL

-----------------------------------------------------------------------------
(* Folds from the left *)

\* A step of a fold over the numbers up to n, as the values on their subsets.
FoldsBy(g, base, step) ==
  \A s \in DOMAIN g : g[s] = IF s = {} THEN base ELSE step[<<g[s \ {Max(s)}], Max(s)>>]

\* The largest of a set of numbers up to k that holds k.
LEMMA LargestIs ==
  ASSUME NEW k \in Nat, NEW s, s \subseteq 1 .. k, k \in s
  PROVE  Max(s) = k
<1>1. IsFiniteSet(1 .. k)
  BY FS_Interval
<1>2. IsFiniteSet(s) /\ s # {} /\ \A x \in s : x \in Int
  <2>1. IsFiniteSet(s)
    BY <1>1, FS_Subset
  <2> QED
    BY <2>1
<1>3. Max(s) \in s /\ \A y \in s : Max(s) >= y
  BY <1>2, MaxMinOf
<1>4. \A x \in s : x <= k
  OBVIOUS
<1>5. Max(s) \in Int /\ Max(s) <= k /\ Max(s) >= k
  BY <1>2, <1>3, <1>4
<1> QED
  BY <1>5

\* Values of the fold exist, when the step stays within a set.
LEMMA FoldExists ==
  ASSUME NEW S, NEW base \in S, NEW n \in Nat, NEW step \in [S \X (1 .. n) -> S]
  PROVE  \E g \in [SUBSET (1 .. n) -> S] : FoldsBy(g, base, step)
<1> DEFINE P == {k \in 0 .. n : \E g \in [SUBSET (1 .. k) -> S] : FoldsBy(g, base, step)}
<1>1. 0 \in P
  <2>1. PICK g : g = [s \in SUBSET (1 .. 0) |-> base]
    OBVIOUS
  <2>2. \A s \in SUBSET (1 .. 0) : s = {}
    OBVIOUS
  <2>3. g \in [SUBSET (1 .. 0) -> S] /\ FoldsBy(g, base, step)
    BY <2>1, <2>2 DEF FoldsBy
  <2>4. 0 \in 0 .. n
    OBVIOUS
  <2> QED
    BY <2>3, <2>4
<1>2. ASSUME NEW k \in 0 + 1 .. n, k - 1 \in P
      PROVE  k \in P
  <2>1. PICK g \in [SUBSET (1 .. k - 1) -> S] : FoldsBy(g, base, step)
    BY <1>2
  <2> DEFINE above(s) == step[<<g[s \ {k}], k>>]
             e == [s \in SUBSET (1 .. k) |-> IF k \in s THEN above(s) ELSE g[s]]
  <2>2. k \in 1 .. n /\ k \in Nat /\ k \in 0 .. n
    OBVIOUS
  <2>3. ASSUME NEW s \in SUBSET (1 .. k)
        PROVE  IF k \in s THEN s \ {k} \in SUBSET (1 .. k - 1) /\ k \notin s \ {k} /\ Max(s) = k
                          ELSE s \in SUBSET (1 .. k - 1)
    <3>1. CASE k \in s
      <4>1. Max(s) = k
        BY <2>2, <3>1, LargestIs
      <4>2. s \ {k} \in SUBSET (1 .. k - 1) /\ k \notin s \ {k}
        OBVIOUS
      <4> QED
        BY <3>1, <4>1, <4>2
    <3>2. CASE k \notin s
      <4>1. s \in SUBSET (1 .. k - 1)
        BY <3>2
      <4> QED
        BY <3>2, <4>1
    <3> QED
      BY <3>1, <3>2
  <2>4. e \in [SUBSET (1 .. k) -> S]
    <3>1. ASSUME NEW s \in SUBSET (1 .. k)
          PROVE  (IF k \in s THEN above(s) ELSE g[s]) \in S
      <4>1. CASE k \in s
        <5>1. s \ {k} \in SUBSET (1 .. k - 1)
          BY <2>3, <4>1
        <5>2. g[s \ {k}] \in S
          BY <5>1
        <5> QED
          BY <2>2, <4>1, <5>2
      <4>2. CASE k \notin s
        BY <2>3, <4>2
      <4> QED
        BY <4>1, <4>2
    <3> QED
      BY <3>1
  <2>5. ASSUME NEW s \in SUBSET (1 .. k)
        PROVE  e[s] = IF s = {} THEN base ELSE step[<<e[s \ {Max(s)}], Max(s)>>]
    <3>1. CASE k \in s
      <4>1. s \ {k} \in SUBSET (1 .. k - 1) /\ k \notin s \ {k} /\ Max(s) = k
        BY <2>3, <3>1
      <4>2. s \ {k} \in SUBSET (1 .. k)
        OBVIOUS
      <4>3. e[s] = step[<<g[s \ {k}], k>>] /\ e[s \ {k}] = g[s \ {k}]
        BY <3>1, <4>1, <4>2
      <4> HIDE DEF e
      <4> QED
        BY <3>1, <4>1, <4>3
    <3>2. CASE k \notin s
      <4>1. s \in SUBSET (1 .. k - 1)
        BY <2>3, <3>2
      <4>2. g[s] = IF s = {} THEN base ELSE step[<<g[s \ {Max(s)}], Max(s)>>]
        BY <2>1, <4>1 DEF FoldsBy
      <4>3. k \notin s \ {Max(s)} /\ s \ {Max(s)} \in SUBSET (1 .. k)
        BY <3>2
      <4>4. e[s] = g[s] /\ e[s \ {Max(s)}] = g[s \ {Max(s)}]
        BY <3>2, <4>3
      <4> HIDE DEF e
      <4> QED
        BY <4>2, <4>4
    <3> QED
      BY <3>1, <3>2
  <2> HIDE DEF e
  <2>6. FoldsBy(e, base, step)
    BY <2>4, <2>5 DEF FoldsBy
  <2> QED
    BY <2>2, <2>4, <2>6
<1>3. n \in P
  <2>1. \A k \in 0 + 1 .. n : k - 1 \in P => k \in P
    BY <1>2
  <2> HIDE DEF P
  <2>2. \A k \in 0 .. n : k \in P
    BY <1>1, <2>1, IntervalInduction
  <2> QED
    BY <2>2
<1> QED
  BY <1>3

\* The first k numbers, as a fold over n takes them apart.
LEMMA PrefixOf ==
  ASSUME NEW n \in Nat, NEW k \in 1 .. n
  PROVE  /\ 1 .. k \in SUBSET (1 .. n) /\ 1 .. k # {} /\ Max(1 .. k) = k
         /\ (1 .. k) \ {k} = 1 .. k - 1
<1>1. k \in Nat /\ 1 .. k \subseteq 1 .. k /\ k \in 1 .. k
  OBVIOUS
<1>2. Max(1 .. k) = k
  BY <1>1, LargestIs
<1>3. 1 .. k \in SUBSET (1 .. n) /\ 1 .. k # {} /\ (1 .. k) \ {k} = 1 .. k - 1
  OBVIOUS
<1> QED
  BY <1>2, <1>3

\* The ends of a set of numbers up to n.
LEMMA SubsetEnds ==
  ASSUME NEW n \in Nat, NEW s \in SUBSET (1 .. n), s # {}
  PROVE  /\ Max(s) \in s /\ Max(s) \in 1 .. n /\ s \ {Max(s)} \in SUBSET (1 .. n)
         /\ Min(s) \in s /\ Min(s) \in 1 .. n
         /\ IsFiniteSet(s) /\ \A y \in s : Max(s) >= y /\ Min(s) <= y
<1>1. IsFiniteSet(1 .. n)
  BY FS_Interval
<1>2. IsFiniteSet(s) /\ \A x \in s : x \in Int
  <2>1. IsFiniteSet(s)
    BY <1>1, FS_Subset
  <2> QED
    BY <2>1
<1>3. Max(s) \in s /\ Min(s) \in s /\ \A y \in s : Max(s) >= y /\ Min(s) <= y
  BY <1>2, MaxMinOf
<1> QED
  BY <1>2, <1>3

-----------------------------------------------------------------------------
(* The drawdown of a curve *)

Points == [time : Nat, equity : Int]
Falls == [peak : Int, deepest : Int]

LEMMA PointIs ==
  ASSUME NEW curve \in Seq(Points), NEW i \in DOMAIN curve
  PROVE  /\ curve[i].time \in Nat /\ curve[i].equity \in Int
         /\ Day(curve[i].time) \in Nat
<1>1. curve[i] \in Points
  OBVIOUS
<1>2. curve[i].time \in Nat /\ curve[i].equity \in Int
  BY <1>1 DEF Points
<1> QED
  BY <1>2, DayMoves

LEMMA FallIs ==
  ASSUME NEW dd \in Falls, NEW p \in Points
  PROVE  /\ Fall(dd, p) \in Falls /\ dd.peak \in Int /\ dd.deepest \in Int /\ p.equity \in Int
         /\ Fall(dd, p).peak = HigherOf(dd.peak, p.equity)
         /\ Fall(dd, p).deepest = HigherOf(dd.deepest, HigherOf(dd.peak, p.equity) - p.equity)
BY DEF Fall, Falls, Points, HigherOf

\* The peak and the deepest fall before the first point, and after each one.
FallsBy(f, curve) ==
  /\ f[0] = [peak |-> IF curve = <<>> THEN 0 ELSE Head(curve).equity, deepest |-> 0]
  /\ \A k \in 1 .. Len(curve) : f[k] = Fall(f[k - 1], curve[k])
  /\ \A k \in 0 .. Len(curve) : f[k] \in Falls
  /\ MaxDrawdown(curve) = f[Len(curve)].deepest

LEMMA DrawdownScanned ==
  ASSUME NEW curve \in Seq(Points)
  PROVE  \E f : FallsBy(f, curve)
<1> DEFINE n == Len(curve)
           D == DOMAIN curve
           base == [peak |-> IF curve = <<>> THEN 0 ELSE Head(curve).equity, deepest |-> 0]
           step == [x \in Falls \X (1 .. n) |-> Fall(x[1], curve[x[2]])]
           Solves(g) == g = [s \in SUBSET D |-> IF s = {} THEN base
                                                ELSE Fall(g[s \ {Max(s)}], curve[Max(s)])]
<1>1. n \in Nat /\ D = 1 .. n /\ \A i \in 1 .. n : curve[i] \in Points
  OBVIOUS
<1>2. base \in Falls
  <2>1. curve # <<>> => Head(curve) \in Points
    OBVIOUS
  <2>2. (IF curve = <<>> THEN 0 ELSE Head(curve).equity) \in Int
    BY <2>1 DEF Points
  <2> QED
    BY <2>2 DEF Falls
<1>3. step \in [Falls \X (1 .. n) -> Falls]
  BY <1>1, FallIs
<1>4. MaxDrawdown(curve) = (CHOOSE g : Solves(g))[D].deepest
  BY DEF MaxDrawdown, FoldLeft, MapThenFoldSet
<1> HIDE DEF base
<1>5. \E g : Solves(g)
  <2>1. PICK g \in [SUBSET (1 .. n) -> Falls] : FoldsBy(g, base, step)
    <3> HIDE DEF step, n
    <3> QED
      BY <1>1, <1>2, <1>3, FoldExists
  <2>2. ASSUME NEW s \in SUBSET (1 .. n)
        PROVE  g[s] = IF s = {} THEN base ELSE Fall(g[s \ {Max(s)}], curve[Max(s)])
    <3>1. g[s] = IF s = {} THEN base ELSE step[<<g[s \ {Max(s)}], Max(s)>>]
      BY <2>1 DEF FoldsBy
    <3>2. CASE s # {}
      <4>1. Max(s) \in s /\ Max(s) \in 1 .. n /\ s \ {Max(s)} \in SUBSET (1 .. n)
        BY <1>1, <3>2, SubsetEnds
      <4>2. g[s \ {Max(s)}] \in Falls
        BY <2>1, <4>1
      <4> QED
        BY <3>1, <3>2, <4>1, <4>2
    <3> QED
      BY <3>1, <3>2
  <2>3. Solves(g)
    BY <1>1, <2>1, <2>2
  <2> QED
    BY <2>3
<1>6. PICK g : Solves(g) /\ MaxDrawdown(curve) = g[D].deepest
  <2> HIDE DEF Solves
  <2> QED
    BY <1>4, <1>5
<1> DEFINE f == [k \in 0 .. n |-> g[1 .. k]]
<1>7. f[0] = base
  <2>1. 1 .. 0 = {} /\ {} \in SUBSET D /\ 0 \in 0 .. n
    BY <1>1
  <2> QED
    BY <1>6, <2>1
<1>8. ASSUME NEW k \in 1 .. n PROVE f[k] = Fall(f[k - 1], curve[k])
  <2>1. /\ 1 .. k \in SUBSET D /\ 1 .. k # {} /\ Max(1 .. k) = k
        /\ (1 .. k) \ {k} = 1 .. k - 1
    BY <1>1, PrefixOf
  <2>2. g[1 .. k] = Fall(g[(1 .. k) \ {Max(1 .. k)}], curve[Max(1 .. k)])
    BY <1>6, <2>1
  <2>3. k \in 0 .. n /\ k - 1 \in 0 .. n
    BY <1>1
  <2> QED
    BY <2>1, <2>2, <2>3
<1>9. MaxDrawdown(curve) = f[n].deepest
  BY <1>1, <1>6
<1> HIDE DEF f
<1>10. \A k \in 0 .. n : f[k] \in Falls
  <2> DEFINE P == {k \in 0 .. n : f[k] \in Falls}
  <2>1. 0 \in P
    BY <1>1, <1>2, <1>7
  <2>2. ASSUME NEW k \in 0 + 1 .. n, k - 1 \in P PROVE k \in P
    BY <1>1, <1>8, <2>2, FallIs
  <2>3. \A k \in 0 + 1 .. n : k - 1 \in P => k \in P
    BY <2>2
  <2> HIDE DEF P, n
  <2>4. \A k \in 0 .. n : k \in P
    BY <1>1, <2>1, <2>3, IntervalInduction
  <2> QED
    BY <2>4 DEF P
<1> QED
  BY <1>7, <1>8, <1>9, <1>10 DEF FallsBy, base

\* The length of a curve that has a point.
LEMMA CurveLength ==
  ASSUME NEW curve \in Seq(Points), curve # <<>>
  PROVE  \E n \in Nat : /\ n = Len(curve) /\ n >= 1 /\ n \in 1 .. n /\ 1 \in 1 .. n
                         /\ DOMAIN curve = 1 .. n
<1>1. Len(curve) \in Nat /\ DOMAIN curve = 1 .. Len(curve)
  OBVIOUS
<1>2. Len(curve) # 0
  OBVIOUS
<1>3. PICK n \in Nat : n = Len(curve) /\ DOMAIN curve = 1 .. n
  BY <1>1
<1>4. n >= 1 /\ n \in 1 .. n /\ 1 \in 1 .. n
  BY <1>2, <1>3
<1> QED
  BY <1>3, <1>4

\* d is the deepest fall between two of the first k points, p the highest of them.
Measures(curve, k, p, d) ==
  /\ \E i \in 1 .. k : p = curve[i].equity
  /\ \A i \in 1 .. k : curve[i].equity <= p
  /\ \E i, j \in 1 .. k : i <= j /\ d = curve[i].equity - curve[j].equity
  /\ \A i, j \in 1 .. k : i <= j => curve[i].equity - curve[j].equity <= d

\* One more point.
LEMMA MeasuresOn ==
  ASSUME NEW curve \in Seq(Points), NEW k \in 1 .. Len(curve), k # 1,
         NEW p \in Int, NEW d \in Int, Measures(curve, k - 1, p, d),
         NEW x \in Int, x = curve[k].equity
  PROVE  Measures(curve, k, HigherOf(p, x), HigherOf(d, HigherOf(p, x) - x))
<1>1. /\ k - 1 \in Nat /\ k - 1 >= 1 /\ k \in Nat /\ DOMAIN curve = 1 .. Len(curve)
      /\ \A i \in 1 .. k : i \in 1 .. k - 1 \/ i = k
      /\ \A i \in 1 .. k - 1 : i \in 1 .. k /\ i <= k
  OBVIOUS
<1>2. \A i \in 1 .. k : curve[i].equity \in Int
  BY <1>1, PointIs
<1> DEFINE h == HigherOf(p, x)
           e == HigherOf(d, h - x)
<1>3. h \in Int /\ e \in Int /\ (h = p \/ h = x) /\ h >= p /\ h >= x
      /\ (e = d \/ e = h - x) /\ e >= d /\ e >= h - x
  BY DEF HigherOf
<1> HIDE DEF h, e
<1>4. \E i \in 1 .. k : h = curve[i].equity
  BY <1>1, <1>3 DEF Measures
<1>5. ASSUME NEW i \in 1 .. k PROVE curve[i].equity <= h
  <2>1. PICK a \in Int : a = curve[i].equity
    BY <1>2
  <2>2. CASE i = k
    BY <1>3, <2>1, <2>2
  <2>3. CASE i # k
    <3>1. i \in 1 .. k - 1
      BY <2>3
    <3>2. a <= p
      BY <2>1, <3>1 DEF Measures
    <3> QED
      BY <1>3, <2>1, <3>2
  <2> QED
    BY <2>2, <2>3
<1>6. \E i, j \in 1 .. k : i <= j /\ e = curve[i].equity - curve[j].equity
  <2>1. CASE e = d
    <3>1. PICK i \in 1 .. k - 1, j \in 1 .. k - 1 : i <= j /\ d = curve[i].equity - curve[j].equity
      BY DEF Measures
    <3> QED
      BY <1>1, <2>1, <3>1
  <2>2. CASE e = h - x
    <3>1. PICK i \in 1 .. k : h = curve[i].equity
      BY <1>4
    <3>2. i <= k /\ k \in 1 .. k
      BY <1>1
    <3> QED
      BY <2>2, <3>1, <3>2
  <2> QED
    BY <1>3, <2>1, <2>2
<1>7. ASSUME NEW i \in 1 .. k, NEW j \in 1 .. k, i <= j
      PROVE  curve[i].equity - curve[j].equity <= e
  <2>1. PICK a \in Int, b \in Int : a = curve[i].equity /\ b = curve[j].equity
    BY <1>2
  <2>2. CASE j = k
    <3>1. a <= h /\ b = x
      BY <1>5, <2>1, <2>2
    <3>2. a - b <= e
      BY <1>3, <3>1
    <3> QED
      BY <2>1, <3>2
  <2>3. CASE j # k
    <3>1. i \in 1 .. k - 1 /\ j \in 1 .. k - 1
      BY <1>7, <2>3
    <3>2. a - b <= d
      BY <1>7, <2>1, <3>1 DEF Measures
    <3>3. a - b <= e
      BY <1>3, <3>2
    <3> QED
      BY <2>1, <3>3
  <2> QED
    BY <2>2, <2>3
<1> QED
  BY <1>4, <1>5, <1>6, <1>7 DEF Measures, h, e

\* A curve's max_drawdown is its deepest fall, and the scan's peak its highest point.
LEMMA DrawdownMeasured ==
  ASSUME NEW curve \in Seq(Points), curve # <<>>, NEW f, FallsBy(f, curve)
  PROVE  \A k \in 1 .. Len(curve) : Measures(curve, k, f[k].peak, f[k].deepest)
<1>1. PICK n \in Nat : n = Len(curve) /\ n >= 1 /\ DOMAIN curve = 1 .. n
  BY CurveLength
<1>2. ASSUME NEW k \in 1 .. n
      PROVE  /\ f[k - 1] \in Falls /\ curve[k] \in Points /\ f[k] = Fall(f[k - 1], curve[k])
             /\ k - 1 \in 0 .. n
  BY <1>1, <1>2 DEF FallsBy
<1> DEFINE P == {k \in 1 .. n : Measures(curve, k, f[k].peak, f[k].deepest)}
<1>3. 1 \in P
  <2>1. PICK x \in Int : x = curve[1].equity
    BY <1>1, PointIs
  <2>2. Head(curve) = curve[1]
    OBVIOUS
  <2>3. f[0].peak = x /\ f[0].deepest = 0
    BY <2>1, <2>2 DEF FallsBy
  <2>4. 1 \in 1 .. n /\ 1 - 1 = 0
    BY <1>1
  <2>5. f[1] = Fall(f[0], curve[1]) /\ f[0] \in Falls /\ curve[1] \in Points
    BY <1>2, <2>4
  <2>6. f[1].peak = HigherOf(x, x) /\ f[1].deepest = HigherOf(0, HigherOf(x, x) - x)
    BY <2>1, <2>3, <2>5, FallIs
  <2>7. f[1].peak = x /\ f[1].deepest = 0
    BY <2>6 DEF HigherOf
  <2>8. \A i \in 1 .. 1 : i = 1
    OBVIOUS
  <2>9. x - x = 0 /\ x <= x /\ 1 <= 1 /\ 1 \in 1 .. 1
    OBVIOUS
  <2> QED
    BY <2>1, <2>4, <2>7, <2>8, <2>9 DEF Measures
<1>4. ASSUME NEW k \in 1 + 1 .. n, k - 1 \in P PROVE k \in P
  <2>1. k \in 1 .. n /\ k # 1 /\ k \in 1 .. Len(curve)
    BY <1>1
  <2>2. PICK p \in Int, d \in Int, x \in Int :
          p = f[k - 1].peak /\ d = f[k - 1].deepest /\ x = curve[k].equity
    BY <1>2, <2>1, FallIs
  <2>3. Measures(curve, k - 1, p, d)
    BY <1>4, <2>2
  <2>4. Measures(curve, k, HigherOf(p, x), HigherOf(d, HigherOf(p, x) - x))
    BY <2>1, <2>2, <2>3, MeasuresOn
  <2>5. f[k].peak = HigherOf(p, x) /\ f[k].deepest = HigherOf(d, HigherOf(p, x) - x)
    BY <1>2, <2>1, <2>2, FallIs
  <2> QED
    BY <2>1, <2>4, <2>5
<1>5. \A k \in 1 + 1 .. n : k - 1 \in P => k \in P
  BY <1>4
<1>6. \A k \in 1 .. n : k \in P
  <2> HIDE DEF P
  <2> QED
    BY <1>3, <1>5, IntervalInduction
<1> QED
  BY <1>1, <1>6

\* So the deepest fall of a curve is its max_drawdown.
DeepestFall(curve, d) ==
  /\ \E i, j \in DOMAIN curve : i <= j /\ d = curve[i].equity - curve[j].equity
  /\ \A i, j \in DOMAIN curve : i <= j => curve[i].equity - curve[j].equity <= d

LEMMA DrawdownIs ==
  ASSUME NEW curve \in Seq(Points), curve # <<>>
  PROVE  MaxDrawdown(curve) \in Int /\ MaxDrawdown(curve) >= 0 /\ DeepestFall(curve, MaxDrawdown(curve))
<1>1. PICK f : FallsBy(f, curve)
  BY DrawdownScanned
<1>2. PICK n \in Nat : n = Len(curve) /\ n \in 1 .. n /\ DOMAIN curve = 1 .. n /\ 1 \in 1 .. n
  BY CurveLength
<1>3. Measures(curve, n, f[n].peak, f[n].deepest)
  BY <1>1, <1>2, DrawdownMeasured
<1>4. f[n] \in Falls /\ MaxDrawdown(curve) = f[n].deepest
  BY <1>1, <1>2 DEF FallsBy
<1>5. PICK d \in Int : d = f[n].deepest /\ d = MaxDrawdown(curve)
  BY <1>4 DEF Falls
<1>6. DeepestFall(curve, d)
  BY <1>2, <1>3, <1>5 DEF Measures, DeepestFall
<1>7. d >= 0
  <2>1. PICK x \in Int : x = curve[1].equity
    BY <1>2, PointIs
  <2>2. x - x <= d
    BY <1>2, <1>6, <2>1 DEF DeepestFall
  <2> QED
    BY <2>1, <2>2
<1> QED
  BY <1>5, <1>6, <1>7

\* No part of a curve falls further than the whole.
LEMMA PartFallsLess ==
  ASSUME NEW curve \in Seq(Points), NEW lo \in DOMAIN curve, NEW hi \in DOMAIN curve, lo <= hi
  PROVE  MaxDrawdown(SubSeq(curve, lo, hi)) <= MaxDrawdown(curve)
<1> DEFINE part == SubSeq(curve, lo, hi)
<1>1. Len(curve) \in Nat /\ DOMAIN curve = 1 .. Len(curve) /\ lo \in Nat /\ hi \in Nat /\ curve # <<>>
  OBVIOUS
<1>2. /\ part \in Seq(Points) /\ Len(part) = hi - lo + 1
      /\ \A i \in 1 .. hi - lo + 1 : part[i] = curve[lo + i - 1]
  BY <1>1
<1> HIDE DEF part
<1>3. PICK m \in Nat : m = Len(part) /\ m = hi - lo + 1 /\ m >= 1 /\ DOMAIN part = 1 .. m
  <2>1. hi - lo + 1 \in Nat /\ hi - lo + 1 >= 1
    BY <1>1
  <2> QED
    BY <1>2, <2>1
<1>4. part # <<>>
  BY <1>3
<1>5. PICK d \in Int : d = MaxDrawdown(part) /\ DeepestFall(part, d)
  BY <1>2, <1>4, DrawdownIs
<1>6. PICK e \in Int : e = MaxDrawdown(curve) /\ DeepestFall(curve, e)
  BY <1>1, DrawdownIs
<1>7. PICK i \in 1 .. m, j \in 1 .. m : i <= j /\ d = part[i].equity - part[j].equity
  BY <1>3, <1>5 DEF DeepestFall
<1>8. /\ part[i] = curve[lo + i - 1] /\ part[j] = curve[lo + j - 1]
      /\ lo + i - 1 \in DOMAIN curve /\ lo + j - 1 \in DOMAIN curve /\ lo + i - 1 <= lo + j - 1
  BY <1>1, <1>2, <1>3, <1>7
<1>9. d <= e
  <2>1. curve[lo + i - 1].equity - curve[lo + j - 1].equity <= e
    BY <1>6, <1>8 DEF DeepestFall
  <2> QED
    BY <1>7, <1>8, <2>1
<1> QED
  BY <1>5, <1>6, <1>9 DEF part

-----------------------------------------------------------------------------
(* The episodes of a drawdown *)

EpisodeSet == [peakTime : Nat, troughTime : Nat, recoveryTime : Nat \cup {None}, depth : Int]
Scans == [episodes : Seq(EpisodeSet), peak : Points, trough : Points, under : BOOLEAN]

LEMMA EpisodeIs ==
  ASSUME NEW peak \in Points, NEW trough \in Points, NEW recovery \in Nat \cup {None}
  PROVE  LET e == Episode(peak, trough, recovery)
         IN /\ e \in EpisodeSet /\ e.depth = peak.equity - trough.equity /\ e.depth \in Int
            /\ e.recoveryTime = recovery
BY DEF Episode, EpisodeSet, Points

\* What a point does to a scan: it ends a drawdown or none, or it is one.
StepsUp(s, p, t) ==
  /\ t.peak = p /\ t.trough = p /\ t.under = FALSE
  /\ IF s.under THEN t.episodes = Append(s.episodes, Episode(s.peak, s.trough, p.time))
     ELSE t.episodes = s.episodes

StepsDown(s, p, t) ==
  /\ t.peak = s.peak /\ t.under = TRUE /\ t.episodes = s.episodes
  /\ t.trough = IF s.under /\ p.equity >= s.trough.equity THEN s.trough ELSE p

LEMMA ScanFields ==
  ASSUME NEW s \in Scans
  PROVE  /\ s.episodes \in Seq(EpisodeSet) /\ s.peak \in Points /\ s.trough \in Points
         /\ s.under \in BOOLEAN /\ s.peak.equity \in Int /\ s.trough.equity \in Int
<1>1. s.episodes \in Seq(EpisodeSet) /\ s.peak \in Points /\ s.trough \in Points
  BY DEF Scans
<1>2. s.under \in BOOLEAN
  BY Zenon DEF Scans
<1> QED
  BY <1>1, <1>2 DEF Points

LEMMA StepIs ==
  ASSUME NEW s \in Scans, NEW p \in Points
  PROVE  /\ Step(s, p) \in Scans
         /\ p.equity >= s.peak.equity => StepsUp(s, p, Step(s, p))
         /\ p.equity < s.peak.equity => StepsDown(s, p, Step(s, p))
<1>1. /\ s.episodes \in Seq(EpisodeSet) /\ s.peak \in Points /\ s.trough \in Points
      /\ s.under \in BOOLEAN /\ s.peak.equity \in Int /\ s.trough.equity \in Int
  BY ScanFields
<1>2. p.equity \in Int /\ p.time \in Nat
  BY DEF Points
<1>3. CASE p.equity >= s.peak.equity
  <2> DEFINE list == IF s.under THEN Append(s.episodes, Episode(s.peak, s.trough, p.time))
                     ELSE s.episodes
  <2>1. Step(s, p) = [episodes |-> list, peak |-> p, trough |-> p, under |-> FALSE]
    BY <1>3 DEF Step
  <2>2. list \in Seq(EpisodeSet)
    <3>1. p.time \in Nat \cup {None}
      BY <1>2
    <3>2. Episode(s.peak, s.trough, p.time) \in EpisodeSet
      BY <1>1, <3>1, EpisodeIs
    <3> QED
      BY <1>1, <3>2
  <2>3. StepsUp(s, p, Step(s, p))
    BY <2>1 DEF StepsUp
  <2> HIDE DEF list
  <2>4. Step(s, p) \in Scans
    BY <2>1, <2>2 DEF Scans
  <2> QED
    BY <1>1, <1>2, <1>3, <2>3, <2>4
<1>4. CASE p.equity < s.peak.equity
  <2> DEFINE low == IF s.under /\ p.equity >= s.trough.equity THEN s.trough ELSE p
  <2>1. ~ p.equity >= s.peak.equity
    BY <1>1, <1>2, <1>4
  <2>2. Step(s, p) = [s EXCEPT !.under = TRUE, !.trough = low]
    BY <2>1 DEF Step
  <2>3. low \in Points
    BY <1>1
  <2> HIDE DEF low
  <2>4. PICK e, a, b, u : s = [episodes |-> e, peak |-> a, trough |-> b, under |-> u]
    BY Zenon DEF Scans
  <2>5. Step(s, p) = [episodes |-> e, peak |-> a, trough |-> low, under |-> TRUE]
    BY <2>2, <2>4
  <2>6. e = s.episodes /\ a = s.peak
    BY <2>4
  <2>7. Step(s, p) \in Scans
    BY <1>1, <2>3, <2>5, <2>6 DEF Scans
  <2>8. StepsDown(s, p, Step(s, p))
    BY <2>5, <2>6 DEF StepsDown, low
  <2> QED
    BY <1>1, <1>2, <1>4, <2>7, <2>8, <2>1
<1> QED
  BY <1>1, <1>2, <1>3, <1>4

\* The scan before the first point, and after each one.
ScansBy(f, curve) ==
  /\ f[0] = [episodes |-> <<>>, peak |-> Head(curve), trough |-> Head(curve), under |-> FALSE]
  /\ \A k \in 1 .. Len(curve) : f[k] = Step(f[k - 1], curve[k])
  /\ \A k \in 0 .. Len(curve) : f[k] \in Scans
  /\ LET end == f[Len(curve)]
     IN IdentifyDrawdownEpisodes(curve) =
          IF end.under THEN Append(end.episodes, Episode(end.peak, end.trough, None))
          ELSE end.episodes

LEMMA EpisodesScanned ==
  ASSUME NEW curve \in Seq(Points), curve # <<>>
  PROVE  \E f : ScansBy(f, curve)
<1> DEFINE n == Len(curve)
           D == DOMAIN curve
           base == [episodes |-> <<>>, peak |-> Head(curve), trough |-> Head(curve), under |-> FALSE]
           step == [x \in Scans \X (1 .. n) |-> Step(x[1], curve[x[2]])]
           Solves(g) == g = [s \in SUBSET D |-> IF s = {} THEN base
                                                ELSE Step(g[s \ {Max(s)}], curve[Max(s)])]
<1>1. n \in Nat /\ D = 1 .. n /\ \A i \in 1 .. n : curve[i] \in Points
  OBVIOUS
<1>2. base \in Scans
  <2>1. Head(curve) \in Points /\ <<>> \in Seq(EpisodeSet)
    OBVIOUS
  <2> QED
    BY <2>1 DEF Scans
<1>3. step \in [Scans \X (1 .. n) -> Scans]
  BY <1>1, StepIs
<1>4. LET end == (CHOOSE g : Solves(g))[D]
      IN IdentifyDrawdownEpisodes(curve) =
           IF end.under THEN Append(end.episodes, Episode(end.peak, end.trough, None))
           ELSE end.episodes
  BY DEF IdentifyDrawdownEpisodes, FoldLeft, MapThenFoldSet
<1> HIDE DEF base
<1>5. \E g : Solves(g)
  <2>1. PICK g \in [SUBSET (1 .. n) -> Scans] : FoldsBy(g, base, step)
    <3> HIDE DEF step, n
    <3> QED
      BY <1>1, <1>2, <1>3, FoldExists
  <2>2. ASSUME NEW s \in SUBSET (1 .. n)
        PROVE  g[s] = IF s = {} THEN base ELSE Step(g[s \ {Max(s)}], curve[Max(s)])
    <3>1. g[s] = IF s = {} THEN base ELSE step[<<g[s \ {Max(s)}], Max(s)>>]
      BY <2>1 DEF FoldsBy
    <3>2. CASE s # {}
      <4>1. Max(s) \in s /\ Max(s) \in 1 .. n /\ s \ {Max(s)} \in SUBSET (1 .. n)
        BY <1>1, <3>2, SubsetEnds
      <4>2. g[s \ {Max(s)}] \in Scans
        BY <2>1, <4>1
      <4> QED
        BY <3>1, <3>2, <4>1, <4>2
    <3> QED
      BY <3>1, <3>2
  <2>3. Solves(g)
    BY <1>1, <2>1, <2>2
  <2> QED
    BY <2>3
<1>6. PICK g : /\ Solves(g)
               /\ LET end == g[D]
                  IN IdentifyDrawdownEpisodes(curve) =
                       IF end.under THEN Append(end.episodes, Episode(end.peak, end.trough, None))
                       ELSE end.episodes
  <2> HIDE DEF Solves
  <2> QED
    BY <1>4, <1>5
<1> DEFINE f == [k \in 0 .. n |-> g[1 .. k]]
<1>7. f[0] = base
  <2>1. 1 .. 0 = {} /\ {} \in SUBSET D /\ 0 \in 0 .. n
    BY <1>1
  <2> QED
    BY <1>6, <2>1
<1>8. ASSUME NEW k \in 1 .. n PROVE f[k] = Step(f[k - 1], curve[k])
  <2>1. /\ 1 .. k \in SUBSET D /\ 1 .. k # {} /\ Max(1 .. k) = k
        /\ (1 .. k) \ {k} = 1 .. k - 1
    BY <1>1, PrefixOf
  <2>2. g[1 .. k] = Step(g[(1 .. k) \ {Max(1 .. k)}], curve[Max(1 .. k)])
    BY <1>6, <2>1
  <2>3. k \in 0 .. n /\ k - 1 \in 0 .. n
    BY <1>1
  <2> QED
    BY <2>1, <2>2, <2>3
<1>9. f[n] = g[D]
  BY <1>1, <1>6
<1> HIDE DEF f
<1>10. \A k \in 0 .. n : f[k] \in Scans
  <2> DEFINE P == {k \in 0 .. n : f[k] \in Scans}
  <2>1. 0 \in P
    BY <1>1, <1>2, <1>7
  <2>2. ASSUME NEW k \in 0 + 1 .. n, k - 1 \in P PROVE k \in P
    BY <1>1, <1>8, <2>2, StepIs
  <2>3. \A k \in 0 + 1 .. n : k - 1 \in P => k \in P
    BY <2>2
  <2> HIDE DEF P, n
  <2>4. \A k \in 0 .. n : k \in P
    BY <1>1, <2>1, <2>3, IntervalInduction
  <2> QED
    BY <2>4 DEF P
<1>11. LET end == f[n]
       IN IdentifyDrawdownEpisodes(curve) =
            IF end.under THEN Append(end.episodes, Episode(end.peak, end.trough, None))
            ELSE end.episodes
  <2> HIDE DEF Solves
  <2> QED
    BY <1>6, <1>9
<1> QED
  BY <1>7, <1>8, <1>10, <1>11 DEF ScansBy, base

\* d is the depth of the deepest episode of a list, all of them real and the last one
\* alone without a recovery.
DepthIs(list, d) ==
  /\ d >= 0 /\ (d = 0 \/ \E i \in DOMAIN list : d = list[i].depth)
  /\ \A i \in DOMAIN list : list[i].depth <= d /\ list[i].depth > 0

LEMMA OneDeeper ==
  ASSUME NEW list \in Seq(EpisodeSet), NEW d \in Int, DepthIs(list, d),
         NEW e \in EpisodeSet, NEW x \in Int, x = e.depth, x > 0
  PROVE  /\ DepthIs(Append(list, e), HigherOf(d, x))
         /\ Append(list, e) \in Seq(EpisodeSet) /\ Append(list, e) # <<>>
<1>1. /\ Len(list) \in Nat /\ DOMAIN list = 1 .. Len(list)
      /\ DOMAIN Append(list, e) = 1 .. Len(list) + 1 /\ Append(list, e) \in Seq(EpisodeSet)
      /\ \A i \in 1 .. Len(list) : Append(list, e)[i] = list[i]
      /\ Append(list, e)[Len(list) + 1] = e
  OBVIOUS
<1>2. Append(list, e) # <<>>
  OBVIOUS
<1> DEFINE h == HigherOf(d, x)
<1>3. h \in Int /\ (h = d \/ h = x) /\ h >= d /\ h >= x
  BY DEF HigherOf
<1>4. \A i \in 1 .. Len(list) + 1 : i \in 1 .. Len(list) \/ i = Len(list) + 1
  BY <1>1
<1> HIDE DEF h
<1> DEFINE longer == Append(list, e)
<1>5. \A i \in 1 .. Len(list) : list[i].depth \in Int
  <2>1. \A i \in 1 .. Len(list) : list[i] \in EpisodeSet
    BY <1>1
  <2> QED
    BY <2>1 DEF EpisodeSet
<1> HIDE DEF longer
<1>6. ASSUME NEW i \in DOMAIN longer PROVE longer[i].depth <= h /\ longer[i].depth > 0
  <2>1. CASE i = Len(list) + 1
    BY <1>1, <1>3, <2>1 DEF longer
  <2>2. CASE i \in 1 .. Len(list)
    <3>1. longer[i] = list[i]
      BY <1>1, <2>2 DEF longer
    <3>2. PICK y \in Int : y = list[i].depth
      BY <1>5, <2>2
    <3>3. y <= d /\ y > 0
      BY <1>1, <2>2, <3>2 DEF DepthIs
    <3>4. y <= h
      BY <1>3, <3>3
    <3> QED
      BY <3>1, <3>2, <3>3, <3>4
  <2> QED
    BY <1>1, <1>4, <2>1, <2>2 DEF longer
<1>7. h = 0 \/ \E i \in DOMAIN longer : h = longer[i].depth
  <2>1. CASE h = x
    <3>1. Len(list) + 1 \in DOMAIN longer
      BY <1>1 DEF longer
    <3> QED
      BY <1>1, <2>1, <3>1 DEF longer
  <2>2. CASE h = d
    <3>1. CASE d = 0
      BY <2>2, <3>1
    <3>2. CASE d # 0
      <4>1. PICK i \in DOMAIN list : d = list[i].depth
        BY <3>2 DEF DepthIs
      <4>2. i \in DOMAIN longer /\ longer[i] = list[i]
        BY <1>1, <4>1 DEF longer
      <4> QED
        BY <2>2, <4>1, <4>2
    <3> QED
      BY <3>1, <3>2
  <2> QED
    BY <1>3, <2>1, <2>2
<1>8. h >= 0
  BY <1>3 DEF DepthIs
<1>9. DepthIs(longer, h)
  BY <1>6, <1>7, <1>8 DEF DepthIs
<1> QED
  BY <1>1, <1>2, <1>9 DEF longer, h

\* The scan of the episodes goes with the scan of the drawdown.
GoesWith(s, dd) ==
  /\ s.peak.equity = dd.peak
  /\ s.under => s.trough.equity < s.peak.equity
  /\ \E d \in Int : /\ DepthIs(s.episodes, d)
                    /\ dd.deepest = HigherOf(d, IF s.under THEN s.peak.equity - s.trough.equity ELSE 0)
  /\ \A i \in DOMAIN s.episodes : s.episodes[i].recoveryTime # None

LEMMA GoesOn ==
  ASSUME NEW s \in Scans, NEW dd \in Falls, GoesWith(s, dd), NEW p \in Points
  PROVE  GoesWith(Step(s, p), Fall(dd, p))
<1> DEFINE t == Step(s, p)
           ee == Fall(dd, p)
<1> SUFFICES GoesWith(t, ee)
  OBVIOUS
<1>1. /\ s.episodes \in Seq(EpisodeSet) /\ s.peak \in Points /\ s.trough \in Points
      /\ s.under \in BOOLEAN /\ p.time \in Nat
  BY ScanFields DEF Points
<1>2. PICK a \in Int, b \in Int, x \in Int : a = s.peak.equity /\ b = s.trough.equity /\ x = p.equity
  BY ScanFields, FallIs
<1>3. dd.peak = a /\ (s.under => b < a)
  BY <1>2 DEF GoesWith
<1>4. PICK d \in Int : /\ DepthIs(s.episodes, d)
                       /\ dd.deepest = HigherOf(d, IF s.under THEN a - b ELSE 0)
  BY <1>2 DEF GoesWith
<1>5. d >= 0
  BY <1>4 DEF DepthIs
<1>6. PICK m \in Int : m = dd.deepest
  BY FallIs
<1>7. ee.peak = HigherOf(a, x) /\ ee.deepest = HigherOf(m, HigherOf(a, x) - x)
  BY <1>2, <1>3, <1>6, FallIs
<1>8. x >= a => StepsUp(s, p, t)
  BY <1>2, StepIs
<1>9. x < a => StepsDown(s, p, t)
  BY <1>2, StepIs
<1>10. \A i \in DOMAIN s.episodes : s.episodes[i].recoveryTime # None
  BY DEF GoesWith
<1>11. \A i \in DOMAIN s.episodes : s.episodes[i].depth > 0
  BY <1>4 DEF DepthIs
<1> HIDE DEF t, ee
<1>12. CASE x >= a
  <2>1. t.peak = p /\ t.trough = p /\ t.under = FALSE
    BY <1>8, <1>12 DEF StepsUp
  <2>2. ee.peak = x /\ ee.deepest = HigherOf(m, 0)
    BY <1>7, <1>12 DEF HigherOf
  <2>3. CASE s.under
    <3>1. b < a
      BY <1>3, <2>3
    <3>2. PICK e \in EpisodeSet : e = Episode(s.peak, s.trough, p.time) /\ e.depth = a - b
                                  /\ e.recoveryTime = p.time
      <4>1. p.time \in Nat \cup {None}
        BY <1>1
      <4> QED
        BY <1>1, <1>2, <4>1, EpisodeIs
    <3>3. t.episodes = Append(s.episodes, e)
      BY <1>8, <1>12, <2>3, <3>2 DEF StepsUp
    <3>4. PICK y \in Int : y = a - b /\ y > 0
      BY <3>1
    <3>5. DepthIs(t.episodes, HigherOf(d, y))
      BY <1>1, <1>4, <3>2, <3>3, <3>4, OneDeeper
    <3>6. m = HigherOf(d, y)
      BY <1>4, <1>6, <2>3, <3>4
    <3>7. HigherOf(m, 0) = m
      BY <1>5, <3>4, <3>6 DEF HigherOf
    <3>8. ASSUME NEW i \in DOMAIN t.episodes PROVE t.episodes[i].recoveryTime # None
      <4>1. /\ i \in DOMAIN s.episodes => t.episodes[i] = s.episodes[i]
            /\ i \in DOMAIN s.episodes \/ t.episodes[i] = e
        BY <1>1, <3>3
      <4> QED
        BY <1>1, <1>10, <3>2, <4>1, BacktestAssumption
    <3> QED
      BY <1>2, <2>1, <2>2, <3>5, <3>6, <3>7, <3>8 DEF GoesWith
  <2>4. CASE ~ s.under
    <3>1. t.episodes = s.episodes
      BY <1>8, <1>12, <2>4 DEF StepsUp
    <3>2. m = d
      BY <1>4, <1>5, <1>6, <2>4 DEF HigherOf
    <3> QED
      BY <1>2, <1>4, <1>5, <1>10, <2>1, <2>2, <3>1, <3>2 DEF GoesWith
  <2> QED
    BY <1>1, <2>3, <2>4
<1>13. CASE x < a
  <2>1. t.peak = s.peak /\ t.under = TRUE /\ t.episodes = s.episodes
    BY <1>9, <1>13 DEF StepsDown
  <2>2. PICK c \in Int : c = IF s.under /\ x >= b THEN b ELSE x
    OBVIOUS
  <2>3. t.trough.equity = c
    BY <1>2, <1>9, <1>13, <2>2 DEF StepsDown
  <2>4. c < a
    BY <1>3, <1>13, <2>2
  <2>5. ee.peak = a /\ ee.deepest = HigherOf(m, a - x)
    BY <1>7, <1>13 DEF HigherOf
  <2>6. HigherOf(m, a - x) = HigherOf(d, a - c)
    <3>1. CASE s.under
      <4>1. m = HigherOf(d, a - b)
        BY <1>4, <1>6, <3>1
      <4> QED
        BY <2>2, <3>1, <4>1 DEF HigherOf
    <3>2. CASE ~ s.under
      <4>1. m = HigherOf(d, 0) /\ c = x
        BY <1>4, <1>6, <2>2, <3>2
      <4> QED
        BY <1>5, <1>13, <4>1 DEF HigherOf
    <3> QED
      BY <1>1, <3>1, <3>2
  <2> QED
    BY <1>2, <1>4, <1>10, <2>1, <2>3, <2>4, <2>5, <2>6 DEF GoesWith
<1> QED
  BY <1>2, <1>12, <1>13

\* The deepest episode of a curve is as deep as its drawdown; there is one exactly when
\* there is a drawdown, and only the last may not have recovered.
LEMMA EpisodesAre ==
  ASSUME NEW curve \in Seq(Points), curve # <<>>
  PROVE  LET episodes == IdentifyDrawdownEpisodes(curve)
         IN /\ episodes \in Seq(EpisodeSet)
            /\ DepthIs(episodes, MaxDrawdown(curve))
            /\ \A i \in DOMAIN episodes : episodes[i].recoveryTime = None => i = Len(episodes)
<1>1. PICK f : ScansBy(f, curve)
  BY EpisodesScanned
<1>2. PICK g : FallsBy(g, curve)
  BY DrawdownScanned
<1>3. PICK n \in Nat : n = Len(curve) /\ n >= 1 /\ DOMAIN curve = 1 .. n
  BY CurveLength
<1>4. \A k \in 0 .. n : f[k] \in Scans /\ g[k] \in Falls
  BY <1>1, <1>2, <1>3 DEF ScansBy, FallsBy
<1> DEFINE P == {k \in 0 .. n : GoesWith(f[k], g[k])}
<1>5. 0 \in P
  <2>1. Head(curve) \in Points
    OBVIOUS
  <2>2. PICK x \in Int : x = Head(curve).equity
    BY <2>1 DEF Points
  <2>3. f[0].episodes = <<>> /\ f[0].peak = Head(curve) /\ f[0].under = FALSE
    BY <1>1 DEF ScansBy
  <2>4. g[0].peak = x /\ g[0].deepest = 0
    BY <1>2, <2>2 DEF FallsBy
  <2>5. DepthIs(f[0].episodes, 0)
    BY <2>3 DEF DepthIs
  <2>6. HigherOf(0, 0) = 0 /\ 0 \in Int
    BY DEF HigherOf
  <2>7. \A i \in DOMAIN f[0].episodes : f[0].episodes[i].recoveryTime # None
    BY <2>3
  <2>8. GoesWith(f[0], g[0])
    BY <2>2, <2>3, <2>4, <2>5, <2>6, <2>7 DEF GoesWith
  <2> QED
    BY <2>8
<1>6. ASSUME NEW k \in 0 + 1 .. n, k - 1 \in P PROVE k \in P
  <2>1. k \in 1 .. n /\ k \in 0 .. n /\ k - 1 \in 0 .. n
    OBVIOUS
  <2>2. curve[k] \in Points
    BY <1>3, <2>1
  <2>3. f[k] = Step(f[k - 1], curve[k]) /\ g[k] = Fall(g[k - 1], curve[k])
    BY <1>1, <1>2, <1>3, <2>1 DEF ScansBy, FallsBy
  <2>4. GoesWith(f[k - 1], g[k - 1]) /\ f[k - 1] \in Scans /\ g[k - 1] \in Falls
    BY <1>4, <1>6, <2>1
  <2>5. GoesWith(f[k], g[k])
    BY <2>2, <2>3, <2>4, GoesOn
  <2> QED
    BY <2>1, <2>5
<1>7. \A k \in 0 .. n : k \in P
  <2>1. \A k \in 0 + 1 .. n : k - 1 \in P => k \in P
    BY <1>6
  <2> HIDE DEF P
  <2> QED
    BY <1>5, <2>1, IntervalInduction
<1>8. PICK s \in Scans, dd \in Falls : s = f[n] /\ dd = g[n] /\ GoesWith(s, dd)
  BY <1>3, <1>4, <1>7
<1>9. MaxDrawdown(curve) = dd.deepest
  BY <1>2, <1>3, <1>8 DEF FallsBy
<1>10. PICK episodes : episodes = IdentifyDrawdownEpisodes(curve)
  OBVIOUS
<1>11. episodes = IF s.under THEN Append(s.episodes, Episode(s.peak, s.trough, None)) ELSE s.episodes
  BY <1>1, <1>3, <1>8, <1>10 DEF ScansBy
<1>12. /\ s.episodes \in Seq(EpisodeSet) /\ s.peak \in Points /\ s.trough \in Points
       /\ s.under \in BOOLEAN
  BY ScanFields
<1>13. PICK a \in Int, b \in Int : a = s.peak.equity /\ b = s.trough.equity
  BY ScanFields
<1>14. PICK d \in Int : /\ DepthIs(s.episodes, d)
                        /\ dd.deepest = HigherOf(d, IF s.under THEN a - b ELSE 0)
  BY <1>8, <1>13 DEF GoesWith
<1>15. \A i \in DOMAIN s.episodes : s.episodes[i].recoveryTime # None
  BY <1>8 DEF GoesWith
<1>16. CASE s.under
  <2>1. PICK y \in Int : y = a - b /\ y > 0
    BY <1>8, <1>13, <1>16 DEF GoesWith
  <2>2. PICK e \in EpisodeSet : e = Episode(s.peak, s.trough, None) /\ e.depth = y
    <3>1. None \in Nat \cup {None}
      OBVIOUS
    <3> QED
      BY <1>12, <1>13, <2>1, <3>1, EpisodeIs
  <2>3. episodes = Append(s.episodes, e)
    BY <1>11, <1>16, <2>2
  <2>4. DepthIs(episodes, HigherOf(d, y)) /\ episodes \in Seq(EpisodeSet)
    BY <1>12, <1>14, <2>1, <2>2, <2>3, OneDeeper
  <2>5. dd.deepest = HigherOf(d, y)
    BY <1>14, <1>16, <2>1
  <2>6. \A i \in DOMAIN episodes : \/ i \in DOMAIN s.episodes /\ episodes[i] = s.episodes[i]
                                   \/ i = Len(episodes)
    BY <1>12, <2>3
  <2>7. \A i \in DOMAIN episodes : episodes[i].recoveryTime = None => i = Len(episodes)
    BY <1>15, <2>6
  <2> QED
    BY <1>9, <1>10, <2>4, <2>5, <2>7
<1>17. CASE ~ s.under
  <2>1. episodes = s.episodes
    BY <1>11, <1>17
  <2>2. dd.deepest = d
    <3>1. d >= 0
      BY <1>14 DEF DepthIs
    <3> QED
      BY <1>14, <1>17, <3>1 DEF HigherOf
  <2> QED
    BY <1>9, <1>10, <1>12, <1>14, <1>15, <2>1, <2>2
<1> QED
  BY <1>12, <1>16, <1>17

\* The largest of a set is the one that is no smaller than any.
LEMMA LargestOf ==
  ASSUME NEW S, \A x \in S : x \in Int, NEW m \in S, \A x \in S : x <= m
  PROVE  Max(S) = m
<1>1. \A x \in S : m >= x
  OBVIOUS
<1>2. Max(S) \in S /\ \A y \in S : Max(S) >= y
  BY <1>1 DEF Max
<1> QED
  BY <1>2

LEMMA SmallestOf ==
  ASSUME NEW S, \A x \in S : x \in Int, NEW m \in S, \A x \in S : m <= x
  PROVE  Min(S) = m
<1>2. Min(S) \in S /\ \A y \in S : Min(S) <= y
  BY DEF Min
<1> QED
  BY <1>2

\* What DrawdownsAgree says, from what the report and the risk section hold.
LEMMA DrawdownsDo ==
  ASSUME equity_curve \in Seq(Points), equity_curve # <<>>, NEW analytics,
         analytics.overall.maxDrawdown = MaxDrawdown(equity_curve),
         analytics.hasRecovery = (MaxDrawdown(equity_curve) > 0),
         analytics.risk.episodes = IdentifyDrawdownEpisodes(equity_curve),
         analytics.risk.peak = LargestEquityPeak(equity_curve),
         analytics.risk.valley = LargestEquityValley(equity_curve)
  PROVE  DrawdownsAgree(analytics)
<1>1. PICK curve \in Seq(Points) : curve = equity_curve /\ curve # <<>>
  OBVIOUS
<1>2. PICK d \in Int : d = MaxDrawdown(curve) /\ d >= 0 /\ DeepestFall(curve, d)
  BY <1>1, DrawdownIs
<1>3. PICK episodes \in Seq(EpisodeSet) :
        /\ episodes = IdentifyDrawdownEpisodes(curve) /\ DepthIs(episodes, d)
        /\ \A i \in DOMAIN episodes : episodes[i].recoveryTime = None => i = Len(episodes)
  BY <1>1, <1>2, EpisodesAre
<1>4. PICK n \in Nat : n = Len(curve) /\ n >= 1 /\ 1 \in 1 .. n /\ DOMAIN curve = 1 .. n
  BY <1>1, CurveLength
<1>5. \A i \in 1 .. n : curve[i].equity \in Int
  BY <1>4, PointIs
<1> DEFINE at == [i \in DOMAIN equity_curve |-> equity_curve[i].equity]
           U == UNION {{at[i] - at[j] : j \in i .. Len(at)} : i \in DOMAIN at}
<1>6. DOMAIN at = 1 .. n /\ Len(at) = n /\ \A i \in 1 .. n : at[i] = curve[i].equity /\ at[i] \in Int
  BY <1>1, <1>4, <1>5
<1> HIDE DEF at
<1>7. \A x : x \in U <=> \E i \in 1 .. n, j \in 1 .. n : i <= j /\ x = at[i] - at[j]
  <2> DEFINE Row(i) == {at[i] - at[j] : j \in i .. Len(at)}
  <2>1. U = UNION {Row(i) : i \in 1 .. n}
    BY <1>6
  <2>2. \A i \in 1 .. n : \A x : x \in Row(i) <=> \E j \in 1 .. n : i <= j /\ x = at[i] - at[j]
    <3>1. \A i \in 1 .. n : \A j : j \in i .. n <=> j \in 1 .. n /\ i <= j
      OBVIOUS
    <3> QED
      BY <1>6, <3>1
  <2> HIDE DEF U, Row
  <2>3. \A x : x \in U <=> \E i \in 1 .. n : x \in Row(i)
    BY <2>1
  <2> QED
    BY <2>2, <2>3
<1> HIDE DEF U
<1>8. Max(U) = d
  <2>1. \A x \in U : x \in Int
    BY <1>6, <1>7
  <2>2. d \in U
    BY <1>2, <1>4, <1>6, <1>7 DEF DeepestFall
  <2>3. ASSUME NEW x \in U PROVE x <= d
    <3>1. PICK i \in 1 .. n, j \in 1 .. n : i <= j /\ x = at[i] - at[j]
      BY <1>7
    <3> QED
      BY <1>2, <1>4, <1>6, <3>1 DEF DeepestFall
  <2> QED
    BY <2>1, <2>2, <2>3, LargestOf
<1>9. Longest([i \in DOMAIN episodes |-> episodes[i].depth]) = d
  <2> DEFINE depths == {0} \cup {[i \in DOMAIN episodes |-> episodes[i].depth][k] :
                                   k \in DOMAIN [i \in DOMAIN episodes |-> episodes[i].depth]}
  <2>1. depths = {0} \cup {episodes[k].depth : k \in DOMAIN episodes}
    OBVIOUS
  <2>2. \A k \in DOMAIN episodes : episodes[k].depth \in Int
    <3>1. \A k \in DOMAIN episodes : episodes[k] \in EpisodeSet
      OBVIOUS
    <3> QED
      BY <3>1 DEF EpisodeSet
  <2>3. \A x \in depths : x \in Int /\ x <= d
    BY <1>2, <1>3, <2>1, <2>2 DEF DepthIs
  <2>4. d \in depths
    BY <1>3, <2>1 DEF DepthIs
  <2> HIDE DEF depths
  <2>5. Max(depths) = d
    BY <2>3, <2>4, LargestOf
  <2> QED
    BY <2>5 DEF Longest, depths
<1>10. d > 0 <=> episodes # <<>>
  <2>1. CASE episodes = <<>>
    <3>1. DOMAIN episodes = {}
      BY <2>1
    <3> QED
      BY <1>3, <2>1, <3>1 DEF DepthIs
  <2>2. CASE episodes # <<>>
    <3>1. 1 \in DOMAIN episodes
      BY <2>2
    <3>2. episodes[1] \in EpisodeSet
      BY <3>1
    <3>3. PICK x \in Int : x = episodes[1].depth
      BY <3>2 DEF EpisodeSet
    <3>4. x <= d /\ x > 0
      BY <1>3, <3>1, <3>3 DEF DepthIs
    <3> QED
      BY <2>2, <3>4
  <2> QED
    BY <2>1, <2>2
<1>11. PICK top \in Int, low \in Int :
         /\ top = analytics.risk.peak /\ low = analytics.risk.valley
         /\ \A i \in 1 .. n : curve[i].equity <= top /\ low <= curve[i].equity
  <2> DEFINE E == Equities(curve)
  <2>1. E = {curve[i].equity : i \in 1 .. n}
    BY <1>4 DEF Equities
  <2>2. IsFiniteSet(E) /\ E # {} /\ \A x \in E : x \in Int
    <3>1. IsFiniteSet(1 .. n)
      BY FS_Interval
    <3>2. IsFiniteSet({at[i] : i \in 1 .. n})
      BY <3>1, ImageFinite
    <3>3. E = {at[i] : i \in 1 .. n}
      BY <1>6, <2>1
    <3> QED
      BY <1>4, <1>5, <2>1, <3>2, <3>3
  <2>3. Max(E) \in E /\ Min(E) \in E /\ \A y \in E : Max(E) >= y /\ Min(E) <= y
    <3> HIDE DEF E
    <3> QED
      BY <2>2, MaxMinOf
  <2>4. analytics.risk.peak = Max(E) /\ analytics.risk.valley = Min(E)
    BY <1>1 DEF LargestEquityPeak, LargestEquityValley
  <2>5. \A i \in 1 .. n : curve[i].equity \in E
    BY <2>1
  <2>6. PICK top \in Int, low \in Int : top = Max(E) /\ low = Min(E)
    BY <2>2, <2>3
  <2>7. ASSUME NEW i \in 1 .. n PROVE curve[i].equity <= top /\ low <= curve[i].equity
    BY <1>5, <2>3, <2>5, <2>6
  <2> QED
    BY <2>4, <2>6, <2>7
<1>12. d <= top - low
  <2>1. PICK i \in 1 .. n, j \in 1 .. n : d = curve[i].equity - curve[j].equity
    BY <1>2, <1>4 DEF DeepestFall
  <2>2. PICK x \in Int, y \in Int : x = curve[i].equity /\ y = curve[j].equity
    BY <1>5
  <2>3. x <= top /\ low <= y
    BY <1>11, <2>2
  <2> QED
    BY <2>1, <2>2, <2>3
<1>15. analytics.hasRecovery <=> episodes # <<>>
  BY <1>1, <1>2, <1>10
<1>16. analytics.overall.maxDrawdown = d /\ analytics.risk.episodes = episodes
  BY <1>1, <1>2, <1>3
<1>17. d <= analytics.risk.peak - analytics.risk.valley
  BY <1>11, <1>12
<1> QED
  BY <1>3, <1>8, <1>9, <1>15, <1>16, <1>17, Zenon DEF DrawdownsAgree, at, U

-----------------------------------------------------------------------------
(* Streaks *)

\* A list and one more number add up to that much more.
LEMMA SumOfAppended ==
  ASSUME NEW list \in Seq(Nat), NEW x \in Nat
  PROVE  /\ SumOf(list) \in Int
         /\ SumOf(Append(list, x)) = SumOf(list) + x
<1> DEFINE D == DOMAIN list
           n == Len(list) + 1
           longer == Append(list, x)
<1>1. /\ D = 1 .. Len(list) /\ Len(list) \in Nat /\ DOMAIN longer = 1 .. n
      /\ longer[n] = x /\ \A i \in D : longer[i] = list[i] /\ list[i] \in Nat
  OBVIOUS
<1>2. IsFiniteSet(D) /\ n \notin D /\ DOMAIN longer = D \cup {n}
  BY <1>1, Prefix
<1>3. SumOf(list) = SumOn(list, D) /\ SumOf(longer) = SumOn(longer, DOMAIN longer)
  BY DEF SumOf, SumOn, FoldFunction
<1>4. \A i \in D \cup {n} : longer[i] \in Int
  BY <1>1
<1> HIDE DEF longer, D, n
<1>5. SumOn(longer, D \cup {n}) = SumOn(longer, D) + longer[n]
  BY <1>2, <1>4, SumAdd
<1>6. SumOn(longer, D) = SumOn(list, D)
  BY <1>1, <1>2, SumOnSame
<1>7. SumOn(list, D) \in Int
  <2>1. \A i \in D : list[i] \in Int
    BY <1>1
  <2> QED
    BY <1>2, <2>1, SumType
<1> QED
  BY <1>1, <1>2, <1>3, <1>5, <1>6, <1>7 DEF longer

\* x is the longest of some lengths.
LongestIs(list, x) ==
  /\ x = 0 \/ \E i \in DOMAIN list : x = list[i]
  /\ \A i \in DOMAIN list : list[i] <= x

\* The streaks of one kind that are over, the one that is open, the longest and their total.
Tallied(list, open, longest, total) ==
  /\ \E x \in Nat : LongestIs(list, x) /\ longest = HigherOf(x, open)
  /\ SumOf(list) + open = total

LEMMA TallyGrows ==
  ASSUME NEW list \in Seq(Nat), NEW open \in Nat, NEW longest, NEW total,
         Tallied(list, open, longest, total)
  PROVE  Tallied(list, open + 1, HigherOf(longest, open + 1), total + 1)
<1>1. PICK x \in Nat : LongestIs(list, x) /\ longest = HigherOf(x, open)
  BY DEF Tallied
<1>2. HigherOf(longest, open + 1) = HigherOf(x, open + 1)
  BY <1>1 DEF HigherOf
<1>3. PICK sum \in Int : sum = SumOf(list)
  BY SumOfAppended
<1>4. sum + open = total
  BY <1>3 DEF Tallied
<1>5. sum + (open + 1) = total + 1
  BY <1>4
<1> QED
  BY <1>1, <1>2, <1>3, <1>5 DEF Tallied

\* A streak that is over goes to the list, if there was one.
Filed(list, open) == IF open > 0 THEN Append(list, open) ELSE list

LEMMA TallyFiled ==
  ASSUME NEW list \in Seq(Nat), NEW open \in Nat, NEW longest, NEW total,
         Tallied(list, open, longest, total)
  PROVE  /\ Filed(list, open) \in Seq(Nat)
         /\ Tallied(Filed(list, open), 0, HigherOf(longest, 0), total)
         /\ LongestIs(Filed(list, open), longest) /\ longest \in Nat
         /\ SumOf(Filed(list, open)) = total
<1>1. PICK x \in Nat : LongestIs(list, x) /\ longest = HigherOf(x, open)
  BY DEF Tallied
<1>2. longest \in Nat /\ HigherOf(longest, 0) = longest /\ longest >= x /\ longest >= open
      /\ (longest = x \/ longest = open)
  BY <1>1 DEF HigherOf
<1>3. Filed(list, open) \in Seq(Nat)
  BY DEF Filed
<1>4. PICK sum \in Int : sum = SumOf(list)
  BY SumOfAppended
<1>5. sum + open = total
  BY <1>4 DEF Tallied
<1>6. SumOf(Filed(list, open)) = total
  <2>1. SumOf(Append(list, open)) = SumOf(list) + open
    BY SumOfAppended
  <2> QED
    BY <1>4, <1>5, <2>1 DEF Filed
<1>7. LongestIs(Filed(list, open), longest)
  <2>1. CASE open = 0
    BY <1>1, <1>2, <2>1 DEF Filed, HigherOf
  <2>2. CASE open > 0
    <3> DEFINE longer == Append(list, open)
               m == Len(list) + 1
    <3>1. /\ DOMAIN list = 1 .. Len(list) /\ DOMAIN longer = 1 .. m /\ longer[m] = open
          /\ m \in DOMAIN longer
          /\ \A i \in DOMAIN list : longer[i] = list[i] /\ i \in DOMAIN longer /\ list[i] \in Nat
          /\ \A i \in DOMAIN longer : i \in DOMAIN list \/ i = m
      OBVIOUS
    <3>2. Filed(list, open) = longer
      BY <2>2 DEF Filed
    <3> HIDE DEF longer, m
    <3>3. longest = 0 \/ \E i \in DOMAIN longer : longest = longer[i]
      BY <1>1, <1>2, <3>1 DEF LongestIs
    <3>4. ASSUME NEW i \in DOMAIN longer PROVE longer[i] <= longest
      <4>1. CASE i = m
        BY <1>2, <3>1, <4>1
      <4>2. CASE i \in DOMAIN list
        <5>1. PICK y \in Nat : y = list[i] /\ y = longer[i]
          BY <3>1, <4>2
        <5>2. y <= x
          BY <1>1, <4>2, <5>1 DEF LongestIs
        <5> QED
          BY <1>2, <5>1, <5>2
      <4> QED
        BY <3>1, <4>1, <4>2
    <3> QED
      BY <3>2, <3>3, <3>4 DEF LongestIs
  <2> QED
    BY <2>1, <2>2
<1>8. HigherOf(longest, 0) = HigherOf(longest, 0) /\ SumOf(Filed(list, open)) + 0 = total
  BY <1>5, <1>6
<1> QED
  BY <1>2, <1>3, <1>6, <1>7, <1>8 DEF Tallied

\* The counters of CalculateStreaks, and the states of AllStreakLengths.
StreakCounts == [win : Nat, loss : Nat, maxWin : Nat, maxLoss : Nat]

Current(won, n) == [won |-> won, length |-> n]
Currents == {NoStreak} \cup {Current(TRUE, n) : n \in Nat \ {0}} \cup {Current(FALSE, n) : n \in Nat \ {0}}
Runs == [winning : Seq(Nat), losing : Seq(Nat), current : Currents]

\* How long the open streak is, if it is one of wins, or of losses.
OpenWins(c) == IF c = NoStreak THEN 0 ELSE IF c.won THEN c.length ELSE 0
OpenLosses(c) == IF c = NoStreak THEN 0 ELSE IF c.won THEN 0 ELSE c.length

LEMMA CountStreakIs ==
  ASSUME NEW s \in StreakCounts, NEW t \in Positions
  PROVE  LET w == IF t.pnl > 0 THEN s.win + 1 ELSE 0
             l == IF t.pnl < 0 THEN s.loss + 1 ELSE 0
         IN /\ CountStreak(s, t) = [win |-> w, loss |-> l, maxWin |-> HigherOf(s.maxWin, w),
                                    maxLoss |-> HigherOf(s.maxLoss, l)]
            /\ CountStreak(s, t) \in StreakCounts
<1> DEFINE w == IF t.pnl > 0 THEN s.win + 1 ELSE 0
           l == IF t.pnl < 0 THEN s.loss + 1 ELSE 0
<1>1. s.win \in Nat /\ s.loss \in Nat /\ s.maxWin \in Nat /\ s.maxLoss \in Nat
  BY DEF StreakCounts
<1>2. w \in Nat /\ l \in Nat
  BY <1>1
<1>3. CountStreak(s, t) = [win |-> w, loss |-> l, maxWin |-> HigherOf(s.maxWin, w),
                           maxLoss |-> HigherOf(s.maxLoss, l)]
  BY DEF CountStreak
<1> HIDE DEF w, l
<1>4. HigherOf(s.maxWin, w) \in Nat /\ HigherOf(s.maxLoss, l) \in Nat
  BY <1>1, <1>2 DEF HigherOf
<1>5. CountStreak(s, t) \in StreakCounts
  BY <1>2, <1>3, <1>4 DEF StreakCounts
<1> QED
  BY <1>3, <1>5 DEF w, l

\* A current streak is none, one of wins or one of losses.
LEMMA CurrentIs ==
  ASSUME NEW c \in Currents
  PROVE  /\ OpenWins(c) \in Nat /\ OpenLosses(c) \in Nat
         /\ \/ c = NoStreak /\ OpenWins(c) = 0 /\ OpenLosses(c) = 0
            \/ \E n \in Nat \ {0} : /\ c = Current(TRUE, n) /\ c # NoStreak
                                    /\ OpenWins(c) = n /\ OpenLosses(c) = 0
            \/ \E n \in Nat \ {0} : /\ c = Current(FALSE, n) /\ c # NoStreak
                                    /\ OpenWins(c) = 0 /\ OpenLosses(c) = n
<1>1. CASE c = NoStreak
  BY <1>1 DEF OpenWins, OpenLosses
<1>2. ASSUME NEW n \in Nat \ {0}, c = Current(TRUE, n)
      PROVE  c # NoStreak /\ OpenWins(c) = n /\ OpenLosses(c) = 0
  <2>1. c.length = n /\ NoStreak.length = 0
    BY <1>2 DEF Current, NoStreak
  <2>2. c # NoStreak
    BY <2>1
  <2>3. c.won
    BY <1>2, Zenon DEF Current
  <2> QED
    BY <2>1, <2>2, <2>3 DEF OpenWins, OpenLosses
<1>3. ASSUME NEW n \in Nat \ {0}, c = Current(FALSE, n)
      PROVE  c # NoStreak /\ OpenWins(c) = 0 /\ OpenLosses(c) = n
  <2>1. c.length = n /\ NoStreak.length = 0
    BY <1>3 DEF Current, NoStreak
  <2>2. c # NoStreak
    BY <2>1
  <2>3. ~ c.won
    BY <1>3, Zenon DEF Current
  <2> QED
    BY <2>1, <2>2, <2>3 DEF OpenWins, OpenLosses
<1>4. \/ c = NoStreak \/ \E n \in Nat \ {0} : c = Current(TRUE, n)
      \/ \E n \in Nat \ {0} : c = Current(FALSE, n)
  BY DEF Currents
<1>5. 0 \in Nat /\ \A n \in Nat \ {0} : n \in Nat
  OBVIOUS
<1> QED
  BY <1>1, <1>2, <1>3, <1>4, <1>5, Zenon

LEMMA RunFields ==
  ASSUME NEW s \in Runs
  PROVE  s.winning \in Seq(Nat) /\ s.losing \in Seq(Nat) /\ s.current \in Currents
BY DEF Runs

\* A streak that breaks is filed with its kind.
LEMMA FileStreakIs ==
  ASSUME NEW s \in Runs
  PROVE  FileStreak(s) = [winning |-> Filed(s.winning, OpenWins(s.current)),
                          losing |-> Filed(s.losing, OpenLosses(s.current)),
                          current |-> s.current]
<1>1. s.winning \in Seq(Nat) /\ s.losing \in Seq(Nat) /\ s.current \in Currents
  BY RunFields
<1>2. PICK a, b, c : s = [winning |-> a, losing |-> b, current |-> c]
  BY Zenon DEF Runs
<1>3. a = s.winning /\ b = s.losing /\ c = s.current /\ c \in Currents
  BY <1>1, <1>2
<1>4. CASE c = NoStreak
  <2>1. FileStreak(s) = s
    BY <1>3, <1>4, Zenon DEF FileStreak
  <2>2. OpenWins(c) = 0 /\ OpenLosses(c) = 0
    BY <1>4 DEF OpenWins, OpenLosses
  <2> QED
    BY <1>2, <1>3, <2>1, <2>2 DEF Filed
<1>5. ASSUME NEW n \in Nat \ {0}, c = Current(TRUE, n), c # NoStreak, OpenWins(c) = n, OpenLosses(c) = 0
      PROVE  FileStreak(s) = [winning |-> Filed(a, n), losing |-> Filed(b, 0), current |-> c]
  <2>1. c.won
    BY <1>5, Zenon DEF Current
  <2>2. c.length = n
    BY <1>5 DEF Current
  <2>3. FileStreak(s) = [s EXCEPT !.winning = Append(@, s.current.length)]
    BY <1>3, <1>5, <2>1, Zenon DEF FileStreak
  <2>4. s.current.length = n
    BY <1>3, <2>2
  <2>5. FileStreak(s) = [s EXCEPT !.winning = Append(@, n)]
    BY <2>3, <2>4, Zenon
  <2>6. [s EXCEPT !.winning = Append(@, n)] = [winning |-> Append(a, n), losing |-> b, current |-> c]
    BY <1>2
  <2>7. Filed(a, n) = Append(a, n) /\ Filed(b, 0) = b
    BY DEF Filed
  <2> QED
    BY <2>5, <2>6, <2>7, Zenon
<1>6. ASSUME NEW n \in Nat \ {0}, c = Current(FALSE, n), c # NoStreak, OpenWins(c) = 0, OpenLosses(c) = n
      PROVE  FileStreak(s) = [winning |-> Filed(a, 0), losing |-> Filed(b, n), current |-> c]
  <2>1. ~ c.won
    BY <1>6, Zenon DEF Current
  <2>2. c.length = n
    BY <1>6 DEF Current
  <2>3. FileStreak(s) = [s EXCEPT !.losing = Append(@, s.current.length)]
    BY <1>3, <1>6, <2>1, Zenon DEF FileStreak
  <2>4. s.current.length = n
    BY <1>3, <2>2
  <2>5. FileStreak(s) = [s EXCEPT !.losing = Append(@, n)]
    BY <2>3, <2>4, Zenon
  <2>6. [s EXCEPT !.losing = Append(@, n)] = [winning |-> a, losing |-> Append(b, n), current |-> c]
    BY <1>2
  <2>7. Filed(a, 0) = a /\ Filed(b, n) = Append(b, n)
    BY DEF Filed
  <2> QED
    BY <2>5, <2>6, <2>7, Zenon
<1> QED
  BY <1>3, <1>4, <1>5, <1>6, CurrentIs, Zenon

\* What one trade does to the streaks of each kind.
StreakMoves(s, pnl, t) ==
  /\ t.winning = IF pnl > 0 THEN s.winning ELSE Filed(s.winning, OpenWins(s.current))
  /\ t.losing = IF pnl < 0 THEN s.losing ELSE Filed(s.losing, OpenLosses(s.current))
  /\ OpenWins(t.current) = IF pnl > 0 THEN OpenWins(s.current) + 1 ELSE 0
  /\ OpenLosses(t.current) = IF pnl < 0 THEN OpenLosses(s.current) + 1 ELSE 0

LEMMA StreakIs ==
  ASSUME NEW s \in Runs, NEW trade \in Positions
  PROVE  Streak(s, trade) \in Runs /\ StreakMoves(s, trade.pnl, Streak(s, trade))
<1>1. s.winning \in Seq(Nat) /\ s.losing \in Seq(Nat) /\ s.current \in Currents
  BY RunFields
<1>2. PICK a, b, c : s = [winning |-> a, losing |-> b, current |-> c]
  BY Zenon DEF Runs
<1>3. a = s.winning /\ b = s.losing /\ c = s.current /\ c \in Currents
  BY <1>1, <1>2
<1>4. PICK w \in Nat, l \in Nat : w = OpenWins(c) /\ l = OpenLosses(c)
  BY <1>3, CurrentIs
<1>5. PICK pnl \in Int : pnl = trade.pnl
  BY TradeFields
<1>6. PICK fa, fb : fa = Filed(a, w) /\ fb = Filed(b, l)
  OBVIOUS
<1>7. FileStreak(s) = [winning |-> fa, losing |-> fb, current |-> c]
  BY <1>3, <1>4, <1>6, FileStreakIs
<1>8. fa \in Seq(Nat) /\ fb \in Seq(Nat)
  BY <1>1, <1>3, <1>6 DEF Filed
<1>9. /\ w = 0 => fa = a
      /\ l = 0 => fb = b
  BY <1>6 DEF Filed
\* It is enough to know the record a trade leads to, and its open streak.
<1>10. ASSUME NEW x \in Seq(Nat), NEW y \in Seq(Nat), NEW d \in Currents,
              Streak(s, trade) = [winning |-> x, losing |-> y, current |-> d],
              x = (IF pnl > 0 THEN a ELSE fa), y = (IF pnl < 0 THEN b ELSE fb),
              OpenWins(d) = (IF pnl > 0 THEN w + 1 ELSE 0),
              OpenLosses(d) = (IF pnl < 0 THEN l + 1 ELSE 0)
       PROVE  Streak(s, trade) \in Runs /\ StreakMoves(s, trade.pnl, Streak(s, trade))
  <2>1. PICK t : t = Streak(s, trade) /\ t = [winning |-> x, losing |-> y, current |-> d]
    BY <1>10
  <2>2. t.winning = x /\ t.losing = y /\ t.current = d
    BY <2>1
  <2>3. t \in Runs
    BY <2>1 DEF Runs
  <2>4. StreakMoves(s, pnl, t)
    BY <1>3, <1>4, <1>6, <1>10, <2>2, Zenon DEF StreakMoves
  <2> QED
    BY <1>5, <2>1, <2>3, <2>4
<1>11. CASE pnl = 0
  <2>1. NoStreak \in Currents /\ OpenWins(NoStreak) = 0 /\ OpenLosses(NoStreak) = 0
    BY DEF Currents, OpenWins, OpenLosses
  <2>2. Streak(s, trade) = [FileStreak(s) EXCEPT !.current = NoStreak]
    BY <1>5, <1>11 DEF Streak
  <2>3. Streak(s, trade) = [winning |-> fa, losing |-> fb, current |-> NoStreak]
    BY <1>7, <2>2
  <2> QED
    BY <1>8, <1>10, <1>11, <2>1, <2>3
<1>12. ASSUME NEW n \in Nat \ {0}, NEW won \in BOOLEAN
       PROVE  /\ Current(won, n) \in Currents /\ Current(won, n) # NoStreak
              /\ OpenWins(Current(won, n)) = (IF won THEN n ELSE 0)
              /\ OpenLosses(Current(won, n)) = (IF won THEN 0 ELSE n)
  <2>1. Current(won, n).length = n /\ NoStreak.length = 0
    BY DEF Current, NoStreak
  <2>2. Current(won, n) # NoStreak
    BY <2>1
  <2>3. Current(won, n).won = won
    BY DEF Current
  <2>4. CASE won = TRUE
    <3>1. Current(won, n) \in Currents
      BY <2>4 DEF Currents
    <3>2. Current(won, n).won
      BY <2>3, <2>4, Zenon
    <3> QED
      BY <2>1, <2>2, <2>4, <3>1, <3>2 DEF OpenWins, OpenLosses
  <2>5. CASE won = FALSE
    <3>1. Current(won, n) \in Currents
      BY <2>5 DEF Currents
    <3>2. ~ Current(won, n).won
      BY <2>3, <2>5, Zenon
    <3> QED
      BY <2>1, <2>2, <2>5, <3>1, <3>2 DEF OpenWins, OpenLosses
  <2> QED
    BY <2>4, <2>5, Zenon
\* A trade of the kind of the open streak, and one that starts a streak.
<1>13. ASSUME NEW won \in BOOLEAN, won = (pnl > 0), pnl # 0, c # NoStreak, c.won = won
       PROVE  Streak(s, trade) = [s EXCEPT !.current.length = @ + 1]
  <2>1. (IF pnl > 0 THEN TRUE ELSE FALSE) = won
    BY <1>13
  <2>2. s.current # NoStreak /\ s.current.won = (IF trade.pnl > 0 THEN TRUE ELSE FALSE)
    BY <1>3, <1>5, <1>13, <2>1, Zenon
  <2>3. trade.pnl # 0
    BY <1>5, <1>13
  <2> QED
    BY <2>2, <2>3, Zenon DEF Streak
<1>14. ASSUME NEW won \in BOOLEAN, won = (pnl > 0), pnl # 0, ~ (c # NoStreak /\ c.won = won)
       PROVE  Streak(s, trade) = [winning |-> fa, losing |-> fb, current |-> Current(won, 1)]
  <2>1. (IF pnl > 0 THEN TRUE ELSE FALSE) = won
    BY <1>14
  <2>2. /\ ~ (s.current # NoStreak /\ s.current.won = (IF trade.pnl > 0 THEN TRUE ELSE FALSE))
        /\ (IF trade.pnl > 0 THEN TRUE ELSE FALSE) = won
    BY <1>3, <1>5, <1>14, <2>1, Zenon
  <2>3. trade.pnl # 0
    BY <1>5, <1>14
  <2>4. Streak(s, trade) = [FileStreak(s) EXCEPT !.current = [won |-> won, length |-> 1]]
    BY <2>2, <2>3, Zenon DEF Streak
  <2>5. PICK d : d = [won |-> won, length |-> 1] /\ d = Current(won, 1)
    BY DEF Current
  <2>6. Streak(s, trade) = [FileStreak(s) EXCEPT !.current = d]
    BY <2>4, <2>5, Zenon
  <2> QED
    BY <1>7, <2>5, <2>6
<1>15. ASSUME NEW won \in BOOLEAN, NEW n \in Nat \ {0}, c = Current(won, n)
       PROVE  /\ c.won = won
              /\ [s EXCEPT !.current.length = @ + 1]
                   = [winning |-> a, losing |-> b, current |-> Current(won, n + 1)]
  <2>1. c.won = won
    BY <1>15 DEF Current
  <2>2. s = [winning |-> a, losing |-> b, current |-> [won |-> won, length |-> n]]
    BY <1>2, <1>15 DEF Current
  <2>3. [s EXCEPT !.current.length = @ + 1]
          = [winning |-> a, losing |-> b, current |-> [won |-> won, length |-> n + 1]]
    BY <2>2
  <2> QED
    BY <2>1, <2>3 DEF Current
<1>16. CASE pnl > 0
  <2>1. TRUE = (pnl > 0) /\ pnl # 0
    BY <1>16
  <2>2. CASE c # NoStreak /\ c.won = TRUE
    <3>1. PICK n \in Nat \ {0} : c = Current(TRUE, n) /\ w = n /\ l = 0
      <4>1. ASSUME NEW n \in Nat \ {0}, c = Current(FALSE, n)
            PROVE  FALSE
        BY <1>15, <2>2, <4>1, Zenon
      <4> QED
        BY <1>3, <1>4, <2>2, <4>1, CurrentIs, Zenon
    <3>2. Streak(s, trade) = [winning |-> a, losing |-> b, current |-> Current(TRUE, n + 1)]
      BY <1>13, <1>15, <2>1, <2>2, <3>1, Zenon
    <3>3. n + 1 \in Nat \ {0}
      OBVIOUS
    <3>4. /\ Current(TRUE, n + 1) \in Currents
          /\ OpenWins(Current(TRUE, n + 1)) = n + 1 /\ OpenLosses(Current(TRUE, n + 1)) = 0
      BY <1>12, <3>3, Zenon
    <3>5. a \in Seq(Nat) /\ b \in Seq(Nat)
      BY <1>1, <1>3, <1>8, <1>9
    <3>6. a = (IF pnl > 0 THEN a ELSE fa) /\ b = (IF pnl < 0 THEN b ELSE fb)
      BY <1>9, <1>16, <3>1
    <3>7. OpenWins(Current(TRUE, n + 1)) = (IF pnl > 0 THEN w + 1 ELSE 0)
      <4>1. (IF pnl > 0 THEN w + 1 ELSE 0) = n + 1
        BY <1>4, <1>5, <1>16, <3>1
      <4> QED
        BY <3>4, <4>1, Zenon
    <3>8. OpenLosses(Current(TRUE, n + 1)) = (IF pnl < 0 THEN l + 1 ELSE 0)
      <4>1. (IF pnl < 0 THEN l + 1 ELSE 0) = 0
        BY <1>4, <1>5, <1>16
      <4> QED
        BY <3>4, <4>1, Zenon
    <3> QED
      BY <1>10, <3>2, <3>4, <3>5, <3>6, <3>7, <3>8, Zenon
  <2>3. CASE ~ (c # NoStreak /\ c.won = TRUE)
    <3>1. w = 0
      <4>1. ASSUME NEW n \in Nat \ {0}, c = Current(TRUE, n), c # NoStreak
            PROVE  FALSE
        BY <1>15, <2>3, <4>1, Zenon
      <4> QED
        BY <1>3, <1>4, <4>1, CurrentIs, Zenon
    <3>2. Streak(s, trade) = [winning |-> fa, losing |-> fb, current |-> Current(TRUE, 1)]
      BY <1>14, <2>1, <2>3, Zenon
    <3>3. 1 \in Nat \ {0}
      OBVIOUS
    <3>4. /\ Current(TRUE, 1) \in Currents
          /\ OpenWins(Current(TRUE, 1)) = 1 /\ OpenLosses(Current(TRUE, 1)) = 0
      BY <1>12, <3>3, Zenon
    <3>5. fa \in Seq(Nat) /\ fb \in Seq(Nat)
      BY <1>1, <1>3, <1>8, <1>9
    <3>6. fa = (IF pnl > 0 THEN a ELSE fa) /\ fb = (IF pnl < 0 THEN b ELSE fb)
      BY <1>9, <1>16, <3>1
    <3>7. OpenWins(Current(TRUE, 1)) = (IF pnl > 0 THEN w + 1 ELSE 0)
      <4>1. (IF pnl > 0 THEN w + 1 ELSE 0) = 1
        BY <1>4, <1>5, <1>16, <3>1
      <4> QED
        BY <3>4, <4>1, Zenon
    <3>8. OpenLosses(Current(TRUE, 1)) = (IF pnl < 0 THEN l + 1 ELSE 0)
      <4>1. (IF pnl < 0 THEN l + 1 ELSE 0) = 0
        BY <1>4, <1>5, <1>16
      <4> QED
        BY <3>4, <4>1, Zenon
    <3> QED
      BY <1>10, <3>2, <3>4, <3>5, <3>6, <3>7, <3>8, Zenon
  <2> QED
    BY <2>2, <2>3
<1>17. CASE pnl < 0
  <2>1. FALSE = (pnl > 0) /\ pnl # 0
    BY <1>17
  <2>2. CASE c # NoStreak /\ c.won = FALSE
    <3>1. PICK n \in Nat \ {0} : c = Current(FALSE, n) /\ w = 0 /\ l = n
      <4>1. ASSUME NEW n \in Nat \ {0}, c = Current(TRUE, n)
            PROVE  FALSE
        BY <1>15, <2>2, <4>1, Zenon
      <4> QED
        BY <1>3, <1>4, <2>2, <4>1, CurrentIs, Zenon
    <3>2. Streak(s, trade) = [winning |-> a, losing |-> b, current |-> Current(FALSE, n + 1)]
      BY <1>13, <1>15, <2>1, <2>2, <3>1, Zenon
    <3>3. n + 1 \in Nat \ {0}
      OBVIOUS
    <3>4. /\ Current(FALSE, n + 1) \in Currents
          /\ OpenWins(Current(FALSE, n + 1)) = 0 /\ OpenLosses(Current(FALSE, n + 1)) = n + 1
      BY <1>12, <3>3, Zenon
    <3>5. a \in Seq(Nat) /\ b \in Seq(Nat)
      BY <1>1, <1>3, <1>8, <1>9
    <3>6. a = (IF pnl > 0 THEN a ELSE fa) /\ b = (IF pnl < 0 THEN b ELSE fb)
      BY <1>9, <1>17, <3>1
    <3>7. OpenWins(Current(FALSE, n + 1)) = (IF pnl > 0 THEN w + 1 ELSE 0)
      <4>1. (IF pnl > 0 THEN w + 1 ELSE 0) = 0
        BY <1>4, <1>5, <1>17
      <4> QED
        BY <3>4, <4>1, Zenon
    <3>8. OpenLosses(Current(FALSE, n + 1)) = (IF pnl < 0 THEN l + 1 ELSE 0)
      <4>1. (IF pnl < 0 THEN l + 1 ELSE 0) = n + 1
        BY <1>4, <1>5, <1>17, <3>1
      <4> QED
        BY <3>4, <4>1, Zenon
    <3> QED
      BY <1>10, <3>2, <3>4, <3>5, <3>6, <3>7, <3>8, Zenon
  <2>3. CASE ~ (c # NoStreak /\ c.won = FALSE)
    <3>1. l = 0
      <4>1. ASSUME NEW n \in Nat \ {0}, c = Current(FALSE, n), c # NoStreak
            PROVE  FALSE
        BY <1>15, <2>3, <4>1, Zenon
      <4> QED
        BY <1>3, <1>4, <4>1, CurrentIs, Zenon
    <3>2. Streak(s, trade) = [winning |-> fa, losing |-> fb, current |-> Current(FALSE, 1)]
      BY <1>14, <2>1, <2>3, Zenon
    <3>3. 1 \in Nat \ {0}
      OBVIOUS
    <3>4. /\ Current(FALSE, 1) \in Currents
          /\ OpenWins(Current(FALSE, 1)) = 0 /\ OpenLosses(Current(FALSE, 1)) = 1
      BY <1>12, <3>3, Zenon
    <3>5. fa \in Seq(Nat) /\ fb \in Seq(Nat)
      BY <1>1, <1>3, <1>8, <1>9
    <3>6. fa = (IF pnl > 0 THEN a ELSE fa) /\ fb = (IF pnl < 0 THEN b ELSE fb)
      BY <1>9, <1>17, <3>1
    <3>7. OpenWins(Current(FALSE, 1)) = (IF pnl > 0 THEN w + 1 ELSE 0)
      <4>1. (IF pnl > 0 THEN w + 1 ELSE 0) = 0
        BY <1>4, <1>5, <1>17
      <4> QED
        BY <3>4, <4>1, Zenon
    <3>8. OpenLosses(Current(FALSE, 1)) = (IF pnl < 0 THEN l + 1 ELSE 0)
      <4>1. (IF pnl < 0 THEN l + 1 ELSE 0) = 1
        BY <1>4, <1>5, <1>17, <3>1
      <4> QED
        BY <3>4, <4>1, Zenon
    <3> QED
      BY <1>10, <3>2, <3>4, <3>5, <3>6, <3>7, <3>8, Zenon
  <2> QED
    BY <2>2, <2>3
<1> QED
  BY <1>11, <1>16, <1>17

NoCount == [win |-> 0, loss |-> 0, maxWin |-> 0, maxLoss |-> 0]
NoRun == [winning |-> <<>>, losing |-> <<>>, current |-> NoStreak]

\* The counters before the first trade, and after each one.
CountsBy(f, h) ==
  /\ f[0] = NoCount
  /\ \A k \in 1 .. Len(h) : f[k] = CountStreak(f[k - 1], h[k])
  /\ \A k \in 0 .. Len(h) : f[k] \in StreakCounts
  /\ CalculateStreaks(h) = f[Len(h)]

LEMMA StreaksCounted ==
  ASSUME NEW h \in Seq(Positions)
  PROVE  \E f : CountsBy(f, h)
<1> DEFINE n == Len(h)
           D == DOMAIN h
           base == NoCount
           step == [x \in StreakCounts \X (1 .. n) |-> CountStreak(x[1], h[x[2]])]
           Solves(g) == g = [s \in SUBSET D |-> IF s = {} THEN base
                                                ELSE CountStreak(g[s \ {Max(s)}], h[Max(s)])]
<1>1. n \in Nat /\ D = 1 .. n /\ \A i \in 1 .. n : h[i] \in Positions
  OBVIOUS
<1>2. base \in StreakCounts
  BY DEF StreakCounts, NoCount
<1>3. step \in [StreakCounts \X (1 .. n) -> StreakCounts]
  BY <1>1, CountStreakIs
<1>4. CalculateStreaks(h) = (CHOOSE g : Solves(g))[D]
  BY DEF CalculateStreaks, FoldLeft, MapThenFoldSet, NoCount
<1> HIDE DEF base
<1>5. \E g : Solves(g)
  <2>1. PICK g \in [SUBSET (1 .. n) -> StreakCounts] : FoldsBy(g, base, step)
    <3> HIDE DEF step, n
    <3> QED
      BY <1>1, <1>2, <1>3, FoldExists
  <2>2. ASSUME NEW s \in SUBSET (1 .. n)
        PROVE  g[s] = IF s = {} THEN base ELSE CountStreak(g[s \ {Max(s)}], h[Max(s)])
    <3>1. g[s] = IF s = {} THEN base ELSE step[<<g[s \ {Max(s)}], Max(s)>>]
      BY <2>1 DEF FoldsBy
    <3>2. CASE s # {}
      <4>1. Max(s) \in s /\ Max(s) \in 1 .. n /\ s \ {Max(s)} \in SUBSET (1 .. n)
        BY <1>1, <3>2, SubsetEnds
      <4>2. g[s \ {Max(s)}] \in StreakCounts
        BY <2>1, <4>1
      <4> QED
        BY <3>1, <3>2, <4>1, <4>2
    <3> QED
      BY <3>1, <3>2
  <2>3. Solves(g)
    BY <1>1, <2>1, <2>2
  <2> QED
    BY <2>3
<1>6. PICK g : Solves(g) /\ CalculateStreaks(h) = g[D]
  <2> HIDE DEF Solves
  <2> QED
    BY <1>4, <1>5
<1> DEFINE f == [k \in 0 .. n |-> g[1 .. k]]
<1>7. f[0] = base
  <2>1. 1 .. 0 = {} /\ {} \in SUBSET D /\ 0 \in 0 .. n
    BY <1>1
  <2> QED
    BY <1>6, <2>1
<1>8. ASSUME NEW k \in 1 .. n PROVE f[k] = CountStreak(f[k - 1], h[k])
  <2>1. /\ 1 .. k \in SUBSET D /\ 1 .. k # {} /\ Max(1 .. k) = k
        /\ (1 .. k) \ {k} = 1 .. k - 1
    BY <1>1, PrefixOf
  <2>2. g[1 .. k] = CountStreak(g[(1 .. k) \ {Max(1 .. k)}], h[Max(1 .. k)])
    BY <1>6, <2>1
  <2>3. k \in 0 .. n /\ k - 1 \in 0 .. n
    BY <1>1
  <2> QED
    BY <2>1, <2>2, <2>3
<1>9. CalculateStreaks(h) = f[n]
  BY <1>1, <1>6
<1> HIDE DEF f
<1>10. \A k \in 0 .. n : f[k] \in StreakCounts
  <2> DEFINE P == {k \in 0 .. n : f[k] \in StreakCounts}
  <2>1. 0 \in P
    BY <1>1, <1>2, <1>7
  <2>2. ASSUME NEW k \in 0 + 1 .. n, k - 1 \in P PROVE k \in P
    BY <1>1, <1>8, <2>2, CountStreakIs
  <2>3. \A k \in 0 + 1 .. n : k - 1 \in P => k \in P
    BY <2>2
  <2> HIDE DEF P, n
  <2>4. \A k \in 0 .. n : k \in P
    BY <1>1, <2>1, <2>3, IntervalInduction
  <2> QED
    BY <2>4 DEF P
<1> QED
  BY <1>7, <1>8, <1>9, <1>10 DEF CountsBy, base

\* The runs before the first trade, and after each one.
RunsBy(f, h) ==
  /\ f[0] = NoRun
  /\ \A k \in 1 .. Len(h) : f[k] = Streak(f[k - 1], h[k])
  /\ \A k \in 0 .. Len(h) : f[k] \in Runs
  /\ AllStreakLengths(h) = FileStreak(f[Len(h)])

LEMMA StreaksListed ==
  ASSUME NEW h \in Seq(Positions)
  PROVE  \E f : RunsBy(f, h)
<1> DEFINE n == Len(h)
           D == DOMAIN h
           base == NoRun
           step == [x \in Runs \X (1 .. n) |-> Streak(x[1], h[x[2]])]
           Solves(g) == g = [s \in SUBSET D |-> IF s = {} THEN base
                                                ELSE Streak(g[s \ {Max(s)}], h[Max(s)])]
<1>1. n \in Nat /\ D = 1 .. n /\ \A i \in 1 .. n : h[i] \in Positions
  OBVIOUS
<1>2. base \in Runs
  <2>1. NoStreak \in Currents /\ <<>> \in Seq(Nat)
    BY DEF Currents
  <2> QED
    BY <2>1 DEF Runs, NoRun
<1>3. step \in [Runs \X (1 .. n) -> Runs]
  BY <1>1, StreakIs
<1>4. AllStreakLengths(h) = FileStreak((CHOOSE g : Solves(g))[D])
  BY DEF AllStreakLengths, FoldLeft, MapThenFoldSet, NoRun
<1> HIDE DEF base
<1>5. \E g : Solves(g)
  <2>1. PICK g \in [SUBSET (1 .. n) -> Runs] : FoldsBy(g, base, step)
    <3> HIDE DEF step, n
    <3> QED
      BY <1>1, <1>2, <1>3, FoldExists
  <2>2. ASSUME NEW s \in SUBSET (1 .. n)
        PROVE  g[s] = IF s = {} THEN base ELSE Streak(g[s \ {Max(s)}], h[Max(s)])
    <3>1. g[s] = IF s = {} THEN base ELSE step[<<g[s \ {Max(s)}], Max(s)>>]
      BY <2>1 DEF FoldsBy
    <3>2. CASE s # {}
      <4>1. Max(s) \in s /\ Max(s) \in 1 .. n /\ s \ {Max(s)} \in SUBSET (1 .. n)
        BY <1>1, <3>2, SubsetEnds
      <4>2. g[s \ {Max(s)}] \in Runs
        BY <2>1, <4>1
      <4> QED
        BY <3>1, <3>2, <4>1, <4>2
    <3> QED
      BY <3>1, <3>2
  <2>3. Solves(g)
    BY <1>1, <2>1, <2>2
  <2> QED
    BY <2>3
<1>6. PICK g : Solves(g) /\ AllStreakLengths(h) = FileStreak(g[D])
  <2> HIDE DEF Solves
  <2> QED
    BY <1>4, <1>5
<1> DEFINE f == [k \in 0 .. n |-> g[1 .. k]]
<1>7. f[0] = base
  <2>1. 1 .. 0 = {} /\ {} \in SUBSET D /\ 0 \in 0 .. n
    BY <1>1
  <2> QED
    BY <1>6, <2>1
<1>8. ASSUME NEW k \in 1 .. n PROVE f[k] = Streak(f[k - 1], h[k])
  <2>1. /\ 1 .. k \in SUBSET D /\ 1 .. k # {} /\ Max(1 .. k) = k
        /\ (1 .. k) \ {k} = 1 .. k - 1
    BY <1>1, PrefixOf
  <2>2. g[1 .. k] = Streak(g[(1 .. k) \ {Max(1 .. k)}], h[Max(1 .. k)])
    BY <1>6, <2>1
  <2>3. k \in 0 .. n /\ k - 1 \in 0 .. n
    BY <1>1
  <2> QED
    BY <2>1, <2>2, <2>3
<1>9. AllStreakLengths(h) = FileStreak(f[n])
  BY <1>1, <1>6
<1> HIDE DEF f
<1>10. \A k \in 0 .. n : f[k] \in Runs
  <2> DEFINE P == {k \in 0 .. n : f[k] \in Runs}
  <2>1. 0 \in P
    BY <1>1, <1>2, <1>7
  <2>2. ASSUME NEW k \in 0 + 1 .. n, k - 1 \in P PROVE k \in P
    BY <1>1, <1>8, <2>2, StreakIs
  <2>3. \A k \in 0 + 1 .. n : k - 1 \in P => k \in P
    BY <2>2
  <2> HIDE DEF P, n
  <2>4. \A k \in 0 .. n : k \in P
    BY <1>1, <2>1, <2>3, IntervalInduction
  <2> QED
    BY <2>4 DEF P
<1> QED
  BY <1>7, <1>8, <1>9, <1>10 DEF RunsBy, base

\* The members of a set up to k.
Among(A, k) == A \cap (1 .. k)

LEMMA OneMoreAmong ==
  ASSUME NEW A, NEW k \in Nat, k >= 1
  PROVE  /\ Cardinality(Among(A, k)) = Cardinality(Among(A, k - 1)) + (IF k \in A THEN 1 ELSE 0)
         /\ Cardinality(Among(A, k - 1)) \in Nat /\ IsFiniteSet(Among(A, k - 1))
<1> DEFINE B == Among(A, k - 1)
<1>1. IsFiniteSet(1 .. k - 1)
  BY FS_Interval
<1>2. IsFiniteSet(B)
  <2>1. B \subseteq 1 .. k - 1
    BY DEF Among
  <2> HIDE DEF B
  <2> QED
    BY <1>1, <2>1, FS_Subset
<1>3. Cardinality(B) \in Nat
  <2> HIDE DEF B
  <2> QED
    BY <1>2, FS_CardinalityType
<1>4. k \notin B /\ Among(A, k) = IF k \in A THEN B \cup {k} ELSE B
  BY DEF Among
<1> HIDE DEF B
<1>5. Cardinality(B \cup {k}) = Cardinality(B) + 1
  BY <1>2, <1>4, FS_AddElement
<1> QED
  BY <1>2, <1>3, <1>4, <1>5 DEF B

\* The counters and the runs after a trade go together: each kind is tallied, and the
\* counters run with the open streak.
StreaksGoWith(r, c, wins, losses) ==
  /\ c.win = OpenWins(r.current) /\ c.loss = OpenLosses(r.current)
  /\ Tallied(r.winning, OpenWins(r.current), c.maxWin, wins)
  /\ Tallied(r.losing, OpenLosses(r.current), c.maxLoss, losses)

LEMMA StreaksGoOn ==
  ASSUME NEW r \in Runs, NEW c \in StreakCounts, NEW wins \in Nat, NEW losses \in Nat,
         StreaksGoWith(r, c, wins, losses), NEW t \in Positions, NEW pnl \in Int, pnl = t.pnl
  PROVE  StreaksGoWith(Streak(r, t), CountStreak(c, t), wins + (IF pnl > 0 THEN 1 ELSE 0),
                       losses + (IF pnl < 0 THEN 1 ELSE 0))
<1>1. PICK x \in Seq(Nat), y \in Seq(Nat), a \in Nat, b \in Nat :
        /\ x = r.winning /\ y = r.losing /\ a = OpenWins(r.current) /\ b = OpenLosses(r.current)
  BY RunFields, CurrentIs
<1>2. PICK s \in Runs : s = Streak(r, t) /\ StreakMoves(r, pnl, s)
  BY StreakIs
<1>3. /\ s.winning = IF pnl > 0 THEN x ELSE Filed(x, a)
      /\ s.losing = IF pnl < 0 THEN y ELSE Filed(y, b)
      /\ OpenWins(s.current) = IF pnl > 0 THEN a + 1 ELSE 0
      /\ OpenLosses(s.current) = IF pnl < 0 THEN b + 1 ELSE 0
  BY <1>1, <1>2 DEF StreakMoves
<1>4. PICK m, k : m = c.maxWin /\ k = c.maxLoss
  OBVIOUS
<1>5. c.win = a /\ c.loss = b /\ Tallied(x, a, m, wins) /\ Tallied(y, b, k, losses)
  BY <1>1, <1>4 DEF StreaksGoWith
<1>6. PICK d \in StreakCounts :
        /\ d = CountStreak(c, t)
        /\ d = [win |-> IF pnl > 0 THEN c.win + 1 ELSE 0, loss |-> IF pnl < 0 THEN c.loss + 1 ELSE 0,
                maxWin |-> HigherOf(c.maxWin, IF pnl > 0 THEN c.win + 1 ELSE 0),
                maxLoss |-> HigherOf(c.maxLoss, IF pnl < 0 THEN c.loss + 1 ELSE 0)]
  BY CountStreakIs
<1>7. /\ d.win = (IF pnl > 0 THEN a + 1 ELSE 0) /\ d.loss = (IF pnl < 0 THEN b + 1 ELSE 0)
      /\ d.maxWin = HigherOf(m, IF pnl > 0 THEN a + 1 ELSE 0)
      /\ d.maxLoss = HigherOf(k, IF pnl < 0 THEN b + 1 ELSE 0)
  BY <1>4, <1>5, <1>6
<1>8. Tallied(s.winning, OpenWins(s.current), d.maxWin, wins + (IF pnl > 0 THEN 1 ELSE 0))
  <2>1. CASE pnl > 0
    <3>1. Tallied(x, a + 1, HigherOf(m, a + 1), wins + 1)
      BY <1>1, <1>5, TallyGrows
    <3> QED
      BY <1>3, <1>7, <2>1, <3>1
  <2>2. CASE ~(pnl > 0)
    <3>1. Tallied(Filed(x, a), 0, HigherOf(m, 0), wins)
      BY <1>1, <1>5, TallyFiled
    <3>2. wins + 0 = wins
      OBVIOUS
    <3> QED
      BY <1>3, <1>7, <2>2, <3>1, <3>2
  <2> QED
    BY <2>1, <2>2
<1>9. Tallied(s.losing, OpenLosses(s.current), d.maxLoss, losses + (IF pnl < 0 THEN 1 ELSE 0))
  <2>1. CASE pnl < 0
    <3>1. Tallied(y, b + 1, HigherOf(k, b + 1), losses + 1)
      BY <1>1, <1>5, TallyGrows
    <3> QED
      BY <1>3, <1>7, <2>1, <3>1
  <2>2. CASE ~(pnl < 0)
    <3>1. Tallied(Filed(y, b), 0, HigherOf(k, 0), losses)
      BY <1>1, <1>5, TallyFiled
    <3>2. losses + 0 = losses
      OBVIOUS
    <3> QED
      BY <1>3, <1>7, <2>2, <3>1, <3>2
  <2> QED
    BY <2>1, <2>2
<1> QED
  BY <1>2, <1>3, <1>6, <1>7, <1>8, <1>9 DEF StreaksGoWith

\* The two walks over a list of trades agree, and count every win and loss.
LEMMA StreaksAre ==
  ASSUME NEW h \in Seq(Positions)
  PROVE  LET s == AllStreakLengths(h)
             c == CalculateStreaks(h)
         IN /\ LongestIs(s.winning, c.maxWin) /\ LongestIs(s.losing, c.maxLoss)
            /\ c.maxWin \in Nat /\ c.maxLoss \in Nat
            /\ s.winning \in Seq(Nat) /\ s.losing \in Seq(Nat)
            /\ SumOf(s.winning) = Cardinality(Winning(h))
            /\ SumOf(s.losing) = Cardinality(Losing(h))
<1>1. PICK n \in Nat : n = Len(h) /\ DOMAIN h = 1 .. n
  <2>1. Len(h) \in Nat /\ DOMAIN h = 1 .. Len(h)
    OBVIOUS
  <2> QED
    BY <2>1
<1>2. PICK f : CountsBy(f, h)
  BY StreaksCounted
<1>3. PICK g : RunsBy(g, h)
  BY StreaksListed
<1>4. \A k \in 0 .. n : f[k] \in StreakCounts /\ g[k] \in Runs
  BY <1>1, <1>2, <1>3 DEF CountsBy, RunsBy
<1> DEFINE W == Winning(h)
           L == Losing(h)
           P == {k \in 0 .. n : StreaksGoWith(g[k], f[k], Cardinality(Among(W, k)),
                                              Cardinality(Among(L, k)))}
<1>5. 0 \in P
  <2>1. Among(W, 0) = {} /\ Among(L, 0) = {}
    BY DEF Among
  <2>2. Cardinality({}) = 0
    BY FS_EmptySet
  <2>3. f[0] = NoCount /\ g[0] = NoRun
    BY <1>2, <1>3 DEF CountsBy, RunsBy
  <2>4. OpenWins(NoStreak) = 0 /\ OpenLosses(NoStreak) = 0
    BY DEF OpenWins, OpenLosses
  <2>5. SumOf(<<>>) = 0
    <3>1. PICK e : e = <<>> /\ DOMAIN e = {}
      OBVIOUS
    <3>2. SumOf(e) = SumOn(e, {})
      BY <3>1 DEF SumOf, FoldFunction, SumOn
    <3>3. SumOn(e, {}) = 0
      <4>1. IsFiniteSet({}) /\ \A x \in {} : e[x] = 0
        BY FS_EmptySet
      <4> QED
        BY <4>1, SumOfNothing
    <3> QED
      BY <3>1, <3>2, <3>3
  <2>6. Tallied(<<>>, 0, 0, 0)
    <3>1. LongestIs(<<>>, 0)
      BY DEF LongestIs
    <3>2. HigherOf(0, 0) = 0 /\ 0 \in Nat /\ SumOf(<<>>) + 0 = 0
      BY <2>5 DEF HigherOf
    <3> QED
      BY <3>1, <3>2 DEF Tallied
  <2>7. StreaksGoWith(NoRun, NoCount, 0, 0)
    BY <2>4, <2>6 DEF StreaksGoWith, NoRun, NoCount
  <2> HIDE DEF W, L
  <2>8. StreaksGoWith(g[0], f[0], Cardinality(Among(W, 0)), Cardinality(Among(L, 0)))
    BY <2>1, <2>2, <2>3, <2>7, Zenon
  <2> QED
    BY <1>1, <2>8
<1>6. ASSUME NEW k \in 0 + 1 .. n, k - 1 \in P PROVE k \in P
  <2>1. k \in 1 .. n /\ k \in 0 .. n /\ k - 1 \in 0 .. n /\ k \in Nat /\ k >= 1
    OBVIOUS
  <2>2. PICK t \in Positions, pnl \in Int : t = h[k] /\ pnl = t.pnl
    <3>1. h[k] \in Positions
      BY <1>1, <2>1
    <3> QED
      BY <3>1, TradeFields
  <2>3. (k \in W <=> pnl > 0) /\ (k \in L <=> pnl < 0)
    BY <1>1, <2>1, <2>2 DEF Winning, Losing
  <2>4. PICK w \in Nat, l \in Nat :
          w = Cardinality(Among(W, k - 1)) /\ l = Cardinality(Among(L, k - 1))
    BY <2>1, OneMoreAmong
  <2>5. /\ Cardinality(Among(W, k)) = w + (IF pnl > 0 THEN 1 ELSE 0)
        /\ Cardinality(Among(L, k)) = l + (IF pnl < 0 THEN 1 ELSE 0)
    <3> HIDE DEF W, L
    <3> QED
      BY <2>1, <2>3, <2>4, OneMoreAmong
  <2>6. StreaksGoWith(g[k - 1], f[k - 1], w, l)
    BY <1>6, <2>4
  <2>7. f[k] = CountStreak(f[k - 1], t) /\ g[k] = Streak(g[k - 1], t)
    BY <1>1, <1>2, <1>3, <2>1, <2>2 DEF CountsBy, RunsBy
  <2>8. g[k - 1] \in Runs /\ f[k - 1] \in StreakCounts
    BY <1>4, <2>1
  <2> HIDE DEF W, L
  <2>9. StreaksGoWith(g[k], f[k], w + (IF pnl > 0 THEN 1 ELSE 0), l + (IF pnl < 0 THEN 1 ELSE 0))
    BY <2>2, <2>4, <2>6, <2>7, <2>8, StreaksGoOn
  <2> QED
    BY <2>1, <2>5, <2>9
<1>7. \A k \in 0 .. n : k \in P
  <2>1. \A k \in 0 + 1 .. n : k - 1 \in P => k \in P
    BY <1>6
  <2> HIDE DEF P
  <2> QED
    BY <1>5, <2>1, IntervalInduction
<1>8. Among(W, n) = W /\ Among(L, n) = L
  BY <1>1 DEF Among, Winning, Losing
<1>9. StreaksGoWith(g[n], f[n], Cardinality(W), Cardinality(L))
  BY <1>7, <1>8
<1>10. PICK r \in Runs, c \in StreakCounts : r = g[n] /\ c = f[n]
  BY <1>4
<1>11. PICK x \in Seq(Nat), y \in Seq(Nat), a \in Nat, b \in Nat :
         /\ x = r.winning /\ y = r.losing /\ a = OpenWins(r.current) /\ b = OpenLosses(r.current)
  BY RunFields, CurrentIs
<1>12. PICK s : s = AllStreakLengths(h) /\ s.winning = Filed(x, a) /\ s.losing = Filed(y, b)
  <2>1. AllStreakLengths(h) = FileStreak(r)
    BY <1>1, <1>3, <1>10 DEF RunsBy
  <2> QED
    BY <1>11, <2>1, FileStreakIs
<1> HIDE DEF W, L
<1>13. Tallied(x, a, c.maxWin, Cardinality(W)) /\ Tallied(y, b, c.maxLoss, Cardinality(L))
  BY <1>9, <1>10, <1>11 DEF StreaksGoWith
<1>14. LongestIs(Filed(x, a), c.maxWin) /\ SumOf(Filed(x, a)) = Cardinality(W)
       /\ Filed(x, a) \in Seq(Nat) /\ c.maxWin \in Nat
  BY <1>11, <1>13, TallyFiled
<1>15. LongestIs(Filed(y, b), c.maxLoss) /\ SumOf(Filed(y, b)) = Cardinality(L)
       /\ Filed(y, b) \in Seq(Nat) /\ c.maxLoss \in Nat
  BY <1>11, <1>13, TallyFiled
<1>16. CalculateStreaks(h) = c
  BY <1>1, <1>2, <1>10 DEF CountsBy
<1> QED
  BY <1>12, <1>14, <1>15, <1>16 DEF W, L

\* So Longest finds the counters' maximum.
LEMMA LongestFound ==
  ASSUME NEW list \in Seq(Nat), NEW x \in Nat, LongestIs(list, x)
  PROVE  Longest(list) = x
<1> DEFINE S == {0} \cup {list[i] : i \in DOMAIN list}
<1>1. \A i \in DOMAIN list : list[i] \in Nat
  OBVIOUS
<1>2. \A y \in S : y \in Int /\ y <= x
  BY <1>1 DEF LongestIs
<1>3. x \in S
  BY DEF LongestIs
<1> HIDE DEF S
<1>4. Max(S) = x
  BY <1>2, <1>3, LargestOf
<1> QED
  BY <1>4 DEF Longest, S

\* What StreaksAgree says, from what the report and the risk section hold.
LEMMA StreaksDo ==
  ASSUME NEW h \in Seq(Positions), NEW analytics,
         analytics.overall.wins = Cardinality(Winning(h)),
         analytics.overall.losses = Cardinality(Losing(h)),
         analytics.risk.longestWinning = CalculateStreaks(h).maxWin,
         analytics.risk.longestLosing = CalculateStreaks(h).maxLoss,
         analytics.risk.winning = AllStreakLengths(h).winning,
         analytics.risk.losing = AllStreakLengths(h).losing
  PROVE  StreaksAgree(analytics)
<1>1. PICK x \in Seq(Nat), y \in Seq(Nat), a \in Nat, b \in Nat :
        /\ x = AllStreakLengths(h).winning /\ y = AllStreakLengths(h).losing
        /\ a = CalculateStreaks(h).maxWin /\ b = CalculateStreaks(h).maxLoss
        /\ LongestIs(x, a) /\ LongestIs(y, b)
        /\ SumOf(x) = Cardinality(Winning(h)) /\ SumOf(y) = Cardinality(Losing(h))
  BY StreaksAre
<1>2. Longest(x) = a /\ Longest(y) = b
  BY <1>1, LongestFound
<1> QED
  BY <1>1, <1>2 DEF StreaksAgree

-----------------------------------------------------------------------------
(* Groups of trades *)

\* What a table of sums, one for each class, adds up to.
LEMMA PartsAddUp ==
  ASSUME NEW S, IsFiniteSet(S), NEW f, \A x \in S : f[x] \in Int,
         NEW E, IsFiniteSet(E), NEW class, \A x \in S : class[x] \in E,
         NEW m, m = [e \in E |-> SumOn(f, {x \in S : class[x] = e})]
  PROVE  SumOf(m) = SumOn(f, S)
<1>1. SumOn(f, S) = SumOn([e \in E |-> SumOn(f, {x \in S : class[x] = e})], E)
  BY SumByParts
<1>2. SumOn(f, S) = SumOn(m, E)
  BY <1>1
<1>3. DOMAIN m = E
  OBVIOUS
<1>4. SumOf(m) = SumOn(m, E)
  BY <1>3 DEF SumOf, FoldFunction, SumOn
<1> QED
  BY <1>2, <1>4

\* What a table of counts, one for each class, adds up to.
LEMMA PartsCount ==
  ASSUME NEW S, IsFiniteSet(S), NEW E, IsFiniteSet(E), NEW class, \A x \in S : class[x] \in E,
         NEW m, m = [e \in E |-> Cardinality({x \in S : class[x] = e})]
  PROVE  SumOf(m) = Cardinality(S)
<1> DEFINE f == [x \in S |-> 1]
           p == [e \in E |-> SumOn(f, {x \in S : class[x] = e})]
<1>1. \A x \in S : f[x] = 1 /\ f[x] \in Int
  OBVIOUS
<1> HIDE DEF f
<1>2. SumOn(f, S) = Cardinality(S)
  BY <1>1, SumOfOnes
<1>3. \A e \in E : SumOn(f, {x \in S : class[x] = e}) = Cardinality({x \in S : class[x] = e})
  <2> SUFFICES ASSUME NEW e \in E
               PROVE  SumOn(f, {x \in S : class[x] = e}) = Cardinality({x \in S : class[x] = e})
    OBVIOUS
  <2> DEFINE T == {x \in S : class[x] = e}
  <2>1. T \subseteq S
    OBVIOUS
  <2> HIDE DEF T
  <2>2. IsFiniteSet(T) /\ \A x \in T : f[x] = 1
    BY <1>1, <2>1, FS_Subset
  <2>3. SumOn(f, T) = Cardinality(T)
    BY <2>2, SumOfOnes
  <2> QED
    BY <2>3 DEF T
<1>4. m = p
  BY <1>3
<1>5. SumOf(p) = SumOn(f, S)
  <2> HIDE DEF p
  <2>1. p = [e \in E |-> SumOn(f, {x \in S : class[x] = e})]
    BY DEF p
  <2> QED
    BY <1>1, <2>1, PartsAddUp
<1> HIDE DEF p
<1> QED
  BY <1>2, <1>4, <1>5

\* As many times the summand as elements, where they are all the same.
LEMMA SumOfSame ==
  ASSUME NEW D, IsFiniteSet(D), NEW c \in Int, NEW f, \A x \in D : f[x] = c
  PROVE  SumOn(f, D) = Cardinality(D) * c
<1> DEFINE T == {S \in SUBSET D : SumOn(f, S) # Cardinality(S) * c}
<1> SUFFICES ASSUME T # {} PROVE FALSE
  OBVIOUS
<1>1. PICK S \in T : \A t \in T : t \subseteq S => t = S
  <2>1. T \in SUBSET SUBSET D
    OBVIOUS
  <2> HIDE DEF T
  <2> QED
    BY <2>1, SmallestSet
<1>2. IsFiniteSet(S)
  BY FS_Subset
<1>3. SumOn(f, S) = IF S = {} THEN 0 ELSE f[Pick(S)] + SumOn(f, S \ {Pick(S)})
  BY <1>2, SumOnStep
<1>4. S # {}
  BY <1>3, FS_EmptySet
<1>5. Pick(S) \in S
  BY <1>4, PickIn
<1>6. SumOn(f, S \ {Pick(S)}) = Cardinality(S \ {Pick(S)}) * c
  BY <1>1, <1>5
<1>7. Cardinality(S \ {Pick(S)}) = Cardinality(S) - 1 /\ Cardinality(S) \in Nat
  BY <1>2, <1>5, FS_RemoveElement, FS_CardinalityType
<1>8. PICK n \in Nat : n = Cardinality(S)
  BY <1>7
<1>9. f[Pick(S)] = c /\ SumOn(f, S) = c + (n - 1) * c
  BY <1>1, <1>3, <1>4, <1>5, <1>6, <1>7, <1>8
<1>10. c + (n - 1) * c = n * c
  BY SMTT(30)
<1> QED
  BY <1>1, <1>8, <1>9, <1>10

\* What the best of several make is no less than the average, the worst no more.
LEMMA BestAndWorst ==
  ASSUME NEW f, IsFiniteSet(DOMAIN f), \A l \in DOMAIN f : f[l].netPnl \in Int
  PROVE  LET total == SumOf([l \in DOMAIN f |-> f[l].netPnl])
         IN /\ \A l \in Best(f) : Cardinality(DOMAIN f) * f[l].netPnl >= total
            /\ \A l \in Worst(f) : Cardinality(DOMAIN f) * f[l].netPnl <= total
            /\ Best(f) # {} <=> DOMAIN f # {}
<1> DEFINE D == DOMAIN f
           g == [l \in D |-> f[l].netPnl]
<1>1. SumOf(g) = SumOn(g, D)
  <2>1. DOMAIN g = D
    OBVIOUS
  <2> HIDE DEF g, D
  <2> QED
    BY <2>1 DEF SumOf, FoldFunction, SumOn
<1>2. \A l \in D : g[l] = f[l].netPnl /\ g[l] \in Int
  OBVIOUS
<1>3. SumOn(g, D) \in Int
  BY <1>2, SumType
<1>4. ASSUME NEW l \in D, NEW c \in Int, c = g[l]
      PROVE  /\ (\A x \in D : g[x] <= c) => SumOn(g, D) <= Cardinality(D) * c
             /\ (\A x \in D : c <= g[x]) => Cardinality(D) * c <= SumOn(g, D)
  <2> DEFINE same == [x \in D |-> c]
  <2>1. \A x \in D : same[x] = c
    OBVIOUS
  <2> HIDE DEF same, g, D
  <2>2. SumOn(same, D) = Cardinality(D) * c
    BY <2>1, SumOfSame DEF D
  <2>3. ASSUME \A x \in D : g[x] <= c PROVE SumOn(g, D) <= SumOn(same, D)
    <3>1. \A x \in D : g[x] \in Int /\ same[x] \in Int /\ g[x] <= same[x]
      BY <1>2, <2>1, <2>3
    <3> QED
      BY <3>1, SumOrdered DEF D
  <2>4. ASSUME \A x \in D : c <= g[x] PROVE SumOn(same, D) <= SumOn(g, D)
    <3>1. \A x \in D : g[x] \in Int /\ same[x] \in Int /\ same[x] <= g[x]
      BY <1>2, <2>1, <2>4
    <3> QED
      BY <3>1, SumOrdered DEF D
  <2> QED
    BY <2>2, <2>3, <2>4
<1>5. ASSUME NEW l \in Best(f) PROVE Cardinality(D) * f[l].netPnl >= SumOn(g, D)
  <2>1. l \in D /\ \A x \in D : g[x] <= g[l]
    BY DEF Best
  <2>2. PICK c \in Int : c = g[l] /\ c = f[l].netPnl
    BY <1>2, <2>1
  <2>3. PICK k \in Int : k = Cardinality(D) * c
    <3>1. Cardinality(D) \in Nat
      BY FS_CardinalityType
    <3> QED
      BY <3>1
  <2>4. SumOn(g, D) <= k
    BY <1>4, <2>1, <2>2, <2>3
  <2>5. k >= SumOn(g, D)
    BY <1>3, <2>4
  <2> QED
    BY <2>2, <2>3, <2>5
<1>6. ASSUME NEW l \in Worst(f) PROVE Cardinality(D) * f[l].netPnl <= SumOn(g, D)
  <2>1. l \in D /\ \A x \in D : g[l] <= g[x]
    BY <1>2 DEF Worst
  <2>2. PICK c \in Int : c = g[l] /\ c = f[l].netPnl
    BY <1>2, <2>1
  <2> QED
    BY <1>4, <2>1, <2>2
<1>7. Best(f) # {} <=> D # {}
  <2>1. ASSUME D # {} PROVE Best(f) # {}
    <3> DEFINE V == {g[l] : l \in D}
    <3>1. IsFiniteSet(V)
      <4> HIDE DEF g, D
      <4>1. IsFiniteSet({g[l] : l \in D})
        BY ImageFinite DEF D
      <4> QED
        BY <4>1
    <3>2. (\A v \in V : v \in Int) /\ V # {}
      BY <1>2, <2>1
    <3> HIDE DEF V
    <3>3. Max(V) \in V /\ \A v \in V : Max(V) >= v
      BY <3>1, <3>2, MaxMinOf
    <3>4. PICK l \in D : Max(V) = g[l]
      BY <3>3 DEF V
    <3>5. \A x \in D : g[x] <= g[l]
      <4>1. \A x \in D : g[x] \in V
        BY DEF V
      <4> QED
        BY <1>2, <3>3, <3>4, <4>1
    <3> QED
      BY <3>5 DEF Best
  <2>2. Best(f) \subseteq D
    BY DEF Best
  <2> QED
    BY <2>1, <2>2
<1> QED
  BY <1>1, <1>5, <1>6, <1>7

\* A label for each of some trades.
LEMMA LabelsFinite ==
  ASSUME NEW h \in Seq(Positions), NEW label, DOMAIN label \subseteq DOMAIN h
  PROVE  /\ IsFiniteSet(DOMAIN label) /\ IsFiniteSet({label[i] : i \in DOMAIN label})
<1>1. IsFiniteSet(DOMAIN label)
  BY ListFacts, FS_Subset
<1> QED
  BY <1>1, ImageFinite

\* The sum of what some trades made is a number.
LEMMA PnlOfType ==
  ASSUME NEW h \in Seq(Positions), NEW S, S \subseteq DOMAIN h
  PROVE  /\ IsFiniteSet(S) /\ PnlOf(h, S) \in Int
         /\ \A i \in DOMAIN h : PnlFun(h)[i] \in Int
<1>1. IsFiniteSet(S)
  BY ListFacts, FS_Subset
<1>2. \A i \in DOMAIN h : PnlFun(h)[i] \in Int
  BY ListFacts, TradeFields DEF PnlFun
<1>3. SumOn(PnlFun(h), S) \in Int
  BY <1>1, <1>2, SumType
<1> QED
  BY <1>1, <1>2, <1>3, PnlOfIs

\* A table with a row for each class of the trades: how many they are and what they made.
Rows(f, h, E, class) ==
  /\ DOMAIN f = E
  /\ \A e \in E : /\ f[e].trades = Cardinality({i \in DOMAIN h : class[i] = e})
                  /\ f[e].netPnl = PnlOf(h, {i \in DOMAIN h : class[i] = e})

LEMMA RowsAddUp ==
  ASSUME NEW h \in Seq(Positions), NEW E, IsFiniteSet(E), NEW class,
         \A i \in DOMAIN h : class[i] \in E, NEW f, Rows(f, h, E, class)
  PROVE  /\ SumOf([l \in DOMAIN f |-> f[l].trades]) = Len(h)
         /\ SumOf([l \in DOMAIN f |-> f[l].netPnl]) = PnlOf(h, DOMAIN h)
<1> DEFINE D == DOMAIN h
           g == PnlFun(h)
           counts == [l \in DOMAIN f |-> f[l].trades]
           sums == [l \in DOMAIN f |-> f[l].netPnl]
<1>1. /\ DOMAIN f = E
      /\ \A e \in E : /\ f[e].trades = Cardinality({i \in D : class[i] = e})
                      /\ f[e].netPnl = PnlOf(h, {i \in D : class[i] = e})
  BY DEF Rows
<1>2. IsFiniteSet(D) /\ Cardinality(D) = Len(h)
  BY ListFacts
<1>3. \A i \in D : g[i] \in Int
  BY PnlOfType
<1>4. counts = [e \in E |-> Cardinality({i \in D : class[i] = e})]
  BY <1>1
<1>5. sums = [e \in E |-> SumOn(g, {i \in D : class[i] = e})]
  BY <1>1, PnlOfIs
<1>6. \A i \in D : class[i] \in E
  OBVIOUS
<1>7. PnlOf(h, D) = SumOn(g, D)
  BY PnlOfIs
<1> HIDE DEF D, g, counts, sums
<1>8. SumOf(counts) = Cardinality(D)
  BY <1>2, <1>4, <1>6, PartsCount
<1>9. SumOf(sums) = SumOn(g, D)
  BY <1>2, <1>3, <1>5, <1>6, PartsAddUp
<1> QED
  BY <1>2, <1>7, <1>8, <1>9 DEF counts, sums, D

\* Buckets of every trade hold each of them once.
LEMMA BucketsAddUp ==
  ASSUME NEW h \in Seq(Positions), NEW label, DOMAIN label = DOMAIN h
  PROVE  LET f == BuildBuckets(h, label)
         IN /\ IsFiniteSet(DOMAIN f) /\ (DOMAIN f # {} <=> Len(h) > 0)
            /\ \A l \in DOMAIN f : f[l].netPnl \in Int
            /\ SumOf([l \in DOMAIN f |-> f[l].trades]) = Len(h)
            /\ SumOf([l \in DOMAIN f |-> f[l].netPnl]) = PnlOf(h, DOMAIN h)
            /\ SumOf([l \in DOMAIN f |-> f[l].wins]) = Cardinality(Winning(h))
<1> DEFINE D == DOMAIN h
           E == {label[i] : i \in D}
<1>1. PICK f : f = BuildBuckets(h, label)
  OBVIOUS
<1>2. /\ DOMAIN f = E
      /\ \A e \in E : /\ f[e].trades = Cardinality({i \in D : label[i] = e})
                      /\ f[e].wins = Cardinality({i \in D : label[i] = e} \cap Winning(h))
                      /\ f[e].netPnl = PnlOf(h, {i \in D : label[i] = e})
  BY <1>1 DEF BuildBuckets
<1>3. IsFiniteSet(E)
  BY LabelsFinite
<1>4. D = 1 .. Len(h) /\ Len(h) \in Nat
  BY ListFacts
<1>5. E # {} <=> Len(h) > 0
  <2>1. D # {} <=> Len(h) > 0
    BY <1>4
  <2>2. E # {} <=> D # {}
    OBVIOUS
  <2> QED
    BY <2>1, <2>2
<1>6. \A e \in E : f[e].netPnl \in Int
  <2> SUFFICES ASSUME NEW e \in E PROVE f[e].netPnl \in Int
    OBVIOUS
  <2> DEFINE T == {i \in D : label[i] = e}
  <2>1. T \subseteq DOMAIN h /\ f[e].netPnl = PnlOf(h, T)
    BY <1>2
  <2> HIDE DEF T
  <2> QED
    BY <2>1, PnlOfType
<1>7. \A i \in D : label[i] \in E
  OBVIOUS
<1>8. Rows(f, h, E, label)
  BY <1>2 DEF Rows
<1>9. SumOf([l \in DOMAIN f |-> f[l].wins]) = Cardinality(Winning(h))
  <2> DEFINE W == Winning(h)
             wins == [l \in DOMAIN f |-> f[l].wins]
  <2>1. W \subseteq D
    BY DEF Winning
  <2>2. \A e : {i \in D : label[i] = e} \cap W = {i \in W : label[i] = e}
    BY <2>1
  <2>3. wins = [e \in E |-> Cardinality({i \in W : label[i] = e})]
    BY <1>2, <2>2
  <2>4. IsFiniteSet(W)
    BY <2>1, PnlOfType
  <2>5. \A i \in W : label[i] \in E
    BY <2>1
  <2> HIDE DEF W, wins, E, D
  <2>6. SumOf(wins) = Cardinality(W)
    BY <1>3, <2>3, <2>4, <2>5, PartsCount
  <2> QED
    BY <2>6 DEF W, wins
<1> HIDE DEF E
<1>10. /\ SumOf([l \in DOMAIN f |-> f[l].trades]) = Len(h)
       /\ SumOf([l \in DOMAIN f |-> f[l].netPnl]) = PnlOf(h, DOMAIN h)
  BY <1>3, <1>7, <1>8, RowsAddUp
<1> QED
  BY <1>1, <1>2, <1>3, <1>5, <1>6, <1>9, <1>10

\* The rows of the years and of the months hold each trade once, and no year falls
\* further than the whole curve.
LEMMA YearsAddUp ==
  ASSUME NEW h \in Seq(Positions), NEW curve \in Seq(Points), DaysDrawn(h, curve)
  PROVE  LET f == AnalyzeYearlyPerformance(h, curve)
         IN /\ SumOf([l \in DOMAIN f |-> f[l].trades]) = Len(h)
            /\ SumOf([l \in DOMAIN f |-> f[l].netPnl]) = PnlOf(h, DOMAIN h)
            /\ \A y \in DOMAIN f : f[y].maxDrawdown <= MaxDrawdown(curve)
<1> DEFINE E == {Year(curve[i].time) : i \in DOMAIN curve}
           At(y) == {i \in DOMAIN curve : Year(curve[i].time) = y}
           class == [i \in DOMAIN h |-> Year(h[i].exitTime)]
<1>1. PICK f : f = AnalyzeYearlyPerformance(h, curve)
  OBVIOUS
<1>2. /\ DOMAIN f = E
      /\ \A y \in E : /\ f[y].trades = Cardinality({i \in DOMAIN h : Year(h[i].exitTime) = y})
                      /\ f[y].netPnl = PnlOf(h, {i \in DOMAIN h : Year(h[i].exitTime) = y})
                      /\ f[y].maxDrawdown = MaxDrawdown(SubSeq(curve, Min(At(y)), Max(At(y))))
  BY <1>1 DEF AnalyzeYearlyPerformance, Periods
<1>3. IsFiniteSet(E)
  <2> DEFINE g == [i \in DOMAIN curve |-> Year(curve[i].time)]
  <2>1. E = {g[i] : i \in DOMAIN curve}
    OBVIOUS
  <2>2. IsFiniteSet(DOMAIN curve)
    BY ListFacts
  <2> HIDE DEF g
  <2>3. IsFiniteSet({g[i] : i \in DOMAIN curve})
    BY <2>2, ImageFinite
  <2> QED
    BY <2>1, <2>3
<1>4. \A i \in DOMAIN h : class[i] \in E
  <2> SUFFICES ASSUME NEW i \in DOMAIN h PROVE Year(h[i].exitTime) \in E
    OBVIOUS
  <2>1. PICK k \in DOMAIN curve : Day(curve[k].time) = Day(h[i].exitTime)
    BY DEF DaysDrawn
  <2>2. Year(curve[k].time) = Year(h[i].exitTime)
    BY <2>1, Zenon DEF Year, Month
  <2> QED
    BY <2>2
<1>5. Rows(f, h, E, class)
  <2>1. \A y : {i \in DOMAIN h : Year(h[i].exitTime) = y} = {i \in DOMAIN h : class[i] = y}
    OBVIOUS
  <2> HIDE DEF class, E
  <2> QED
    BY <1>2, <2>1 DEF Rows
<1>6. ASSUME NEW y \in E PROVE f[y].maxDrawdown <= MaxDrawdown(curve)
  <2>1. PICK n \in Nat : n = Len(curve) /\ DOMAIN curve = 1 .. n
    <3>1. Len(curve) \in Nat /\ DOMAIN curve = 1 .. Len(curve)
      OBVIOUS
    <3> QED
      BY <3>1
  <2>2. PICK s \in SUBSET (1 .. n) : s = At(y) /\ s # {}
    BY <2>1
  <2>3. Max(s) \in DOMAIN curve /\ Min(s) \in DOMAIN curve /\ Min(s) <= Max(s)
    <3>1. /\ Max(s) \in s /\ Min(s) \in s /\ Max(s) \in 1 .. n /\ Min(s) \in 1 .. n
          /\ \A z \in s : Max(s) >= z
      BY <2>2, SubsetEnds
    <3>2. PICK lo \in Nat, hi \in Nat : lo = Min(s) /\ hi = Max(s) /\ hi >= lo
      BY <3>1
    <3> QED
      BY <2>1, <3>1, <3>2
  <2>4. MaxDrawdown(SubSeq(curve, Min(s), Max(s))) <= MaxDrawdown(curve)
    BY <2>3, PartFallsLess
  <2> QED
    BY <1>2, <2>2, <2>4
<1> HIDE DEF E, class
<1>7. /\ SumOf([l \in DOMAIN f |-> f[l].trades]) = Len(h)
      /\ SumOf([l \in DOMAIN f |-> f[l].netPnl]) = PnlOf(h, DOMAIN h)
  BY <1>3, <1>4, <1>5, RowsAddUp
<1> QED
  BY <1>1, <1>2, <1>6, <1>7

LEMMA MonthsAddUp ==
  ASSUME NEW h \in Seq(Positions), NEW curve \in Seq(Points), DaysDrawn(h, curve)
  PROVE  LET f == AnalyzeMonthlyPerformance(h, curve)
         IN /\ SumOf([l \in DOMAIN f |-> f[l].trades]) = Len(h)
            /\ SumOf([l \in DOMAIN f |-> f[l].netPnl]) = PnlOf(h, DOMAIN h)
<1> DEFINE E == {Month(curve[i].time) : i \in DOMAIN curve}
           class == [i \in DOMAIN h |-> Month(h[i].exitTime)]
<1>1. PICK f : f = AnalyzeMonthlyPerformance(h, curve)
  OBVIOUS
<1>2. /\ DOMAIN f = E
      /\ \A y \in E : /\ f[y].trades = Cardinality({i \in DOMAIN h : Month(h[i].exitTime) = y})
                      /\ f[y].netPnl = PnlOf(h, {i \in DOMAIN h : Month(h[i].exitTime) = y})
  BY <1>1 DEF AnalyzeMonthlyPerformance, Periods
<1>3. IsFiniteSet(E)
  <2> DEFINE g == [i \in DOMAIN curve |-> Month(curve[i].time)]
  <2>1. E = {g[i] : i \in DOMAIN curve}
    OBVIOUS
  <2>2. IsFiniteSet(DOMAIN curve)
    BY ListFacts
  <2> HIDE DEF g
  <2>3. IsFiniteSet({g[i] : i \in DOMAIN curve})
    BY <2>2, ImageFinite
  <2> QED
    BY <2>1, <2>3
<1>4. \A i \in DOMAIN h : class[i] \in E
  <2> SUFFICES ASSUME NEW i \in DOMAIN h PROVE Month(h[i].exitTime) \in E
    OBVIOUS
  <2>1. PICK k \in DOMAIN curve : Day(curve[k].time) = Day(h[i].exitTime)
    BY DEF DaysDrawn
  <2>2. Month(curve[k].time) = Month(h[i].exitTime)
    BY <2>1, Zenon DEF Month
  <2> QED
    BY <2>2
<1>5. Rows(f, h, E, class)
  <2>1. \A y : {i \in DOMAIN h : Month(h[i].exitTime) = y} = {i \in DOMAIN h : class[i] = y}
    OBVIOUS
  <2> HIDE DEF class, E
  <2> QED
    BY <1>2, <2>1 DEF Rows
<1> HIDE DEF E, class
<1>6. /\ SumOf([l \in DOMAIN f |-> f[l].trades]) = Len(h)
      /\ SumOf([l \in DOMAIN f |-> f[l].netPnl]) = PnlOf(h, DOMAIN h)
  BY <1>3, <1>4, <1>5, RowsAddUp
<1> QED
  BY <1>1, <1>6

\* The reasons a trade has; one that ends with the data is the last.
Ended(h) ==
  \A i \in DOMAIN h :
    /\ h[i].reason \in {"StopLoss", "Target", "EndOfDay", "EndOfData"}
    /\ h[i].reason = "EndOfData" => i = Len(h)
    /\ h[i].entryTime <= h[i].exitTime

\* The three shares of the exits leave out the forced close, and no trade is held for
\* less than no time.
LEMMA ExitsShared ==
  ASSUME NEW h \in Seq(Positions), Ended(h)
  PROVE  LET d == AnalyzeTradeDistribution(h)
             closing == h # <<>> /\ Last(h).reason = "EndOfData"
         IN /\ d.stopLoss + d.target + d.endOfDay = Len(h) - (IF closing THEN 1 ELSE 0)
            /\ 0 <= d.shortest /\ d.shortest <= d.longest
<1> DEFINE D == DOMAIN h
           Of(reason) == {i \in D : h[i].reason = reason}
           held == {h[i].exitTime - h[i].entryTime : i \in D}
           atEnd == h # <<>> /\ Last(h).reason = "EndOfData"
<1>1. /\ D = 1 .. Len(h) /\ Len(h) \in Nat /\ IsFiniteSet(D) /\ Cardinality(D) = Len(h)
      /\ \A i \in D : h[i] \in Positions
  BY ListFacts
<1>2. PICK d : d = AnalyzeTradeDistribution(h)
  OBVIOUS
<1>3. /\ d.longest = IF held = {} THEN 0 ELSE Max(held)
      /\ d.shortest = IF held = {} THEN 0 ELSE Min(held)
      /\ d.stopLoss = Cardinality(Of("StopLoss")) /\ d.target = Cardinality(Of("Target"))
      /\ d.endOfDay = Cardinality(Of("EndOfDay"))
  BY <1>2 DEF AnalyzeTradeDistribution
<1>4. PICK A \in SUBSET D, B \in SUBSET D, C \in SUBSET D, F \in SUBSET D :
        /\ A = Of("StopLoss") /\ B = Of("Target") /\ C = Of("EndOfDay") /\ F = Of("EndOfData")
  <2>1. \A reason : Of(reason) \in SUBSET D
    OBVIOUS
  <2> HIDE DEF Of, D
  <2> QED
    BY <2>1
<1>5. /\ D = ((A \cup B) \cup C) \cup F /\ A \cap B = {} /\ (A \cup B) \cap C = {}
      /\ ((A \cup B) \cup C) \cap F = {}
  <2>1. \A i \in D : h[i].reason \in {"StopLoss", "Target", "EndOfDay", "EndOfData"}
    BY DEF Ended
  <2>2. \A i \in D : /\ i \in A <=> h[i].reason = "StopLoss"
                     /\ i \in B <=> h[i].reason = "Target"
                     /\ i \in C <=> h[i].reason = "EndOfDay"
                     /\ i \in F <=> h[i].reason = "EndOfData"
    BY <1>4
  <2> HIDE DEF D
  <2>3. \A i \in D : /\ i \in A \/ i \in B \/ i \in C \/ i \in F
                     /\ ~(i \in A /\ i \in B) /\ ~((i \in A \/ i \in B) /\ i \in C)
                     /\ ~((i \in A \/ i \in B \/ i \in C) /\ i \in F)
    BY <2>1, <2>2
  <2> QED
    BY <2>3
<1>6. F = (IF atEnd THEN {Len(h)} ELSE {}) /\ (atEnd => Len(h) \in D)
  <2>1. \A i \in D : h[i].reason = "EndOfData" => i = Len(h)
    BY DEF Ended
  <2>2. h # <<>> <=> Len(h) \in D
    BY <1>1
  <2>3. atEnd <=> Len(h) \in D /\ h[Len(h)].reason = "EndOfData"
    BY <2>2 DEF Last
  <2> HIDE DEF atEnd, D
  <2> QED
    BY <1>4, <2>1, <2>3
<1> HIDE DEF D, Of, held, atEnd
<1>7. IsFiniteSet(A) /\ IsFiniteSet(B) /\ IsFiniteSet(C) /\ IsFiniteSet(F)
  BY <1>1, FS_Subset
<1>8. IsFiniteSet(A \cup B) /\ Cardinality(A \cup B) = Cardinality(A) + Cardinality(B)
  BY <1>5, <1>7, DisjointCount
<1>9. /\ IsFiniteSet((A \cup B) \cup C)
      /\ Cardinality((A \cup B) \cup C) = Cardinality(A \cup B) + Cardinality(C)
  BY <1>5, <1>7, <1>8, DisjointCount
<1>10. Cardinality(((A \cup B) \cup C) \cup F) = Cardinality((A \cup B) \cup C) + Cardinality(F)
  BY <1>5, <1>7, <1>9, DisjointCount
<1>11. Cardinality(F) = IF atEnd THEN 1 ELSE 0
  BY <1>6, FS_EmptySet, FS_Singleton
<1>12. Cardinality(A) \in Nat /\ Cardinality(B) \in Nat /\ Cardinality(C) \in Nat
  BY <1>7, FS_CardinalityType
<1>13. d.stopLoss + d.target + d.endOfDay = Len(h) - (IF atEnd THEN 1 ELSE 0)
  <2>1. PICK a \in Nat, b \in Nat, c \in Nat :
          a = Cardinality(A) /\ b = Cardinality(B) /\ c = Cardinality(C)
    BY <1>12
  <2>2. Len(h) = ((a + b) + c) + (IF atEnd THEN 1 ELSE 0)
    BY <1>1, <1>5, <1>8, <1>9, <1>10, <1>11, <2>1
  <2>3. d.stopLoss = a /\ d.target = b /\ d.endOfDay = c
    BY <1>3, <1>4, <2>1
  <2> QED
    BY <1>1, <2>2, <2>3
<1>14. 0 <= d.shortest /\ d.shortest <= d.longest
  <2>1. CASE held = {}
    BY <1>3, <2>1
  <2>2. CASE held # {}
    <3> DEFINE g == [i \in D |-> h[i].exitTime - h[i].entryTime]
    <3>1. held = {g[i] : i \in D}
      BY DEF held, D
    <3>2. \A i \in D : g[i] \in Int /\ 0 <= g[i]
      <4> SUFFICES ASSUME NEW i \in D PROVE g[i] \in Int /\ 0 <= g[i]
        OBVIOUS
      <4>1. h[i].entryTime \in Nat /\ h[i].exitTime \in Nat
        BY <1>1, TradeFields
      <4>2. h[i].entryTime <= h[i].exitTime
        BY DEF Ended, D
      <4> QED
        BY <4>1, <4>2
    <3> HIDE DEF g
    <3>3. IsFiniteSet({g[i] : i \in D})
      BY <1>1, ImageFinite
    <3>4. IsFiniteSet(held) /\ \A x \in held : x \in Int /\ 0 <= x
      BY <3>1, <3>2, <3>3
    <3>5. /\ Max(held) \in held /\ \A x \in held : Max(held) >= x
          /\ Min(held) \in held /\ \A x \in held : Min(held) <= x
      BY <2>2, <3>4, MaxMinOf
    <3> QED
      BY <1>3, <2>2, <3>4, <3>5
  <2> QED
    BY <2>1, <2>2
<1> QED
  BY <1>2, <1>13, <1>14 DEF atEnd

\* Candles in order of time; every trade entered on one after the warm-up.
Rising(cs) == \A i, j \in DOMAIN cs : i < j => cs[i].time < cs[j].time

EnteredOn(p, cs) == \E k \in DOMAIN cs : k > WarmupCandles /\ cs[k].time = p.entryTime

\* The entry candle of every trade is found, and is warm when market regimes need no
\* more candles than the replay.
LEMMA RegimesAddUp ==
  ASSUME NEW h \in Seq(Positions), NEW tape \in Seq(CandleSet), Rising(tape),
         \A i \in DOMAIN h : EnteredOn(h[i], tape), RegimeWarmup <= WarmupCandles
  PROVE  LET f == ByTrend(h, tape)
         IN /\ SumOf([l \in DOMAIN f |-> f[l].trades]) = Len(h)
            /\ SumOf([l \in DOMAIN f |-> f[l].netPnl]) = PnlOf(h, DOMAIN h)
<1> DEFINE At(time) == CHOOSE i \in DOMAIN tape : tape[i].time = time
           warm == {i \in DOMAIN h : At(h[i].entryTime) > RegimeWarmup}
           label == [i \in warm |-> TrendAt(tape[At(h[i].entryTime)])]
<1>1. ByTrend(h, tape) = BuildBuckets(h, label)
  BY DEF ByTrend
<1>2. ASSUME NEW i \in DOMAIN h PROVE At(h[i].entryTime) > RegimeWarmup
  <2>1. PICK k \in DOMAIN tape : k > WarmupCandles /\ tape[k].time = h[i].entryTime
    BY DEF EnteredOn
  <2>2. PICK j : j = At(h[i].entryTime)
    OBVIOUS
  <2>3. j \in DOMAIN tape /\ tape[j].time = h[i].entryTime
    BY <2>1, <2>2
  <2> HIDE DEF At
  <2>4. \A n \in DOMAIN tape : n \in Nat /\ tape[n].time \in Nat
    <3> SUFFICES ASSUME NEW n \in DOMAIN tape PROVE n \in Nat /\ tape[n].time \in Nat
      OBVIOUS
    <3>1. n \in Nat /\ tape[n] \in CandleSet
      BY ListFacts
    <3> QED
      BY <3>1 DEF CandleSet
  <2>5. ~(tape[j].time < tape[k].time) /\ ~(tape[k].time < tape[j].time)
    BY <2>1, <2>3, <2>4
  <2>6. ~(j < k) /\ ~(k < j)
    BY <2>1, <2>3, <2>5 DEF Rising
  <2>7. j = k
    BY <2>1, <2>3, <2>4, <2>6
  <2> QED
    BY <2>1, <2>2, <2>4, <2>7, AnalyticsAssumption, BacktestAssumption
<1>3. DOMAIN label = DOMAIN h
  BY <1>2
<1> HIDE DEF label
<1>4. LET f == BuildBuckets(h, label)
      IN /\ SumOf([l \in DOMAIN f |-> f[l].trades]) = Len(h)
         /\ SumOf([l \in DOMAIN f |-> f[l].netPnl]) = PnlOf(h, DOMAIN h)
  BY <1>3, BucketsAddUp
<1> QED
  BY <1>1, <1>4

\* The one strategy has made every trade.
LEMMA StrategyHasAll ==
  ASSUME NEW h \in Seq(Positions), NEW s \in DOMAIN AnalyzeStrategies(h)
  PROVE  LET f == AnalyzeStrategies(h)
         IN /\ f[s].grossProfit = PnlOf(h, Winning(h)) /\ f[s].grossLoss = -PnlOf(h, Losing(h))
            /\ f[s].bucket.trades = Len(h)
<1> DEFINE strategy == [i \in DOMAIN h |-> "EMABreakout"]
           buckets == BuildBuckets(h, strategy)
           By == {i \in DOMAIN h : strategy[i] = s}
<1>1. PICK f : f = AnalyzeStrategies(h)
  OBVIOUS
<1>2. /\ DOMAIN f = DOMAIN buckets
      /\ \A l \in DOMAIN buckets :
           /\ f[l].bucket = buckets[l]
           /\ f[l].grossProfit = PnlOf(h, {i \in DOMAIN h : strategy[i] = l} \cap Winning(h))
           /\ f[l].grossLoss = -PnlOf(h, {i \in DOMAIN h : strategy[i] = l} \cap Losing(h))
  BY <1>1 DEF AnalyzeStrategies
<1>3. /\ DOMAIN buckets = {strategy[i] : i \in DOMAIN h}
      /\ \A l \in DOMAIN buckets : buckets[l].trades = Cardinality({i \in DOMAIN h : strategy[i] = l})
  BY DEF BuildBuckets
<1>4. s \in DOMAIN buckets
  BY <1>1, <1>2
<1>5. s = "EMABreakout"
  BY <1>3, <1>4
<1>6. By = DOMAIN h
  BY <1>5
<1>7. DOMAIN h \cap Winning(h) = Winning(h) /\ DOMAIN h \cap Losing(h) = Losing(h)
  BY DEF Winning, Losing
<1>8. Cardinality(DOMAIN h) = Len(h)
  BY ListFacts
<1> HIDE DEF buckets, strategy
<1>9. f[s].grossProfit = PnlOf(h, By \cap Winning(h)) /\ f[s].grossLoss = -PnlOf(h, By \cap Losing(h))
  BY <1>2, <1>4
<1>10. f[s].bucket.trades = Cardinality(By)
  BY <1>2, <1>3, <1>4
<1> HIDE DEF By
<1> QED
  BY <1>1, <1>6, <1>7, <1>8, <1>9, <1>10

\* What a section of the report adds up to, by what each of them is.
Sums(f, h) ==
  /\ SumOf([l \in DOMAIN f |-> f[l].trades]) = Len(h)
  /\ SumOf([l \in DOMAIN f |-> f[l].netPnl]) = PnlOf(h, DOMAIN h)

LEMMA BucketsSum ==
  ASSUME NEW h \in Seq(Positions), NEW label, DOMAIN label = DOMAIN h,
         NEW f, f = BuildBuckets(h, label)
  PROVE  /\ Sums(f, h) /\ IsFiniteSet(DOMAIN f) /\ (DOMAIN f # {} <=> Len(h) > 0)
         /\ \A l \in DOMAIN f : f[l].netPnl \in Int
         /\ SumOf([l \in DOMAIN f |-> f[l].wins]) = Cardinality(Winning(h))
BY BucketsAddUp DEF Sums

LEMMA BucketsRanked ==
  ASSUME NEW h \in Seq(Positions), NEW label, DOMAIN label = DOMAIN h,
         NEW f, f = BuildBuckets(h, label), NEW report, report.trades = Len(h),
         report.netProfit = PnlOf(h, DOMAIN h)
  PROVE  RanksBuckets(f, Best(f), Worst(f), report)
<1>1. /\ Sums(f, h) /\ IsFiniteSet(DOMAIN f) /\ (DOMAIN f # {} <=> Len(h) > 0)
      /\ \A l \in DOMAIN f : f[l].netPnl \in Int
  BY BucketsSum
<1>2. PICK total : total = SumOf([l \in DOMAIN f |-> f[l].netPnl]) /\ total = report.netProfit
  BY <1>1 DEF Sums
<1>3. /\ \A l \in Best(f) : Cardinality(DOMAIN f) * f[l].netPnl >= total
      /\ \A l \in Worst(f) : Cardinality(DOMAIN f) * f[l].netPnl <= total
      /\ Best(f) # {} <=> DOMAIN f # {}
  BY <1>1, <1>2, BestAndWorst
<1> QED
  BY <1>1, <1>2, <1>3 DEF RanksBuckets

\* What GroupingsPartition says, from the trades, the curve and the candles.
LEMMA GroupingsDo ==
  ASSUME NEW h \in Seq(Positions), h = History, NEW curve \in Seq(Points), curve # <<>>,
         NEW capital, capital - InitialCapital = PnlOf(h, DOMAIN h),
         NEW tape \in Seq(CandleSet), Rising(tape), \A i \in DOMAIN h : EnteredOn(h[i], tape),
         Ended(h), DaysDrawn(h, curve)
  PROVE  GroupingsPartition(BuildAnalyticsReport(h, curve, capital, tape))
<1>1. PICK a : a = BuildAnalyticsReport(h, curve, capital, tape)
  OBVIOUS
<1>2. PICK report : report = a.overall
  OBVIOUS
<1>3. /\ report.trades = Len(h) /\ report.netProfit = PnlOf(h, DOMAIN h)
      /\ report.wins = Cardinality(Winning(h)) /\ report.maxDrawdown = MaxDrawdown(curve)
      /\ report.grossProfit = PnlOf(h, Winning(h)) /\ report.grossLoss = -PnlOf(h, Losing(h))
  BY <1>1, <1>2 DEF BuildAnalyticsReport, Report
<1>4. \A f : Sums(f, h) => Partitions(f, report)
  BY <1>3 DEF Sums, Partitions
<1>5. PICK time : /\ time = a.time /\ time.hour = ByHour(h) /\ time.weekday = ByWeekday(h)
                  /\ time.session = BySession(h) /\ time.expiry = ByExpiry(h)
                  /\ time.bestHour = Best(ByHour(h)) /\ time.worstHour = Worst(ByHour(h))
                  /\ time.bestWeekday = Best(ByWeekday(h)) /\ time.worstWeekday = Worst(ByWeekday(h))
  BY <1>1 DEF BuildAnalyticsReport, AnalyzeTime
<1>6. PICK d : /\ d = a.distribution /\ d = AnalyzeTradeDistribution(h)
               /\ d.byDirection = ByDirection(h) /\ d.byExitReason = ByExitReason(h)
  <2>1. PICK d : d = AnalyzeTradeDistribution(h)
    OBVIOUS
  <2>2. a.distribution = d
    BY <1>1, <2>1 DEF BuildAnalyticsReport
  <2>3. d.byDirection = ByDirection(h) /\ d.byExitReason = ByExitReason(h)
    BY <2>1, Zenon DEF AnalyzeTradeDistribution
  <2> QED
    BY <2>1, <2>2, <2>3
<1>7. /\ a.regimes = ByTrend(h, tape) /\ a.strategies = AnalyzeStrategies(h)
      /\ a.yearly = AnalyzeYearlyPerformance(h, curve)
      /\ a.monthly = AnalyzeMonthlyPerformance(h, curve)
  BY <1>1 DEF BuildAnalyticsReport
<1>8. Partitions(time.hour, report) /\ RanksBuckets(time.hour, time.bestHour, time.worstHour, report)
  <2>1. PICK label : /\ label = [i \in DOMAIN h |-> Minute(h[i].entryTime) \div 60]
                     /\ DOMAIN label = DOMAIN h /\ time.hour = BuildBuckets(h, label)
    BY <1>5 DEF ByHour
  <2>2. PICK f : f = time.hour /\ f = BuildBuckets(h, label)
    BY <2>1
  <2>3. Sums(f, h) /\ RanksBuckets(f, Best(f), Worst(f), report)
    BY <1>3, <2>1, <2>2, BucketsSum, BucketsRanked
  <2> QED
    BY <1>4, <1>5, <2>2, <2>3
<1>9. /\ Partitions(time.weekday, report)
      /\ RanksBuckets(time.weekday, time.bestWeekday, time.worstWeekday, report)
  <2>1. PICK label : /\ label = [i \in DOMAIN h |-> Day(h[i].entryTime) % 7]
                     /\ DOMAIN label = DOMAIN h /\ time.weekday = BuildBuckets(h, label)
    BY <1>5 DEF ByWeekday
  <2>2. PICK f : f = time.weekday /\ f = BuildBuckets(h, label)
    BY <2>1
  <2>3. Sums(f, h) /\ RanksBuckets(f, Best(f), Worst(f), report)
    BY <1>3, <2>1, <2>2, BucketsSum, BucketsRanked
  <2> QED
    BY <1>4, <1>5, <2>2, <2>3
<1>10. /\ Partitions(time.session, report)
       /\ SumOf([l \in DOMAIN time.session |-> time.session[l].wins]) = report.wins
  <2>1. PICK label : /\ label = [i \in DOMAIN h |-> SessionLabel(h[i])]
                     /\ DOMAIN label = DOMAIN h /\ time.session = BuildBuckets(h, label)
    BY <1>5 DEF BySession
  <2>2. PICK f : f = time.session
    OBVIOUS
  <2>3. Sums(f, h) /\ SumOf([l \in DOMAIN f |-> f[l].wins]) = Cardinality(Winning(h))
    BY <2>1, <2>2, BucketsSum
  <2> QED
    BY <1>3, <1>4, <2>2, <2>3
<1>11. ExpiryDays # {} => Partitions(time.expiry, report)
  <2> SUFFICES ASSUME ExpiryDays # {} PROVE Partitions(time.expiry, report)
    OBVIOUS
  <2>1. PICK label : /\ label = [i \in DOMAIN h |-> Day(h[i].entryTime) \in ExpiryDays]
                     /\ DOMAIN label = DOMAIN h /\ time.expiry = BuildBuckets(h, label)
    BY <1>5 DEF ByExpiry
  <2> QED
    BY <1>4, <2>1, BucketsSum
<1>12. Partitions(d.byDirection, report)
  <2>1. PICK label : /\ label = [i \in DOMAIN h |-> "Long"]
                     /\ DOMAIN label = DOMAIN h /\ d.byDirection = BuildBuckets(h, label)
    BY <1>6 DEF ByDirection
  <2> QED
    BY <1>4, <2>1, BucketsSum
<1>13. Partitions(d.byExitReason, report)
  <2>1. PICK label : /\ label = [i \in DOMAIN h |-> h[i].reason]
                     /\ DOMAIN label = DOMAIN h /\ d.byExitReason = BuildBuckets(h, label)
    BY <1>6 DEF ByExitReason
  <2> QED
    BY <1>4, <2>1, BucketsSum
<1>14. RegimeWarmup <= WarmupCandles => Partitions(a.regimes, report)
  <2> SUFFICES ASSUME RegimeWarmup <= WarmupCandles PROVE Partitions(a.regimes, report)
    OBVIOUS
  <2>1. PICK f : f = a.regimes
    OBVIOUS
  <2>2. Sums(f, h)
    BY <1>7, <2>1, RegimesAddUp DEF Sums
  <2> QED
    BY <1>4, <2>1, <2>2
<1>15. /\ Partitions(a.yearly, report)
       /\ \A y \in DOMAIN a.yearly : a.yearly[y].maxDrawdown <= report.maxDrawdown
  <2>1. PICK f : f = a.yearly
    OBVIOUS
  <2>2. Sums(f, h) /\ \A y \in DOMAIN f : f[y].maxDrawdown <= MaxDrawdown(curve)
    BY <1>7, <2>1, YearsAddUp DEF Sums
  <2> QED
    BY <1>3, <1>4, <2>1, <2>2
<1>16. Partitions(a.monthly, report)
  <2>1. PICK f : f = a.monthly
    OBVIOUS
  <2>2. Sums(f, h)
    BY <1>7, <2>1, MonthsAddUp DEF Sums
  <2> QED
    BY <1>4, <2>1, <2>2
<1>17. \A s \in DOMAIN a.strategies :
         /\ a.strategies[s].grossProfit = report.grossProfit
         /\ a.strategies[s].grossLoss = report.grossLoss
         /\ a.strategies[s].bucket.trades = report.trades
  BY <1>3, <1>7, StrategyHasAll
<1>18. /\ d.stopLoss + d.target + d.endOfDay
            = report.trades - (IF h # <<>> /\ Last(h).reason = "EndOfData" THEN 1 ELSE 0)
       /\ 0 <= d.shortest /\ d.shortest <= d.longest
  BY <1>3, <1>6, ExitsShared
<1>19. /\ a.distribution.stopLoss + a.distribution.target + a.distribution.endOfDay
            = report.trades - (IF History # <<>> /\ Last(History).reason = "EndOfData" THEN 1 ELSE 0)
       /\ 0 <= a.distribution.shortest /\ a.distribution.shortest <= a.distribution.longest
  BY <1>6, <1>18
<1> HIDE DEF History
<1>20. GroupingsPartition(a)
  BY <1>2, <1>5, <1>6, <1>8, <1>9, <1>10, <1>11, <1>12, <1>13, <1>14, <1>15, <1>16, <1>17, <1>19
     DEF GroupingsPartition
<1> QED
  BY <1>1, <1>20

-----------------------------------------------------------------------------
(* The figures of a backtest *)

\* What the figures need of a replay besides its books: its candles rise, each trade was
\* entered on one of them after the warm-up, and only the end of the data ends the last.
FiguresInv ==
  /\ equity_curve \in Seq(Points) /\ Rising(candles) /\ Ended(book.trades)
  /\ \A i \in DOMAIN book.trades : EnteredOn(book.trades[i], candles)
  /\ book.position # None => EnteredOn(book.position, candles)

\* One more candle.
LEMMA CandlesRise ==
  ASSUME NEW cs \in Seq(CandleSet), NEW c \in CandleSet, Rising(cs),
         cs # <<>> => c.time > cs[Len(cs)].time
  PROVE  /\ Rising(Append(cs, c))
         /\ \A p : EnteredOn(p, cs) => EnteredOn(p, Append(cs, c)) /\ p.entryTime <= c.time
         /\ Len(cs) >= WarmupCandles => \A p : p.entryTime = c.time => EnteredOn(p, Append(cs, c))
<1>1. PICK n \in Nat : n = Len(cs) /\ DOMAIN cs = 1 .. n /\ (cs # <<>> <=> n # 0)
  <2>1. Len(cs) \in Nat /\ DOMAIN cs = 1 .. Len(cs) /\ (cs # <<>> <=> Len(cs) # 0)
    OBVIOUS
  <2> QED
    BY <2>1
<1>2. PICK g : g = Append(cs, c)
  OBVIOUS
<1>3. /\ DOMAIN g = 1 .. n + 1 /\ g[n + 1] = c /\ \A i \in 1 .. n : g[i] = cs[i]
  BY <1>1, <1>2
<1>4. \A i \in 1 .. n : cs[i].time \in Nat
  <2> SUFFICES ASSUME NEW i \in 1 .. n PROVE cs[i].time \in Nat
    OBVIOUS
  <2>1. cs[i] \in CandleSet
    BY <1>1
  <2> QED
    BY <2>1 DEF CandleSet
<1>5. c.time \in Nat
  BY DEF CandleSet
<1>6. \A i \in 1 .. n : cs[i].time < c.time
  <2> SUFFICES ASSUME NEW i \in 1 .. n PROVE cs[i].time < c.time
    OBVIOUS
  <2>1. n \in 1 .. n /\ cs[n].time < c.time
    <3>1. n \in 1 .. n /\ cs # <<>>
      BY <1>1
    <3> QED
      BY <1>1, <1>4, <1>5, <3>1
  <2>2. i < n => cs[i].time < cs[n].time
    BY <1>1, <2>1 DEF Rising
  <2>3. i < n \/ i = n
    OBVIOUS
  <2> QED
    BY <1>4, <1>5, <2>1, <2>2, <2>3
<1>7. Rising(g)
  <2> SUFFICES ASSUME NEW i \in 1 .. n + 1, NEW j \in 1 .. n + 1, i < j
               PROVE  g[i].time < g[j].time
    BY <1>3 DEF Rising
  <2>1. i \in 1 .. n /\ (j \in 1 .. n \/ j = n + 1)
    OBVIOUS
  <2>2. CASE j \in 1 .. n
    BY <1>1, <1>3, <2>1, <2>2 DEF Rising
  <2>3. CASE j = n + 1
    BY <1>3, <1>6, <2>1, <2>3
  <2> QED
    BY <2>1, <2>2, <2>3
<1>8. ASSUME NEW p, EnteredOn(p, cs)
      PROVE  EnteredOn(p, g) /\ p.entryTime <= c.time
  <2>1. PICK k \in 1 .. n : k > WarmupCandles /\ cs[k].time = p.entryTime
    BY <1>1, <1>8 DEF EnteredOn
  <2>2. k \in DOMAIN g /\ g[k] = cs[k]
    BY <1>3
  <2>3. EnteredOn(p, g)
    BY <2>1, <2>2 DEF EnteredOn
  <2>4. cs[k].time <= c.time
    BY <1>4, <1>5, <1>6
  <2> QED
    BY <2>1, <2>3, <2>4
<1>9. ASSUME NEW p, p.entryTime = c.time, n >= WarmupCandles PROVE EnteredOn(p, g)
  <2>1. n + 1 > WarmupCandles /\ n + 1 \in DOMAIN g
    BY <1>3, <1>9, BacktestAssumption
  <2> QED
    BY <1>3, <1>9, <2>1 DEF EnteredOn
<1> QED
  BY <1>1, <1>2, <1>7, <1>8, <1>9

\* An entry was no later than the last candle.
LEMMA EnteredBefore ==
  ASSUME NEW cs \in Seq(CandleSet), Rising(cs), NEW p, EnteredOn(p, cs)
  PROVE  p.entryTime <= cs[Len(cs)].time
<1>1. PICK n \in Nat : n = Len(cs) /\ DOMAIN cs = 1 .. n
  <2>1. Len(cs) \in Nat /\ DOMAIN cs = 1 .. Len(cs)
    OBVIOUS
  <2> QED
    BY <2>1
<1>2. PICK k \in 1 .. n : cs[k].time = p.entryTime
  BY <1>1 DEF EnteredOn
<1>3. n \in 1 .. n /\ (k < n \/ k = n)
  OBVIOUS
<1>4. cs[k].time \in Nat /\ cs[n].time \in Nat
  <2>1. cs[k] \in CandleSet /\ cs[n] \in CandleSet
    BY <1>1, <1>3
  <2> QED
    BY <2>1 DEF CandleSet
<1>5. k < n => cs[k].time < cs[n].time
  BY <1>1, <1>3 DEF Rising
<1> QED
  BY <1>1, <1>2, <1>3, <1>4, <1>5

\* One more trade that has ended, after others that were not forced.
LEMMA EndedGrows ==
  ASSUME NEW h \in Seq(Positions), Ended(h), \A i \in DOMAIN h : h[i].reason # "EndOfData", NEW t,
         t.reason \in {"StopLoss", "Target", "EndOfDay", "EndOfData"}, t.entryTime <= t.exitTime
  PROVE  Ended(Append(h, t))
<1>1. PICK g : g = Append(h, t)
  OBVIOUS
<1>2. Listed(h)
  BY DEF Listed
<1>3. /\ g[Len(g)] = t /\ \A i \in DOMAIN h : g[i] = h[i]
      /\ \A i \in DOMAIN g : i \in DOMAIN h \/ i = Len(g)
  BY <1>1, <1>2, ListAppended
<1>4. ASSUME NEW i \in DOMAIN g
      PROVE  /\ g[i].reason \in {"StopLoss", "Target", "EndOfDay", "EndOfData"}
             /\ g[i].reason = "EndOfData" => i = Len(g)
             /\ g[i].entryTime <= g[i].exitTime
  <2>1. CASE i \in DOMAIN h
    BY <1>3, <2>1 DEF Ended
  <2>2. CASE i = Len(g)
    BY <1>3, <2>2
  <2> QED
    BY <1>3, <2>1, <2>2
<1> QED
  BY <1>1, <1>4 DEF Ended

\* An exit leaves the book, or makes the open position a trade that ends with the candle.
ClosedBy(b, c, e) ==
  /\ b.position # None /\ e.position = None
  /\ \E t : /\ t.entryTime = b.position.entryTime /\ t.exitTime = c.time
            /\ t.reason \in {"StopLoss", "Target", "EndOfDay"} /\ e.trades = Append(b.trades, t)

LEMMA ExitCloses ==
  ASSUME NEW b \in Books, NEW c
  PROVE  Exit(b, c) = b \/ ClosedBy(b, c, Exit(b, c))
<1> DEFINE p == b.position
           t == CheckExit(p, c)
<1>1. CASE p = None \/ t = None
  BY <1>1 DEF Exit
<1>2. CASE p # None /\ t # None
  <2>1. p \in Positions
    BY <1>2, BookFields
  <2>2. PICK price, reason : t = Close(p, c.time, price, reason) /\ reason \in {"StopLoss", "Target", "EndOfDay"}
    <3>1. CASE c.low <= p.stop
      BY <3>1 DEF CheckExit
    <3>2. CASE ~(c.low <= p.stop) /\ c.high >= p.target
      BY <3>2 DEF CheckExit
    <3>3. CASE ~(c.low <= p.stop) /\ ~(c.high >= p.target)
      BY <1>2, <3>3 DEF CheckExit
    <3> QED
      BY <3>1, <3>2, <3>3
  <2>3. t.exitTime = c.time /\ t.entryTime = p.entryTime /\ t.reason = reason
    BY <2>1, <2>2 DEF Close, Positions
  <2>4. Exit(b, c) = BookExit(b, t)
    BY <1>2 DEF Exit
  <2> HIDE DEF t
  <2>5. BookExit(b, t).trades = Append(b.trades, t) /\ BookExit(b, t).position = None
    BY DEF BookExit, Books
  <2> QED
    BY <1>2, <2>2, <2>3, <2>4, <2>5 DEF ClosedBy
<1> QED
  BY <1>1, <1>2

\* A candle of the replay, seen from the trades: the book exits, then may enter.
Replayed(r, c, b) == /\ r.trades = book.trades /\ r.position = book.position
                     /\ (b = r \/ ClosedBy(r, c, b))
                     /\ book'.trades = b.trades
                     /\ (book'.position = b.position \/ book'.position.entryTime = c.time)

LEMMA ReplayBook ==
  ASSUME BacktestInv, phase = "replay", NEW c \in NextCandles, NEW setup \in BOOLEAN,
         Replay(c, setup)
  PROVE  \E r \in Books : \E b : Replayed(r, c, b)
<1>1. PICK r : r = RollDay(book, c)
  OBVIOUS
<1>2. PICK b : b = Exit(r, c)
  OBVIOUS
<1>3. book \in Books /\ c \in CandleSet
  BY NextCandle DEF BacktestInv
<1>4. r \in Books /\ r.trades = book.trades /\ r.position = book.position
  <2>1. CASE book.date = Day(c.time)
    BY <1>1, <1>3, <2>1 DEF RollDay
  <2>2. CASE book.date # Day(c.time)
    <3>1. Day(c.time) \in Nat
      BY <1>3, DayMoves DEF CandleSet
    <3>2. r = [capital |-> book.capital, position |-> book.position, trades |-> book.trades,
               closedAt |-> book.closedAt, date |-> Day(c.time), takenToday |-> 0, lossToday |-> 0]
      BY <1>1, <1>3, <2>2 DEF RollDay, Books
    <3>3. /\ r.capital = book.capital /\ r.position = book.position /\ r.trades = book.trades
          /\ r.closedAt = book.closedAt /\ r.date = Day(c.time) /\ r.takenToday = 0 /\ r.lossToday = 0
          /\ r = [capital |-> r.capital, position |-> r.position, trades |-> r.trades,
                  closedAt |-> r.closedAt, date |-> r.date, takenToday |-> r.takenToday,
                  lossToday |-> r.lossToday]
      BY <3>2
    <3>4. r \in Books
      BY <1>3, <3>1, <3>3, BookFields, BookBuilt
    <3> QED
      BY <3>3, <3>4
  <2> QED
    BY <2>1, <2>2
<1>5. b = r \/ ClosedBy(r, c, b)
  BY <1>2, <1>4, ExitCloses
<1>6. ASSUME NEW x
      PROVE  [b EXCEPT !.position = x].trades = b.trades /\ [b EXCEPT !.position = x].position = x
  <2>1. CASE b = r
    BY <1>4, <2>1 DEF Books
  <2>2. CASE b # r
    <3>1. PICK t : b = BookExit(r, t)
      BY <1>2, <2>2 DEF Exit
    <3>2. PICK capital, lossToday, trades, takenToday, closedAt :
            b = [capital |-> capital, position |-> None, trades |-> trades, closedAt |-> closedAt,
                 date |-> r.date, takenToday |-> takenToday, lossToday |-> lossToday]
      BY <1>4, <3>1 DEF BookExit, Books
    <3> QED
      BY <3>2
  <2> QED
    BY <2>1, <2>2
<1>7. PICK x : x = BuildOpenPosition(b, c) /\ x.entryTime = c.time
  <2>1. BuildOpenPosition(b, c).entryTime = c.time
    BY DEF BuildOpenPosition
  <2> QED
    BY <2>1
<1>8. book' = IF setup THEN [b EXCEPT !.position = x] ELSE b
  BY <1>1, <1>2, <1>7 DEF Replay
<1>9. book'.trades = b.trades /\ (book'.position = b.position \/ book'.position.entryTime = c.time)
  BY <1>6, <1>7, <1>8
<1>10. Replayed(r, c, b)
  BY <1>4, <1>5, <1>9 DEF Replayed
<1> QED
  BY <1>4, <1>10

LEMMA ReplayFigures ==
  ASSUME BacktestInv, FiguresInv, phase = "replay", NEW c \in NextCandles, NEW setup \in BOOLEAN,
         Replay(c, setup)
  PROVE  FiguresInv'
<1>1. /\ candles' = Append(candles, c) /\ Len(candles) >= WarmupCandles
      /\ equity_curve' = Append(equity_curve, [time |-> c.time, equity |-> MarkedEquity(book', c)])
  BY BacktestAssumption DEF Replay, BacktestInv
<1>2. PICK cs \in Seq(CandleSet) : cs = candles
  BY DEF BacktestInv
<1>3. c \in CandleSet /\ c.time \in Nat /\ c.close \in Int /\ (cs # <<>> => c.time > cs[Len(cs)].time)
  BY <1>2, NextCandle DEF CandleSet
<1>4. PICK longer : longer = Append(cs, c) /\ longer = candles'
  BY <1>1, <1>2
<1>5. /\ Rising(longer)
      /\ \A p : EnteredOn(p, cs) => EnteredOn(p, longer) /\ p.entryTime <= c.time
      /\ \A p : p.entryTime = c.time => EnteredOn(p, longer)
  <2>1. Rising(cs) /\ Len(cs) >= WarmupCandles
    BY <1>1, <1>2 DEF FiguresInv
  <2> QED
    BY <1>3, <1>4, <2>1, CandlesRise
<1>6. PICK r \in Books : \E b : Replayed(r, c, b)
  BY ReplayBook
<1> PICK b : Replayed(r, c, b)
  BY <1>6
<1>16. /\ r \in Books /\ r.trades = book.trades /\ r.position = book.position
       /\ (b = r \/ ClosedBy(r, c, b))
       /\ book'.trades = b.trades
       /\ (book'.position = b.position \/ book'.position.entryTime = c.time)
  BY <1>6 DEF Replayed
<1>7. PICK h \in Seq(Positions) : h = book.trades /\ h = r.trades
  BY <1>16, BookFields
<1>8. PICK g : g = book'.trades /\ g = b.trades
  BY <1>16
<1>9. book.position # None => EnteredOn(book.position, cs)
  BY <1>2 DEF FiguresInv
<1>10. Ended(h) /\ \A i \in DOMAIN h : EnteredOn(h[i], longer)
  BY <1>2, <1>5, <1>7 DEF FiguresInv
<1>11. Ended(g) /\ \A i \in DOMAIN g : EnteredOn(g[i], longer)
  <2>1. CASE b = r
    BY <1>7, <1>8, <1>10, <2>1
  <2>2. CASE ClosedBy(r, c, b)
    <3>1. PICK t : /\ t.entryTime = book.position.entryTime /\ t.exitTime = c.time
                   /\ t.reason \in {"StopLoss", "Target", "EndOfDay"} /\ g = Append(h, t)
      BY <1>16, <1>7, <1>8, <2>2 DEF ClosedBy
    <3>2. EnteredOn(book.position, longer) /\ book.position.entryTime <= c.time
      BY <1>5, <1>16, <1>9, <2>2 DEF ClosedBy
    <3>3. EnteredOn(t, longer) /\ t.entryTime <= t.exitTime
      BY <3>1, <3>2 DEF EnteredOn
    <3>4. \A i \in DOMAIN h : h[i].reason # "EndOfData"
      <4>1. CASE cs = <<>>
        <5>1. Len(candles) <= WarmupCandles
          BY <1>2, <4>1, BacktestAssumption
        <5>2. h = <<>>
          BY <1>7, <5>1, NewBookFacts DEF BacktestInv
        <5> QED
          BY <5>2
      <4>2. CASE cs # <<>>
        BY <1>2, <1>7, <4>2 DEF BacktestInv, BookOK, InOrder
      <4> QED
        BY <4>1, <4>2
    <3>5. Ended(g)
      BY <1>10, <3>1, <3>3, <3>4, EndedGrows
    <3>6. /\ g[Len(g)] = t /\ \A i \in DOMAIN h : g[i] = h[i]
          /\ \A i \in DOMAIN g : i \in DOMAIN h \/ i = Len(g)
      <4>1. Listed(h)
        BY DEF Listed
      <4> QED
        BY <3>1, <4>1, ListAppended
    <3> QED
      BY <1>10, <3>3, <3>5, <3>6
  <2> QED
    BY <1>16, <2>1, <2>2
<1>12. book'.position # None => EnteredOn(book'.position, longer)
  <2>1. CASE book'.position.entryTime = c.time
    BY <1>5, <2>1
  <2>2. CASE book'.position = b.position
    <3>1. CASE b = r
      BY <1>5, <1>16, <1>9, <2>2, <3>1
    <3>2. CASE ClosedBy(r, c, b)
      BY <2>2, <3>2 DEF ClosedBy
    <3> QED
      BY <1>16, <3>1, <3>2
  <2> QED
    BY <1>16, <2>1, <2>2
<1>13. equity_curve' \in Seq(Points)
  <2>1. book' \in Books
    <3>1. BacktestInv'
      BY ReplayKeeps
    <3> QED
      BY <3>1 DEF BacktestInv
  <2>2. MarkedEquity(book', c) \in Int
    <3>1. PICK e \in Books : e = book'
      BY <2>1
    <3>2. e.capital \in Int /\ e.position \in Positions \cup {None}
      BY BookFields
    <3>3. CASE e.position = None
      BY <3>1, <3>2, <3>3 DEF MarkedEquity
    <3>4. CASE e.position # None
      <4>1. e.position.entry \in Int /\ e.position.quantity \in Int
        BY <3>2, <3>4, TradeFields
      <4> QED
        BY <1>3, <3>1, <3>2, <3>4, <4>1 DEF MarkedEquity
    <3> QED
      BY <3>3, <3>4
  <2>3. PICK x \in Int : x = MarkedEquity(book', c)
    BY <2>2
  <2>4. [time |-> c.time, equity |-> x] \in Points
    BY <1>3 DEF Points
  <2>5. equity_curve \in Seq(Points)
    BY DEF FiguresInv
  <2> QED
    BY <1>1, <2>3, <2>4, <2>5
<1>14. /\ Rising(candles') /\ Ended(book'.trades)
       /\ \A i \in DOMAIN book'.trades : EnteredOn(book'.trades[i], candles')
       /\ (book'.position # None => EnteredOn(book'.position, candles'))
  BY <1>4, <1>5, <1>8, <1>11, <1>12
<1> QED
  BY <1>13, <1>14 DEF FiguresInv

\* The forced close ends with the last candle.
LEMMA FinishFigures ==
  ASSUME BacktestInv, FiguresInv, phase = "replay", Finish
  PROVE  FiguresInv'
<1>1. Len(candles) > WarmupCandles /\ candles' = candles
  BY DEF Finish
<1>2. /\ book \in Books /\ equity_curve \in Seq(Points) /\ Rising(candles) /\ Ended(book.trades)
      /\ \A i \in DOMAIN book.trades : EnteredOn(book.trades[i], candles)
      /\ book.position # None => EnteredOn(book.position, candles)
  BY DEF FiguresInv, BacktestInv
<1>3. PICK cs \in Seq(CandleSet) : cs = candles /\ cs # <<>> /\ Len(cs) \in DOMAIN cs
  <2>1. candles \in Seq(CandleSet)
    BY DEF BacktestInv
  <2>2. WarmupCandles \in Nat /\ Len(candles) \in Nat /\ DOMAIN candles = 1 .. Len(candles)
    BY <2>1, BacktestAssumption
  <2>3. Len(candles) # 0 /\ Len(candles) \in DOMAIN candles
    BY <1>1, <2>2
  <2> QED
    BY <2>1, <2>3
<1>4. PICK last \in CandleSet : last = cs[Len(cs)] /\ last.time \in Nat /\ last.close \in Int
  <2>1. cs[Len(cs)] \in CandleSet
    BY <1>3
  <2> QED
    BY <2>1 DEF CandleSet
<1>5. CASE book.position = None
  <2>1. UNCHANGED <<book, equity_curve>>
    BY <1>5 DEF Finish
  <2> QED
    BY <1>1, <1>2, <2>1 DEF FiguresInv
<1>6. CASE book.position # None
  <2>1. PICK p \in Positions : p = book.position
    BY <1>2, <1>6, BookFields
  <2>2. PICK t : t = Close(p, last.time, last.close, "EndOfData")
    OBVIOUS
  <2>3. /\ t.exitTime = last.time /\ t.entryTime = p.entryTime /\ t.reason = "EndOfData"
        /\ t.pnl = (last.close - p.entry) * p.quantity
    BY <2>1, <2>2 DEF Close, Positions
  <2>4. t.pnl \in Int /\ book.capital \in Int
    <3>1. p.entry \in Int /\ p.quantity \in Int
      BY TradeFields
    <3> QED
      BY <1>2, <1>4, <2>3, <3>1, BookFields
  <2> DEFINE g == Append(book.trades, t)
             point == [time |-> last.time, equity |-> book.capital + t.pnl]
  <2>5. /\ book'.trades = g /\ book'.position = book.position
        /\ equity_curve' = Append(equity_curve, point)
    <3>1. t = Close(book.position, Last(candles).time, Last(candles).close, "EndOfData")
      BY <1>3, <1>4, <2>1, <2>2 DEF Last
    <3>2. /\ book' = [book EXCEPT !.capital = book.capital + t.pnl, !.trades = g]
          /\ equity_curve' = Append(equity_curve, point)
      BY <1>2, <1>3, <1>4, <1>6, <3>1 DEF Finish, ForceClose, Books, Last
    <3> HIDE DEF g, point
    <3> QED
      BY <1>2, <3>2 DEF Books
  <2>6. point \in Points
    BY <1>4, <2>4 DEF Points
  <2> HIDE DEF point
  <2>7. PICK h \in Seq(Positions) : h = book.trades
    BY <1>2, BookFields
  <2>8. EnteredOn(t, cs) /\ t.entryTime <= t.exitTime
    <3>1. EnteredOn(p, cs)
      BY <1>2, <1>3, <1>6, <2>1
    <3>2. p.entryTime <= last.time
      BY <1>2, <1>3, <1>4, <3>1, EnteredBefore
    <3> QED
      BY <2>3, <3>1, <3>2 DEF EnteredOn
  <2>9. \A i \in DOMAIN h : h[i].reason # "EndOfData"
    BY <1>3, <2>7 DEF BacktestInv, BookOK, InOrder
  <2>10. Ended(g)
    BY <1>2, <2>3, <2>7, <2>8, <2>9, EndedGrows
  <2>11. /\ g[Len(g)] = t /\ \A i \in DOMAIN h : g[i] = h[i]
         /\ \A i \in DOMAIN g : i \in DOMAIN h \/ i = Len(g)
    <3>1. Listed(h)
      BY DEF Listed
    <3> QED
      BY <2>7, <3>1, ListAppended
  <2>12. \A i \in DOMAIN g : EnteredOn(g[i], cs)
    <3> HIDE DEF g
    <3>1. \A i \in DOMAIN h : EnteredOn(h[i], cs)
      BY <1>2, <1>3, <2>7
    <3> QED
      BY <2>8, <2>11, <3>1
  <2>13. equity_curve' \in Seq(Points)
    BY <1>2, <2>5, <2>6
  <2> HIDE DEF g
  <2>14. /\ Rising(candles') /\ Ended(book'.trades)
         /\ \A i \in DOMAIN book'.trades : EnteredOn(book'.trades[i], candles')
         /\ (book'.position # None => EnteredOn(book'.position, candles'))
    BY <1>1, <1>2, <1>3, <2>5, <2>10, <2>12
  <2> QED
    BY <2>13, <2>14 DEF FiguresInv
<1> QED
  BY <1>5, <1>6

LEMMA WarmUpFigures ==
  ASSUME BacktestInv, FiguresInv, phase = "replay", NEW c \in NextCandles, WarmUp(c)
  PROVE  FiguresInv'
<1>1. /\ Len(candles) < WarmupCandles /\ candles' = Append(candles, c)
      /\ UNCHANGED <<book, equity_curve>>
  BY DEF WarmUp
<1>2. PICK cs \in Seq(CandleSet) : cs = candles
  BY DEF BacktestInv
<1>3. c \in CandleSet /\ (cs # <<>> => c.time > cs[Len(cs)].time)
  BY <1>2, NextCandle
<1>4. /\ Rising(Append(cs, c)) /\ \A p : EnteredOn(p, cs) => EnteredOn(p, Append(cs, c))
  <2>1. Rising(cs)
    BY <1>2 DEF FiguresInv
  <2> QED
    BY <1>3, <2>1, CandlesRise
<1>5. /\ Rising(candles') /\ Ended(book'.trades)
      /\ \A i \in DOMAIN book'.trades : EnteredOn(book'.trades[i], candles')
      /\ (book'.position # None => EnteredOn(book'.position, candles'))
      /\ equity_curve' \in Seq(Points)
  BY <1>1, <1>2, <1>4 DEF FiguresInv
<1> QED
  BY <1>5 DEF FiguresInv

\* The inductive invariant of a backtest's figures, along every job.
THEOREM FiguresInvariant == Spec => [](BacktestInv /\ CurveInv /\ FiguresInv)
<1>1. Init => FiguresInv
  <2> SUFFICES ASSUME Init PROVE FiguresInv
    OBVIOUS
  <2>1. candles = <<>> /\ book = NewBook /\ equity_curve = <<>>
    BY DEF Init, BacktestInit
  <2>2. PICK e : e = <<>> /\ DOMAIN e = {} /\ e \in Seq(Points)
    <3>1. <<>> \in Seq(Points) /\ DOMAIN <<>> = {}
      OBVIOUS
    <3> QED
      BY <3>1
  <2>3. book.trades = e /\ book.position = None /\ candles = e /\ equity_curve = e
    BY <2>1, <2>2 DEF NewBook
  <2> QED
    BY <2>2, <2>3 DEF FiguresInv, Rising, Ended
<1>2. BacktestInv /\ FiguresInv /\ [Next]_vars => FiguresInv'
  <2> SUFFICES ASSUME BacktestInv, FiguresInv, [Next]_vars PROVE FiguresInv'
    OBVIOUS
  <2>1. CASE BacktestNext
    <3>1. CASE Refuse
      <4>1. UNCHANGED <<candles, book, equity_curve>>
        BY <3>1 DEF Refuse
      <4> QED
        BY <4>1 DEF FiguresInv
    <3> QED
      BY <2>1, <3>1, WarmUpFigures, ReplayFigures, FinishFigures DEF BacktestNext
  <2>2. CASE UNCHANGED backtestVars
    <3>1. UNCHANGED <<candles, book, equity_curve>>
      BY <2>2 DEF backtestVars
    <3> QED
      BY <3>1 DEF FiguresInv
  <2> QED
    BY <2>1, <2>2 DEF Next, vars
<1> QED
  BY <1>1, <1>2, CurveInvariant, PTL DEF Spec

\* What the analytics of a backtest compute twice, or group in several ways, agrees: the
\* drawdown with the episodes, the two walks over the streaks, and every grouping with
\* the report (FiguresAgree), for every bar, stamp, size, session, calendar and limit.
THEOREM FiguresStayAgreed == Spec => []FiguresAgree
<1>1. BacktestInv /\ CurveInv /\ FiguresInv => FiguresAgree
  <2> SUFFICES ASSUME BacktestInv, CurveInv, FiguresInv, phase = "done" PROVE FiguresAgree
    BY DEF FiguresAgree
  <2>1. PICK h \in Seq(Positions) : h = History
    BY BookFields DEF BacktestInv, History
  <2>2. PICK curve \in Seq(Points) : curve = equity_curve /\ curve # <<>> /\ DaysDrawn(h, curve)
    BY <2>1 DEF FiguresInv, CurveInv, History
  <2>3. PICK tape \in Seq(CandleSet) : tape = candles /\ Rising(tape)
    BY DEF BacktestInv, FiguresInv
  <2>4. Ended(h) /\ \A i \in DOMAIN h : EnteredOn(h[i], tape)
    BY <2>1, <2>3 DEF FiguresInv, History
  <2>5. PICK capital : capital = book.capital
    OBVIOUS
  <2>6. capital - InitialCapital = PnlOf(h, DOMAIN h)
    <3>1. PnlOf(h, DOMAIN h) = PnlBefore(h, Len(h) + 1)
      BY PnlParts
    <3>2. PnlOf(h, DOMAIN h) \in Int
      BY PnlOfType
    <3>3. capital = InitialCapital + PnlBefore(h, Len(h) + 1)
      BY <2>1, <2>5 DEF CurveInv, History
    <3> QED
      BY <3>1, <3>2, <3>3, BacktestAssumption
  <2>7. PICK a : a = BuildAnalyticsReport(h, curve, capital, tape)
    OBVIOUS
  <2>8. GroupingsPartition(a)
    BY <2>1, <2>2, <2>3, <2>4, <2>6, <2>7, GroupingsDo
  <2>9. PICK report : report = a.overall /\ report = Report(h, curve, capital)
    BY <2>7 DEF BuildAnalyticsReport
  <2>10. /\ report.maxDrawdown = MaxDrawdown(curve) /\ report.wins = Cardinality(Winning(h))
         /\ report.losses = Cardinality(Losing(h))
    BY <2>9 DEF Report
  <2>11. a.hasRecovery = (MaxDrawdown(curve) > 0)
    <3>1. a.hasRecovery = RecoveryDefined(report)
      BY <2>7, <2>9, Zenon DEF BuildAnalyticsReport
    <3> QED
      BY <2>10, <3>1 DEF RecoveryDefined
  <2>12. PICK risk : /\ risk = a.risk /\ risk.longestWinning = CalculateStreaks(h).maxWin
                     /\ risk.longestLosing = CalculateStreaks(h).maxLoss
                     /\ risk.winning = AllStreakLengths(h).winning
                     /\ risk.losing = AllStreakLengths(h).losing
                     /\ risk.episodes = IdentifyDrawdownEpisodes(curve)
                     /\ risk.peak = LargestEquityPeak(curve) /\ risk.valley = LargestEquityValley(curve)
    BY <2>7 DEF BuildAnalyticsReport, AnalyzeRisk
  <2>13. DrawdownsAgree(a)
    BY <2>2, <2>9, <2>10, <2>11, <2>12, DrawdownsDo
  <2>14. StreaksAgree(a)
    BY <2>9, <2>10, <2>12, StreaksDo
  <2> QED
    BY <2>1, <2>2, <2>3, <2>5, <2>7, <2>8, <2>13, <2>14 DEF FiguresAgree
<1> QED
  BY <1>1, FiguresInvariant, PTL

-----------------------------------------------------------------------------
(* The curve of a list of trades *)

\* What each trade lost.
LossFun(h) == [i \in DOMAIN h |-> HigherOf(0, -h[i].pnl)]

LEMMA LossSum ==
  ASSUME NEW h \in Seq(Positions)
  PROVE  /\ LossOf(h, DOMAIN h) = SumOn(LossFun(h), DOMAIN h)
         /\ \A i \in DOMAIN h : LossFun(h)[i] \in Int /\ LossFun(h)[i] >= 0
<1>1. LossOf(h, DOMAIN h) = SumOn(LossFun(h), DOMAIN h)
  BY LossIs DEF LossFun
<1>2. ASSUME NEW i \in DOMAIN h PROVE LossFun(h)[i] \in Int /\ LossFun(h)[i] >= 0
  <2>1. PICK x \in Int : x = h[i].pnl
    BY ListFacts, TradeFields
  <2>2. LossFun(h)[i] = HigherOf(0, -x)
    BY <2>1 DEF LossFun
  <2> QED
    BY <2>1, <2>2 DEF HigherOf
<1> QED
  BY <1>1, <1>2

\* The curve that is drawn through the trades of a list: it has a point before the first
\* and one after each.
ClosedCurve(curve, h) ==
  /\ curve \in Seq(Points) /\ Len(curve) = Len(h) + 1 /\ DOMAIN curve = 1 .. Len(h) + 1
  /\ curve # <<>>
  /\ \A i \in 1 .. Len(h) + 1 : curve[i].equity = InitialCapital + PnlOf(h, 1 .. i - 1)

LEMMA CurveDrawn ==
  ASSUME NEW h \in Seq(Positions)
  PROVE  ClosedCurve(BuildEquityCurve(h), h)
<1>1. PICK n \in Nat : n = Len(h) + 1 /\ n >= 1 /\ DOMAIN h = 1 .. n - 1
  BY ListFacts
<1>2. PICK curve : curve = [i \in 1 .. n |-> [time |-> i,
                                             equity |-> InitialCapital + PnlOf(h, 1 .. i - 1)]]
  OBVIOUS
<1>3. curve = BuildEquityCurve(h)
  BY <1>1, <1>2 DEF BuildEquityCurve
<1>4. ASSUME NEW i \in 1 .. n PROVE curve[i] \in Points
  <2>1. 1 .. i - 1 \subseteq DOMAIN h
    BY <1>1
  <2>2. PnlOf(h, 1 .. i - 1) \in Int
    BY <2>1, PnlOfType
  <2>3. InitialCapital + PnlOf(h, 1 .. i - 1) \in Int
    BY <2>2, BacktestAssumption
  <2> QED
    BY <1>2, <2>3 DEF Points
<1>5. curve \in [1 .. n -> Points]
  BY <1>2, <1>4
<1>6. curve \in Seq(Points) /\ Len(curve) = n /\ DOMAIN curve = 1 .. n
  BY <1>5
<1>7. curve # <<>>
  BY <1>1, <1>6
<1>8. \A i \in 1 .. n : curve[i].equity = InitialCapital + PnlOf(h, 1 .. i - 1)
  BY <1>2
<1> QED
  BY <1>1, <1>3, <1>6, <1>7, <1>8 DEF ClosedCurve

Results == [netProfit : Int, maxDrawdown : Int, trades : Nat]

\* What is measured of a list of trades.
LEMMA OutcomeIs ==
  ASSUME NEW h \in Seq(Positions)
  PROVE  /\ Outcome(h) \in Results /\ Outcome(h).trades = Len(h)
         /\ Outcome(h).netProfit = PnlOf(h, DOMAIN h)
         /\ Outcome(h).maxDrawdown = MaxDrawdown(BuildEquityCurve(h))
<1>1. PICK curve : curve = BuildEquityCurve(h) /\ ClosedCurve(curve, h)
  BY CurveDrawn
<1>2. PICK n \in Nat : n = Len(h) /\ DOMAIN h = 1 .. n
  BY ListFacts
<1>3. curve[n + 1].equity = InitialCapital + PnlOf(h, 1 .. n)
  <2>1. n + 1 \in 1 .. n + 1 /\ (n + 1) - 1 = n
    OBVIOUS
  <2> QED
    BY <1>1, <1>2, <2>1 DEF ClosedCurve
<1>4. PICK p \in Int : p = PnlOf(h, 1 .. n)
  BY <1>2, PnlOfType
<1>5. curve[n + 1].equity - InitialCapital = p
  BY <1>3, <1>4, BacktestAssumption
<1>6. MaxDrawdown(curve) \in Int
  BY <1>1, DrawdownIs DEF ClosedCurve
<1>7. Outcome(h) = [netProfit |-> p, maxDrawdown |-> MaxDrawdown(curve), trades |-> n]
  BY <1>1, <1>2, <1>5 DEF Outcome
<1> QED
  BY <1>1, <1>2, <1>4, <1>6, <1>7 DEF Results

\* What is made from one point of the curve to another is made by the trades between.
LEMMA BetweenPoints ==
  ASSUME NEW h \in Seq(Positions), NEW i \in 1 .. Len(h) + 1, NEW j \in 1 .. Len(h) + 1, i <= j
  PROVE  /\ i .. j - 1 \subseteq DOMAIN h
         /\ PnlOf(h, 1 .. j - 1) = PnlOf(h, 1 .. i - 1) + PnlOf(h, i .. j - 1)
<1>1. PICK n \in Nat : n = Len(h) /\ DOMAIN h = 1 .. n
  BY ListFacts
<1>2. PICK A \in SUBSET DOMAIN h, B \in SUBSET DOMAIN h, C \in SUBSET DOMAIN h :
        A = 1 .. i - 1 /\ B = i .. j - 1 /\ C = 1 .. j - 1
  <2>1. 1 .. i - 1 \in SUBSET DOMAIN h /\ i .. j - 1 \in SUBSET DOMAIN h
        /\ 1 .. j - 1 \in SUBSET DOMAIN h
    BY <1>1
  <2> QED
    BY <2>1
<1>3. C = A \cup B /\ A \cap B = {}
  BY <1>2
<1>4. /\ IsFiniteSet(A) /\ IsFiniteSet(B)
      /\ \A k \in DOMAIN h : PnlFun(h)[k] \in Int
  BY PnlOfType
<1>5. SumOn(PnlFun(h), A \cup B) = SumOn(PnlFun(h), A) + SumOn(PnlFun(h), B)
  BY <1>3, <1>4, SumUnion
<1>6. PnlOf(h, C) = PnlOf(h, A) + PnlOf(h, B)
  BY <1>3, <1>5, PnlOfIs
<1> QED
  BY <1>2, <1>6

\* No path through the trades falls further than all of them have lost.
LEMMA PathFalls ==
  ASSUME NEW h \in Seq(Positions)
  PROVE  MaxDrawdown(BuildEquityCurve(h)) <= LossOf(h, DOMAIN h)
<1>1. PICK curve : curve = BuildEquityCurve(h) /\ ClosedCurve(curve, h)
  BY CurveDrawn
<1>2. PICK d \in Int : d = MaxDrawdown(curve) /\ DeepestFall(curve, d)
  BY <1>1, DrawdownIs DEF ClosedCurve
<1>3. PICK n \in Nat : n = Len(h) /\ DOMAIN h = 1 .. n /\ IsFiniteSet(DOMAIN h)
  BY ListFacts
<1>4. PICK i \in 1 .. n + 1, j \in 1 .. n + 1 : i <= j /\ d = curve[i].equity - curve[j].equity
  BY <1>1, <1>2, <1>3 DEF DeepestFall, ClosedCurve
<1>5. PICK part : part = i .. j - 1 /\ part \subseteq DOMAIN h
  BY <1>3, <1>4, BetweenPoints
<1>6. PICK a \in Int, b \in Int, m \in Int :
        a = PnlOf(h, 1 .. i - 1) /\ b = PnlOf(h, 1 .. j - 1) /\ m = PnlOf(h, part)
  <2>1. 1 .. i - 1 \subseteq DOMAIN h /\ 1 .. j - 1 \subseteq DOMAIN h
    BY <1>3
  <2> QED
    BY <1>5, <2>1, PnlOfType
<1>7. d = -m
  <2>1. b = a + m
    BY <1>3, <1>4, <1>5, <1>6, BetweenPoints
  <2>2. curve[i].equity = InitialCapital + a /\ curve[j].equity = InitialCapital + b
    BY <1>1, <1>3, <1>4, <1>6 DEF ClosedCurve
  <2> QED
    BY <1>4, <1>6, <2>1, <2>2, BacktestAssumption
<1> DEFINE P == PnlFun(h)
           L == LossFun(h)
           W == [k \in DOMAIN h |-> P[k] + L[k]]
<1>8. \A k \in DOMAIN h : /\ P[k] \in Int /\ L[k] \in Int /\ L[k] >= 0 /\ W[k] = P[k] + L[k] /\ W[k] >= 0
  <2> SUFFICES ASSUME NEW k \in DOMAIN h
               PROVE  P[k] \in Int /\ L[k] \in Int /\ L[k] >= 0 /\ W[k] = P[k] + L[k] /\ W[k] >= 0
    OBVIOUS
  <2>1. PICK x \in Int : x = h[k].pnl
    BY ListFacts, TradeFields
  <2>2. P[k] = x /\ L[k] = HigherOf(0, -x)
    BY <2>1 DEF PnlFun, LossFun
  <2> QED
    BY <2>1, <2>2 DEF HigherOf
<1> HIDE DEF P, L, W
<1>9. IsFiniteSet(part)
  BY <1>3, <1>5, FS_Subset
<1>10. SumOn(W, part) = SumOn(P, part) + SumOn(L, part)
  BY <1>5, <1>8, <1>9, SumPlus
<1>11. SumOn(W, part) >= 0
  <2> DEFINE Z == [k \in part |-> 0]
  <2>4. \A k \in part : Z[k] = 0
    OBVIOUS
  <2> HIDE DEF Z
  <2>1. ASSUME NEW k \in part
        PROVE  Z[k] \in Int /\ W[k] \in Int /\ Z[k] <= W[k] /\ Z[k] = 0
    <3>1. k \in DOMAIN h
      BY <1>5
    <3>2. PICK p \in Int, l \in Int : W[k] = p + l /\ W[k] >= 0
      BY <1>8, <3>1
    <3>3. Z[k] = 0
      BY <2>4
    <3> QED
      BY <3>2, <3>3
  <2>2. SumOn(Z, part) <= SumOn(W, part) /\ SumOn(Z, part) = 0
    BY <1>9, <2>1, SumOrdered, SumOfNothing
  <2>3. SumOn(W, part) \in Int
    BY <1>9, <2>1, SumType
  <2> QED
    BY <2>2, <2>3
<1>12. SumOn(L, part) <= SumOn(L, DOMAIN h)
  <2> DEFINE o == [k \in part |-> k]
  <2>1. /\ o \in [part -> DOMAIN h] /\ \A x, y \in part : o[x] = o[y] => x = y
        /\ \A x \in part : L[x] = L[o[x]]
    BY <1>5
  <2>2. (\A e \in DOMAIN h : L[e] >= 0) => SumOn(L, part) <= SumOn(L, DOMAIN h)
    <3> HIDE DEF o
    <3> QED
      BY <1>3, <1>8, <1>9, <2>1, SumRenamed
  <2> QED
    BY <1>8, <2>2
<1>13. SumOn(P, part) = m
  BY <1>6, PnlOfIs DEF P
<1>14. LossOf(h, DOMAIN h) = SumOn(L, DOMAIN h)
  BY LossSum DEF L
<1>15. SumOn(L, part) \in Int /\ SumOn(L, DOMAIN h) \in Int
  <2>1. \A k \in part : L[k] \in Int
    BY <1>5, <1>8
  <2> QED
    BY <1>3, <1>8, <1>9, <2>1, SumType
<1> QED
  BY <1>1, <1>2, <1>7, <1>10, <1>11, <1>12, <1>13, <1>14, <1>15

-----------------------------------------------------------------------------
(* The closed trades on the curve of their backtest *)

\* The curve of a backtest passes, in order, what the capital was before the first trade
\* and after each one.
Passes(at, curve, h) ==
  /\ at \in [0 .. Len(h) -> DOMAIN curve]
  /\ \A k, m \in 0 .. Len(h) : k <= m => at[k] <= at[m]
  /\ \A k \in 0 .. Len(h) : curve[at[k]].equity = InitialCapital + PnlOf(h, 1 .. k)

Milestones(curve, h) == \E at : Passes(at, curve, h)

\* A point more and no trade more.
LEMMA PassesOn ==
  ASSUME NEW h \in Seq(Positions), NEW curve \in Seq(Points), NEW point \in Points,
         Milestones(curve, h)
  PROVE  Milestones(Append(curve, point), h)
<1>1. PICK at : Passes(at, curve, h)
  BY DEF Milestones
<1>4. PICK longer : longer = Append(curve, point)
  OBVIOUS
<1>2. longer = Append(curve, point) /\ DOMAIN curve \subseteq DOMAIN longer
      /\ \A i \in DOMAIN curve : longer[i] = curve[i]
  BY <1>4
<1>3. Passes(at, longer, h)
  BY <1>1, <1>2 DEF Passes
<1> QED
  BY <1>2, <1>3 DEF Milestones

\* What the first trades of a longer list made.
LEMMA PnlOfFirst ==
  ASSUME NEW h \in Seq(Positions), NEW t \in Positions, NEW S \in SUBSET DOMAIN h
  PROVE  PnlOf(Append(h, t), S) = PnlOf(h, S)
<1>5. PICK g : g = Append(h, t)
  OBVIOUS
<1>1. /\ g \in Seq(Positions) /\ g = Append(h, t) /\ DOMAIN h \subseteq DOMAIN g
      /\ \A i \in DOMAIN h : g[i] = h[i]
  BY <1>5, Appended
<1>2. IsFiniteSet(S)
  BY PnlOfType
<1>3. \A i \in S : PnlFun(g)[i] = PnlFun(h)[i]
  BY <1>1 DEF PnlFun
<1>4. SumOn(PnlFun(g), S) = SumOn(PnlFun(h), S)
  BY <1>2, <1>3, SumOnSame
<1> QED
  BY <1>1, <1>4, PnlOfIs

\* A trade more, and a point at what it leaves.
LEMMA PassesTrade ==
  ASSUME NEW h \in Seq(Positions), NEW t \in Positions,
         NEW curve \in Seq(Points), NEW point \in Points, Milestones(curve, h),
         point.equity = InitialCapital + PnlOf(Append(h, t), DOMAIN Append(h, t))
  PROVE  Milestones(Append(curve, point), Append(h, t))
<1>1. PICK at : Passes(at, curve, h)
  BY DEF Milestones
<1>2. PICK n \in Nat : n = Len(h) /\ DOMAIN h = 1 .. n
  BY ListFacts
<1>3. PICK g \in Seq(Positions) : g = Append(h, t) /\ Len(g) = n + 1 /\ DOMAIN g = 1 .. n + 1
  BY <1>2, Appended
<1>4. PICK m \in Nat : m = Len(curve) /\ DOMAIN curve = 1 .. m
  OBVIOUS
<1>12. PICK longer : longer = Append(curve, point)
  OBVIOUS
<1>5. /\ longer = Append(curve, point) /\ DOMAIN longer = 1 .. m + 1
      /\ longer[m + 1] = point /\ \A i \in 1 .. m : longer[i] = curve[i]
  BY <1>4, <1>12
<1>6. PICK to : to = [k \in 0 .. n + 1 |-> IF k = n + 1 THEN m + 1 ELSE at[k]]
  OBVIOUS
<1>7. /\ at \in [0 .. n -> 1 .. m]
      /\ \A k, l \in 0 .. n : k <= l => at[k] <= at[l]
      /\ \A k \in 0 .. n : curve[at[k]].equity = InitialCapital + PnlOf(h, 1 .. k)
  BY <1>1, <1>2, <1>4 DEF Passes
<1>8. to \in [0 .. n + 1 -> 1 .. m + 1]
  BY <1>6, <1>7
<1>9. \A k, l \in 0 .. n + 1 : k <= l => to[k] <= to[l]
  BY <1>6, <1>7
<1>10. ASSUME NEW k \in 0 .. n + 1
       PROVE  longer[to[k]].equity = InitialCapital + PnlOf(g, 1 .. k)
  <2>1. CASE k = n + 1
    <3>1. longer[to[k]] = point
      BY <1>5, <1>6, <2>1
    <3> QED
      BY <1>3, <2>1, <3>1
  <2>2. CASE k # n + 1
    <3>1. k \in 0 .. n
      BY <2>2
    <3>2. longer[to[k]] = curve[at[k]]
      BY <1>5, <1>6, <1>7, <3>1
    <3>3. 1 .. k \in SUBSET DOMAIN h
      BY <1>2, <3>1
    <3>4. PnlOf(g, 1 .. k) = PnlOf(h, 1 .. k)
      BY <1>3, <3>3, PnlOfFirst
    <3> QED
      BY <1>7, <3>1, <3>2, <3>4
  <2> QED
    BY <2>1, <2>2
<1>11. Passes(to, longer, g)
  BY <1>3, <1>5, <1>8, <1>9, <1>10 DEF Passes
<1> QED
  BY <1>3, <1>5, <1>11 DEF Milestones

\* The first point, when nothing has been traded.
LEMMA PassesFirst ==
  ASSUME NEW point \in Points, point.equity = InitialCapital, NEW h \in Seq(Positions), h = <<>>,
         NEW curve \in Seq(Points), curve = <<>>
  PROVE  Milestones(Append(curve, point), h)
<1>7. PICK longer : longer = Append(curve, point)
  OBVIOUS
<1>1. longer = Append(curve, point) /\ DOMAIN longer = {1} /\ longer[1] = point
  BY <1>7
<1>2. PICK at : at = [k \in {0} |-> 1]
  OBVIOUS
<1>3. Len(h) = 0 /\ 0 .. 0 = {0}
  OBVIOUS
<1>4. PnlOf(h, 1 .. 0) = 0
  <2>1. 1 .. 0 = {}
    OBVIOUS
  <2>2. SumOn(PnlFun(h), {}) = 0
    BY FS_EmptySet, SumType
  <2> QED
    BY <2>1, <2>2, PnlOfIs
<1>5. InitialCapital + 0 = InitialCapital
  BY BacktestAssumption
<1>6. Passes(at, longer, h)
  BY <1>1, <1>2, <1>3, <1>4, <1>5 DEF Passes
<1> QED
  BY <1>1, <1>6 DEF Milestones

\* So the closed trades alone fall no further than the curve with its open positions.
LEMMA ClosedFallsLess ==
  ASSUME NEW h \in Seq(Positions), NEW curve \in Seq(Points), Milestones(curve, h)
  PROVE  MaxDrawdown(BuildEquityCurve(h)) <= MaxDrawdown(curve)
<1>1. PICK closed : closed = BuildEquityCurve(h) /\ ClosedCurve(closed, h)
  BY CurveDrawn
<1>2. PICK d \in Int : d = MaxDrawdown(closed) /\ DeepestFall(closed, d)
  BY <1>1, DrawdownIs DEF ClosedCurve
<1>3. PICK n \in Nat : n = Len(h)
  BY ListFacts
<1>4. PICK i \in 1 .. n + 1, j \in 1 .. n + 1 : i <= j /\ d = closed[i].equity - closed[j].equity
  BY <1>1, <1>2, <1>3 DEF DeepestFall, ClosedCurve
<1>5. PICK at : Passes(at, curve, h)
  BY DEF Milestones
<1>6. PICK k \in 0 .. n, m \in 0 .. n : k = i - 1 /\ m = j - 1 /\ k <= m
  BY <1>3, <1>4
<1>7. /\ at[k] \in DOMAIN curve /\ at[m] \in DOMAIN curve /\ at[k] <= at[m]
      /\ curve[at[k]].equity = closed[i].equity /\ curve[at[m]].equity = closed[j].equity
  <2>1. /\ closed[i].equity = InitialCapital + PnlOf(h, 1 .. k)
        /\ closed[j].equity = InitialCapital + PnlOf(h, 1 .. m)
    BY <1>1, <1>3, <1>6 DEF ClosedCurve
  <2> QED
    BY <1>3, <1>5, <1>6, <2>1 DEF Passes
<1>8. curve # <<>>
  BY <1>7
<1>9. PICK e \in Int : e = MaxDrawdown(curve) /\ DeepestFall(curve, e)
  BY <1>8, DrawdownIs
<1>10. d <= e
  BY <1>4, <1>7, <1>9 DEF DeepestFall
<1> QED
  BY <1>1, <1>2, <1>9, <1>10

\* Every behaviour of a backtest keeps to them.
TracedInv ==
  IF equity_curve = <<>> THEN book.trades = <<>> ELSE Milestones(equity_curve, book.trades)

\* Unless a position outlives the candle, the equity marked is the capital; a candle
\* that makes a trade ends without the position it made it of.
LEMMA ReplayMarks ==
  ASSUME BacktestInv, phase = "replay", NEW c \in NextCandles, NEW setup \in BOOLEAN,
         Replay(c, setup)
  PROVE  /\ MarkedEquity(book', c) \in Int
         /\ book'.capital = InitialCapital + PnlOf(book'.trades, DOMAIN book'.trades)
         /\ \/ book'.trades = book.trades
            \/ \E t : book'.trades = Append(book.trades, t)
         /\ \/ MarkedEquity(book', c) = book'.capital
            \/ book'.trades = book.trades /\ book.position # None
<1>1. PICK e \in Books : e = book' /\ Counted(e) /\ HeldThrough(e, c)
  <2>1. BacktestInv' /\ phase' = "replay" /\ candles' = Append(candles, c)
    BY ReplayKeeps DEF Replay
  <2>2. candles \in Seq(CandleSet) /\ c \in CandleSet
    BY NextCandle DEF BacktestInv
  <2>3. candles' # <<>> /\ candles'[Len(candles')] = c
    BY <2>1, <2>2
  <2>4. BookOK(book', c)
    BY <2>1, <2>3 DEF BacktestInv
  <2> QED
    BY <2>4 DEF BookOK
<1>2. /\ e.capital \in Int /\ e.position \in Positions \cup {None} /\ e.trades \in Seq(Positions)
  BY BookFields
<1>3. e.capital = InitialCapital + PnlOf(e.trades, DOMAIN e.trades)
  BY <1>1, <1>2, PnlParts DEF Counted
<1>4. PICK r \in Books : \E b : Replayed(r, c, b)
  BY ReplayBook
<1>5. PICK b : Replayed(r, c, b)
  BY <1>4
<1>6. /\ r.trades = book.trades /\ r.position = book.position
      /\ (b = r \/ ClosedBy(r, c, b)) /\ e.trades = b.trades
      /\ (e.position = b.position \/ e.position.entryTime = c.time)
  BY <1>1, <1>5 DEF Replayed
<1>7. c \in CandleSet /\ c.close \in Int /\ c.time \in Nat
  BY NextCandle DEF CandleSet
<1>8. MarkedEquity(e, c) \in Int
  <2>1. CASE e.position = None
    BY <1>2, <2>1 DEF MarkedEquity
  <2>2. CASE e.position # None
    <3>1. e.position.entry \in Int /\ e.position.quantity \in Int
      BY <1>2, <2>2, TradeFields
    <3> QED
      BY <1>2, <1>7, <2>2, <3>1 DEF MarkedEquity
  <2> QED
    BY <2>1, <2>2
<1>9. MarkedEquity(e, c) = e.capital \/ (e.trades = book.trades /\ book.position # None)
  <2>1. CASE e.position = None
    BY <1>2, <2>1 DEF MarkedEquity
  <2>2. CASE e.position # None /\ e.position.entryTime = c.time
    <3>1. PICK p \in Positions : p = e.position
      BY <1>2, <2>2
    <3>2. c.close = p.entry
      BY <1>1, <1>7, <2>2, <3>1, TradeFields DEF HeldThrough
    <3>3. (c.close - p.entry) * p.quantity = 0
      <4>1. PICK q \in Int : q = p.quantity
        BY <3>1, TradeFields
      <4>2. c.close - p.entry = 0 /\ 0 * q = 0
        BY <1>7, <3>2
      <4> QED
        BY <4>1, <4>2
    <3> QED
      BY <1>2, <2>2, <3>1, <3>3 DEF MarkedEquity
  <2>3. CASE e.position # None /\ e.position = b.position
    BY <1>6, <2>3 DEF ClosedBy
  <2> QED
    BY <1>6, <2>1, <2>2, <2>3
<1>10. e.trades = book.trades \/ \E t : e.trades = Append(book.trades, t)
  BY <1>6 DEF ClosedBy
<1> QED
  BY <1>1, <1>3, <1>8, <1>9, <1>10

LEMMA ReplayTraced ==
  ASSUME BacktestInv, CurveInv, FiguresInv, TracedInv, phase = "replay",
         NEW c \in NextCandles, NEW setup \in BOOLEAN, Replay(c, setup), BacktestInv'
  PROVE  TracedInv'
<1>1. PICK curve \in Seq(Points) : curve = equity_curve
  BY DEF FiguresInv
<1>2. PICK h \in Seq(Positions), g \in Seq(Positions) : h = book.trades /\ g = book'.trades
  BY BookFields DEF BacktestInv
<1>3. /\ MarkedEquity(book', c) \in Int
      /\ book'.capital = InitialCapital + PnlOf(g, DOMAIN g)
      /\ g = h \/ \E t : g = Append(h, t)
      /\ \/ MarkedEquity(book', c) = book'.capital
         \/ g = h /\ book.position # None
  BY <1>2, ReplayMarks
<1>4. PICK point : point = [time |-> c.time, equity |-> MarkedEquity(book', c)]
  OBVIOUS
<1>5. point \in Points /\ point.equity = MarkedEquity(book', c)
  BY <1>3, <1>4, NextCandle DEF Points, CandleSet
<1>6. PICK longer : longer = Append(curve, point)
  OBVIOUS
<1>7. longer = equity_curve' /\ longer # <<>>
  <2>1. equity_curve' = Append(equity_curve, [time |-> c.time, equity |-> MarkedEquity(book', c)])
    BY DEF Replay
  <2>2. longer # <<>>
    BY <1>5, <1>6
  <2> QED
    BY <1>1, <1>4, <1>6, <2>1, <2>2
<1>8. CASE curve = <<>>
  <2>1. book = NewBook
    <3>1. ~(Len(candles) > WarmupCandles)
      BY <1>1, <1>8 DEF CurveInv
    <3>2. Len(candles) \in Nat /\ WarmupCandles \in Nat
      BY BacktestAssumption DEF BacktestInv
    <3> QED
      BY <3>1, <3>2 DEF BacktestInv
  <2>2. h = <<>> /\ book.position = None
    BY <1>2, <2>1 DEF NewBook
  <2>3. CASE g = h
    <3>1. PnlOf(g, DOMAIN g) = 0
      <4>1. DOMAIN g = {}
        BY <2>2, <2>3
      <4>2. SumOn(PnlFun(g), {}) = 0
        BY FS_EmptySet, SumType
      <4> QED
        BY <4>1, <4>2, PnlOfIs
    <3>2. point.equity = InitialCapital
      BY <1>3, <1>5, <2>2, <3>1, BacktestAssumption
    <3>3. Milestones(longer, g)
      BY <1>5, <1>6, <1>8, <2>2, <2>3, <3>2, PassesFirst
    <3> QED
      BY <1>2, <1>7, <3>3 DEF TracedInv
  <2>4. CASE g # h
    \* Nothing was held that a first candle could close.
    <3>1. PICK r \in Books : \E b : Replayed(r, c, b)
      BY ReplayBook
    <3>2. PICK b : Replayed(r, c, b)
      BY <3>1
    <3>3. g = h
      BY <1>2, <2>2, <3>2 DEF Replayed, ClosedBy
    <3> QED
      BY <2>4, <3>3
  <2> QED
    BY <2>3, <2>4
<1>9. CASE curve # <<>>
  <2>1. Milestones(curve, h)
    BY <1>1, <1>2, <1>9 DEF TracedInv
  <2>2. CASE g = h
    <3>1. Milestones(longer, g)
      BY <1>5, <1>6, <2>1, <2>2, PassesOn
    <3> QED
      BY <1>2, <1>7, <3>1 DEF TracedInv
  <2>3. CASE g # h
    <3>1. PICK t : g = Append(h, t)
      BY <1>3, <2>3
    <3>2. t \in Positions
      <4>1. PICK n \in Nat : n = Len(h)
        BY ListFacts
      <4>2. n + 1 \in DOMAIN g /\ g[n + 1] = t
        BY <3>1, <4>1
      <4> QED
        BY <4>2, ListFacts
    <3>3. point.equity = InitialCapital + PnlOf(g, DOMAIN g)
      BY <1>3, <1>5, <2>3
    <3>4. Milestones(longer, Append(h, t))
      BY <1>5, <1>6, <2>1, <3>1, <3>2, <3>3, PassesTrade
    <3> QED
      BY <1>2, <1>7, <3>1, <3>4 DEF TracedInv
  <2> QED
    BY <2>2, <2>3
<1> QED
  BY <1>8, <1>9

LEMMA FinishTraced ==
  ASSUME BacktestInv, CurveInv, FiguresInv, TracedInv, phase = "replay", Finish,
         BacktestInv', CurveInv', FiguresInv'
  PROVE  TracedInv'
<1>1. CASE book.position = None
  <2>1. UNCHANGED <<book, equity_curve>>
    BY <1>1 DEF Finish
  <2> QED
    BY <2>1 DEF TracedInv
<1>2. CASE book.position # None
  <2>1. PICK curve \in Seq(Points) : curve = equity_curve /\ curve # <<>>
    BY DEF FiguresInv, CurveInv, Finish
  <2>2. PICK h \in Seq(Positions), g \in Seq(Positions) : h = book.trades /\ g = book'.trades
    BY BookFields DEF BacktestInv
  <2>3. PICK t, capital :
          /\ book' = [book EXCEPT !.capital = capital, !.trades = Append(@, t)]
          /\ equity_curve' = Append(equity_curve, [time |-> Last(candles).time, equity |-> capital])
    BY <1>2 DEF Finish, ForceClose
  <2>4. g = Append(h, t) /\ book'.capital = capital
    BY <2>2, <2>3 DEF BacktestInv, Books
  <2>5. t \in Positions
    <3>1. PICK n \in Nat : n = Len(h)
      BY ListFacts
    <3>2. n + 1 \in DOMAIN g /\ g[n + 1] = t
      BY <2>4, <3>1
    <3> QED
      BY <3>2, ListFacts
  <2>6. PICK point : point = [time |-> Last(candles).time, equity |-> capital]
    OBVIOUS
  <2>7. PICK longer \in Seq(Points) : longer = Append(curve, point) /\ longer = equity_curve'
    BY <2>1, <2>3, <2>6 DEF FiguresInv
  <2>8. point \in Points
    <3>1. Listed(curve)
      BY DEF Listed
    <3>2. Len(longer) \in DOMAIN longer /\ longer[Len(longer)] = point
      BY <2>7, <3>1, ListAppended
    <3> QED
      BY <3>2, ListFacts
  <2>9. capital = InitialCapital + PnlOf(g, DOMAIN g)
    <3>1. phase' = "done"
      BY DEF Finish
    <3>2. book'.capital = InitialCapital + PnlBefore(g, Len(g) + 1)
      BY <2>2, <3>1 DEF CurveInv
    <3> QED
      BY <2>4, <3>2, PnlParts
  <2>10. point.equity = InitialCapital + PnlOf(Append(h, t), DOMAIN Append(h, t))
    BY <2>4, <2>6, <2>9
  <2>11. Milestones(curve, h)
    BY <2>1, <2>2 DEF TracedInv
  <2>12. Milestones(longer, g)
    BY <2>4, <2>5, <2>7, <2>8, <2>10, <2>11, PassesTrade
  <2>13. longer # <<>>
    <3>1. Listed(curve)
      BY DEF Listed
    <3> QED
      BY <2>7, <3>1, ListAppended
  <2> QED
    BY <2>2, <2>7, <2>12, <2>13 DEF TracedInv
<1> QED
  BY <1>1, <1>2

\* Along every job, the curve passes what the closed trades made.
LEMMA TracedInvariant == Spec => [](BacktestInv /\ CurveInv /\ FiguresInv /\ TracedInv)
<1>1. Init => TracedInv
  BY DEF Init, BacktestInit, NewBook, TracedInv
<1>2. (/\ BacktestInv /\ CurveInv /\ FiguresInv /\ TracedInv
       /\ BacktestInv' /\ CurveInv' /\ FiguresInv' /\ [Next]_vars) => TracedInv'
  <2> SUFFICES ASSUME BacktestInv, CurveInv, FiguresInv, TracedInv,
                      BacktestInv', CurveInv', FiguresInv', [Next]_vars
               PROVE  TracedInv'
    OBVIOUS
  <2>1. CASE BacktestNext
    <3>1. ASSUME phase = "replay", NEW c \in NextCandles, WarmUp(c) PROVE TracedInv'
      <4>1. UNCHANGED <<book, equity_curve>>
        BY <3>1 DEF WarmUp
      <4> QED
        BY <4>1 DEF TracedInv
    <3>2. CASE Refuse
      <4>1. UNCHANGED <<book, equity_curve>>
        BY <3>2 DEF Refuse
      <4> QED
        BY <4>1 DEF TracedInv
    <3> QED
      BY <2>1, <3>1, <3>2, ReplayTraced, FinishTraced DEF BacktestNext
  <2>2. CASE UNCHANGED backtestVars
    <3>1. UNCHANGED <<book, equity_curve>>
      BY <2>2 DEF backtestVars
    <3> QED
      BY <3>1 DEF TracedInv
  <2> QED
    BY <2>1, <2>2 DEF Next, vars
<1> QED
  BY <1>1, <1>2, FiguresInvariant, PTL DEF Spec

-----------------------------------------------------------------------------
(* What a perturbation makes of one trade *)

\* A trade at other prices or of another size.
Repriced(t, e, x, q) == Priced([t EXCEPT !.entry = e, !.exit = x, !.quantity = q])

PricedAt(u, e, x, q) ==
  u \in Positions /\ u.entry = e /\ u.exit = x /\ u.quantity = q /\ u.pnl = (x - e) * q

LEMMA PricedIs ==
  ASSUME NEW t \in Positions, NEW e \in Int, NEW x \in Int, NEW q \in Int
  PROVE  PricedAt(Repriced(t, e, x, q), e, x, q)
<1>3. PICK u : u = Repriced(t, e, x, q)
  OBVIOUS
<1>1. PICK p \in Int : p = (x - e) * q
  OBVIOUS
<1>2. u = [entryTime |-> t.entryTime, entry |-> e, exitTime |-> t.exitTime, exit |-> x,
           stop |-> t.stop, target |-> t.target, quantity |-> q, reason |-> t.reason, pnl |-> p]
  <2>1. PICK s : s = [t EXCEPT !.entry = e, !.exit = x, !.quantity = q]
    OBVIOUS
  <2>2. s = [entryTime |-> t.entryTime, entry |-> e, exitTime |-> t.exitTime, exit |-> x,
             stop |-> t.stop, target |-> t.target, quantity |-> q, reason |-> t.reason,
             pnl |-> t.pnl]
    BY <2>1 DEF Positions
  <2>3. u = [s EXCEPT !.pnl = p]
    BY <1>1, <1>3, <2>1, <2>2 DEF Priced, Repriced
  <2> QED
    BY <2>2, <2>3
<1> QED
  BY <1>1, <1>2, <1>3 DEF Positions, PricedAt

\* A loss of some percent, and a gain of some, of a price that is not negative.
LEMMA PercentOf ==
  ASSUME NEW e \in Nat, NEW s \in 0 .. 100
  PROVE  /\ (e * (100 + s)) \div 100 \in Int /\ (e * (100 + s)) \div 100 >= e
         /\ (e * (100 - s)) \div 100 \in Int /\ (e * (100 - s)) \div 100 <= e
         /\ (e * (100 - s)) \div 100 >= 0
<1>1. PICK p \in Int : p = e * s
  OBVIOUS
<1>2. 0 <= p /\ p <= 100 * e
  <2>1. 0 <= e * s /\ e * s <= e * 100
    BY SMTT(30)
  <2> QED
    BY <1>1, <2>1
<1>3. PICK a \in Int, b \in Int : a = e * (100 + s) /\ b = e * (100 - s)
  OBVIOUS
<1>4. a = 100 * e + p /\ b = 100 * e - p
  BY <1>1, <1>3, SMTT(30)
<1>5. /\ a \div 100 \in Int /\ a \div 100 >= e
      /\ b \div 100 \in Int /\ b \div 100 <= e /\ b \div 100 >= 0
  BY <1>2, <1>4
<1> QED
  BY <1>3, <1>5

\* t earns no more than u, and a cost of it would be none that pays.
NoBetter(t, u) == t.entry >= 0 /\ t.exit >= 0 /\ t.quantity >= 0 /\ t.pnl <= u.pnl

\* A trade as a backtest leaves it.
Sound(t) ==
  t.entry >= 0 /\ t.exit >= 0 /\ t.quantity > 0 /\ t.pnl = (t.exit - t.entry) * t.quantity

LEMMA SlippedIs ==
  ASSUME NEW t \in Positions
  PROVE  Slipped(t) \in Positions /\ (Sound(t) => NoBetter(Slipped(t), t))
<1>1. PICK e \in Int, x \in Int, q \in Int, m \in Int :
        e = t.entry /\ x = t.exit /\ q = t.quantity /\ m = t.pnl
  BY TradeFields
<1>2. PICK s \in 0 .. 100 : s = SlippagePercent
  BY MonteCarloAssumption
<1>3. PICK a \in Int, b \in Int : a = (e * (100 + s)) \div 100 /\ b = (x * (100 - s)) \div 100
  <2>1. e * (100 + s) \in Int /\ x * (100 - s) \in Int
    OBVIOUS
  <2>2. PICK f \in Int, g \in Int : f = e * (100 + s) /\ g = x * (100 - s)
    BY <2>1
  <2>3. f \div 100 \in Int /\ g \div 100 \in Int
    OBVIOUS
  <2> QED
    BY <2>2, <2>3
<1>4. PICK u : u = Slipped(t)
  OBVIOUS
<1>5. u = Repriced(t, a, b, q)
  <2>1. PICK v : v = [t EXCEPT !.entry = a, !.exit = b]
    OBVIOUS
  <2>2. u = Priced(v)
    BY <1>1, <1>2, <1>3, <1>4, <2>1 DEF Slipped, Positions
  <2>3. v = [t EXCEPT !.entry = a, !.exit = b, !.quantity = q]
    BY <1>1, <2>1 DEF Positions
  <2> QED
    BY <2>2, <2>3 DEF Repriced
<1>6. u \in Positions /\ u.entry = a /\ u.exit = b /\ u.quantity = q /\ u.pnl = (b - a) * q
  BY <1>5, PricedIs DEF PricedAt
<1>7. ASSUME Sound(t) PROVE NoBetter(u, t)
  <2>1. e >= 0 /\ x >= 0 /\ q > 0 /\ m = (x - e) * q
    BY <1>1, <1>7 DEF Sound
  <2>2. a >= e /\ b <= x /\ b >= 0
    BY <1>3, <2>1, PercentOf
  <2>3. (b - a) * q <= (x - e) * q
    <3>1. PICK y \in Int, z \in Int : y = b - a /\ z = x - e
      OBVIOUS
    <3>2. y <= z
      BY <2>2, <3>1
    <3>3. y * q <= z * q
      BY <2>1, <3>2, SMTT(30)
    <3> QED
      BY <3>1, <3>3
  <2> QED
    BY <1>1, <1>6, <2>1, <2>2, <2>3 DEF NoBetter
<1> QED
  BY <1>4, <1>6, <1>7

LEMMA ChargedIs ==
  ASSUME NEW t \in Positions
  PROVE  Charged(t) \in Positions /\ \A u : NoBetter(t, u) /\ u.pnl \in Int => NoBetter(Charged(t), u)
<1>1. PICK e \in Int, x \in Int, q \in Int, m \in Int :
        e = t.entry /\ x = t.exit /\ q = t.quantity /\ m = t.pnl
  BY TradeFields
<1>2. PICK k \in Nat, f \in Nat : k = CommissionPercent /\ f = FlatCommission
  BY MonteCarloAssumption
<1>3. PICK w \in Int : w = (e + x) * q * k
  <2>1. (e + x) * q \in Int
    OBVIOUS
  <2> QED
    BY <2>1
<1>4. PICK cost \in Int : cost = Cost(t) /\ cost = w \div 100 + f
  BY <1>1, <1>2, <1>3 DEF Cost
<1>5. PICK v : v = Charged(t)
  OBVIOUS
<1>6. v = [t EXCEPT !.pnl = m - cost]
  BY <1>1, <1>4, <1>5 DEF Charged
<1>7. v \in Positions /\ v.entry = e /\ v.exit = x /\ v.quantity = q /\ v.pnl = m - cost
  BY <1>1, <1>6 DEF Positions
<1>8. ASSUME NEW u, NoBetter(t, u), u.pnl \in Int PROVE NoBetter(v, u)
  <2>1. e >= 0 /\ x >= 0 /\ q >= 0 /\ m <= u.pnl
    BY <1>1, <1>8 DEF NoBetter
  <2>2. w >= 0
    <3>1. PICK y \in Int : y = (e + x) * q
      OBVIOUS
    <3>2. y >= 0
      BY <2>1, <3>1, SMTT(30)
    <3>3. w = y * k
      BY <1>3, <3>1
    <3> QED
      BY <3>2, <3>3, SMTT(30)
  <2>3. cost >= 0
    BY <1>4, <2>2
  <2> QED
    BY <1>7, <1>8, <2>1, <2>3 DEF NoBetter
<1> QED
  BY <1>5, <1>7, <1>8

LEMMA DelayedIs ==
  ASSUME IsHistory(history), NEW t \in Positions
  PROVE  Delayed(t) \in Positions
<1>1. \A time : \A price \in Int : DelayedPrice(time, price) \in Int
  <2> SUFFICES ASSUME NEW time, NEW price \in Int PROVE DelayedPrice(time, price) \in Int
    OBVIOUS
  <2>1. PICK cs : cs = history.candles /\ cs \in Seq([time : Nat, low : Nat, high : Nat, close : Nat])
    BY DEF IsHistory
  <2>2. \A k \in DOMAIN cs : cs[k].close \in Int
    <3> SUFFICES ASSUME NEW k \in DOMAIN cs PROVE cs[k].close \in Int
      OBVIOUS
    <3>1. cs[k] \in [time : Nat, low : Nat, high : Nat, close : Nat]
      BY <2>1, ListFacts
    <3> QED
      BY <3>1
  <2> QED
    BY <2>1, <2>2 DEF DelayedPrice
<1>2. PICK e \in Int, x \in Int, q \in Int : e = t.entry /\ x = t.exit /\ q = t.quantity
  BY TradeFields
<1>3. PICK a \in Int, b \in Int :
        a = DelayedPrice(t.entryTime, e) /\ b = DelayedPrice(t.exitTime, x)
  BY <1>1
<1>4. Delayed(t) = Repriced(t, a, b, q)
  <2>1. PICK v : v = [t EXCEPT !.entry = a, !.exit = b]
    OBVIOUS
  <2>2. Delayed(t) = Priced(v)
    BY <1>2, <1>3, <2>1 DEF Delayed, Positions
  <2>3. v = [t EXCEPT !.entry = a, !.exit = b, !.quantity = q]
    BY <1>2, <2>1 DEF Positions
  <2> QED
    BY <2>2, <2>3 DEF Repriced
<1> QED
  BY <1>4, PricedIs DEF PricedAt

LEMMA ResizedIs ==
  ASSUME NEW t \in Positions, NEW v \in Int
  PROVE  Resized(t, v) \in Positions
<1>1. PICK e \in Int, x \in Int, q \in Int : e = t.entry /\ x = t.exit /\ q = t.quantity
  BY TradeFields
<1>2. PICK n \in Int : n = HigherOf(1, (q * (100 + v)) \div 100)
  <2>1. PICK w \in Int : w = q * (100 + v)
    OBVIOUS
  <2>2. HigherOf(1, w \div 100) \in Int
    BY DEF HigherOf
  <2> QED
    BY <2>1, <2>2
<1>3. Resized(t, v) = Repriced(t, e, x, n)
  <2>1. PICK s : s = [t EXCEPT !.quantity = n]
    OBVIOUS
  <2>2. Resized(t, v) = Priced(s)
    BY <1>1, <1>2, <2>1 DEF Resized, Positions
  <2>3. s = [t EXCEPT !.entry = e, !.exit = x, !.quantity = n]
    BY <1>1, <2>1 DEF Positions
  <2> QED
    BY <2>2, <2>3 DEF Repriced
<1> QED
  BY <1>3, PricedIs DEF PricedAt

-----------------------------------------------------------------------------
(* What the perturbations have made of the trades *)

\* What draws, and what takes nothing that was made away.
Draws == {"TradeShuffle", "MissedTrades", "PositionVariation"}
Costs == {"TradeShuffle", "Slippage", "Commission"}
Paths == {"TradeShuffle", "MissedTrades"}

\* Each trade of the list stands for one of the backtest, and no two for the same: all
\* are there unless some can be missed, as they were before the first that changes a
\* trade, and earning no more while only costs have been taken off.
StandsFor(o, list, s) ==
  LET own == history.trades
  IN /\ o \in [DOMAIN list -> DOMAIN own]
     /\ \A i, j \in DOMAIN list : o[i] = o[j] => i = j
     /\ "MissedTrades" \notin config =>
          Len(list) = Len(own) /\ \A e \in DOMAIN own : \E i \in DOMAIN list : o[i] = e
     /\ s <= 2 \/ config \subseteq Paths => \A i \in DOMAIN list : list[i] = own[o[i]]
     /\ config \subseteq Costs => \A i \in DOMAIN list : NoBetter(list[i], own[o[i]])

Image(list, s) == \E o : StandsFor(o, list, s)

\* What a backtest's own trades are.
LEMMA HistoryIs ==
  ASSUME IsHistory(history)
  PROVE  /\ history.trades \in Seq(Positions)
         /\ \A i \in DOMAIN history.trades :
              /\ history.trades[i] \in Positions /\ history.trades[i].pnl \in Int
              /\ Sound(history.trades[i]) /\ NoBetter(history.trades[i], history.trades[i])
<1>1. PICK h \in Seq(Positions) : h = history.trades /\ \A i \in DOMAIN h : Sound(h[i])
  BY DEF IsHistory, Sound
<1>2. ASSUME NEW i \in DOMAIN h
      PROVE  h[i] \in Positions /\ h[i].pnl \in Int /\ NoBetter(h[i], h[i])
  <2>1. h[i] \in Positions
    BY ListFacts
  <2>2. h[i].pnl \in Int /\ h[i].quantity \in Int
    BY <2>1, TradeFields
  <2> QED
    BY <1>1, <2>1, <2>2 DEF Sound, NoBetter
<1> QED
  BY <1>1, <1>2

\* Before the first perturbation they are themselves.
LEMMA ImageOfItself ==
  ASSUME IsHistory(history)
  PROVE  Image(history.trades, 1)
<1>1. PICK o : o = [i \in DOMAIN history.trades |-> i]
  OBVIOUS
<1>2. StandsFor(o, history.trades, 1)
  BY <1>1, HistoryIs DEF StandsFor
<1> QED
  BY <1>2 DEF Image

\* A perturbation that is switched off.
LEMMA ImageNext ==
  ASSUME NEW list, NEW s \in Nat, Image(list, s)
  PROVE  Image(list, s + 1)
<1>1. PICK o : StandsFor(o, list, s)
  BY DEF Image
<1>2. s + 1 <= 2 => s <= 2
  OBVIOUS
<1>3. StandsFor(o, list, s + 1)
  BY <1>1, <1>2 DEF StandsFor
<1> QED
  BY <1>3 DEF Image

\* While only costs are taken off, none of the trades gains by it.
OnlyCosts(new, list, s) ==
  config \subseteq Costs =>
    \A o : StandsFor(o, list, s) =>
      \A i \in DOMAIN list : NoBetter(new[i], history.trades[o[i]])

\* A list of as many, made of it trade by trade.
LEMMA ImageChanged ==
  ASSUME NEW list \in Seq(Positions), NEW s \in Nat, NEW r \in Nat, r > 2, Image(list, s),
         NEW new \in Seq(Positions), DOMAIN new = DOMAIN list, ~(config \subseteq Paths),
         OnlyCosts(new, list, s)
  PROVE  Image(new, r)
<1>1. PICK o : StandsFor(o, list, s)
  BY DEF Image
<1>2. Len(new) = Len(list)
  BY ListFacts
<1>3. ~(r <= 2)
  OBVIOUS
<1>4. config \subseteq Costs => \A i \in DOMAIN list : NoBetter(new[i], history.trades[o[i]])
  BY <1>1 DEF OnlyCosts
<1>5. StandsFor(o, new, r)
  BY <1>1, <1>2, <1>3, <1>4 DEF StandsFor
<1> QED
  BY <1>5 DEF Image

LEMMA ImageShuffled ==
  ASSUME NEW list \in Seq(Positions), Image(list, 1),
         NEW order \in Bijection(DOMAIN list, DOMAIN list),
         NEW new, new = [i \in DOMAIN list |-> list[order[i]]]
  PROVE  new \in Seq(Positions) /\ Image(new, 2)
<1>1. PICK o : StandsFor(o, list, 1)
  BY DEF Image
<1>2. /\ order \in [DOMAIN list -> DOMAIN list]
      /\ \A i, j \in DOMAIN list : order[i] = order[j] => i = j
      /\ \A e \in DOMAIN list : \E i \in DOMAIN list : order[i] = e
  BY DEF Bijection, Injection, Surjection, IsInjective
<1>3. PICK n \in Nat : n = Len(list) /\ DOMAIN list = 1 .. n
  BY ListFacts
<1>4. new \in [1 .. n -> Positions]
  <2>1. \A i \in 1 .. n : list[order[i]] \in Positions
    BY <1>2, <1>3, ListFacts
  <2> QED
    BY <1>3, <2>1
<1>5. new \in Seq(Positions) /\ Len(new) = n /\ DOMAIN new = DOMAIN list
  BY <1>3, <1>4
<1>6. PICK to : to = [i \in DOMAIN list |-> o[order[i]]]
  OBVIOUS
<1>7. /\ to \in [DOMAIN list -> DOMAIN history.trades]
      /\ \A i, j \in DOMAIN list : to[i] = to[j] => i = j
  BY <1>1, <1>2, <1>6 DEF StandsFor
<1>8. "MissedTrades" \notin config =>
        /\ Len(new) = Len(history.trades)
        /\ \A e \in DOMAIN history.trades : \E i \in DOMAIN list : to[i] = e
  BY <1>1, <1>2, <1>3, <1>5, <1>6 DEF StandsFor
<1>9. \A i \in DOMAIN list : new[i] = history.trades[to[i]]
  BY <1>1, <1>2, <1>6 DEF StandsFor
<1>10. config \subseteq Costs => \A i \in DOMAIN list : NoBetter(new[i], history.trades[to[i]])
  BY <1>1, <1>2, <1>6 DEF StandsFor
<1>11. StandsFor(to, new, 2)
  BY <1>5, <1>7, <1>8, <1>9, <1>10 DEF StandsFor
<1> QED
  BY <1>5, <1>11 DEF Image

\* One operation on each trade.
LEMMA EachTrade ==
  ASSUME NEW list \in Seq(Positions), NEW new, DOMAIN new = DOMAIN list,
         new = [i \in DOMAIN list |-> new[i]], \A i \in DOMAIN list : new[i] \in Positions
  PROVE  new \in Seq(Positions)
<1>1. PICK n \in Nat : n = Len(list) /\ DOMAIN list = 1 .. n
  BY ListFacts
<1>2. new \in [1 .. n -> Positions]
  BY <1>1
<1> QED
  BY <1>2

LEMMA ImageSlipped ==
  ASSUME IsHistory(history), NEW list \in Seq(Positions), Image(list, 2), "Slippage" \in config
  PROVE  Slippage(list) \in Seq(Positions) /\ Image(Slippage(list), 3)
<1>1. PICK new : new = Slippage(list) /\ new = [i \in DOMAIN list |-> Slipped(list[i])]
  BY DEF Slippage
<1>2. \A i \in DOMAIN list : new[i] = Slipped(list[i]) /\ new[i] \in Positions
  BY <1>1, ListFacts, SlippedIs
<1>3. new \in Seq(Positions) /\ DOMAIN new = DOMAIN list
  BY <1>1, <1>2, EachTrade
<1>4. ASSUME config \subseteq Costs, NEW o, StandsFor(o, list, 2)
      PROVE  \A i \in DOMAIN list : NoBetter(new[i], history.trades[o[i]])
  <2> SUFFICES ASSUME NEW i \in DOMAIN list PROVE NoBetter(new[i], history.trades[o[i]])
    OBVIOUS
  <2>1. o[i] \in DOMAIN history.trades /\ list[i] = history.trades[o[i]]
    BY <1>4 DEF StandsFor
  <2>2. Sound(list[i]) /\ list[i] \in Positions
    BY <2>1, HistoryIs
  <2> QED
    BY <1>2, <2>1, <2>2, SlippedIs
<1>5. ~(config \subseteq Paths) /\ OnlyCosts(new, list, 2)
  BY <1>4 DEF Paths, OnlyCosts
<1>6. Image(new, 3)
  BY <1>3, <1>5, ImageChanged
<1> QED
  BY <1>1, <1>3, <1>6

LEMMA ImageCharged ==
  ASSUME IsHistory(history), NEW list \in Seq(Positions), Image(list, 3), "Commission" \in config
  PROVE  Commission(list) \in Seq(Positions) /\ Image(Commission(list), 4)
<1>1. PICK new : new = Commission(list) /\ new = [i \in DOMAIN list |-> Charged(list[i])]
  BY DEF Commission
<1>2. \A i \in DOMAIN list : new[i] = Charged(list[i]) /\ new[i] \in Positions
  BY <1>1, ListFacts, ChargedIs
<1>3. new \in Seq(Positions) /\ DOMAIN new = DOMAIN list
  BY <1>1, <1>2, EachTrade
<1>4. ASSUME config \subseteq Costs, NEW o, StandsFor(o, list, 3)
      PROVE  \A i \in DOMAIN list : NoBetter(new[i], history.trades[o[i]])
  <2> SUFFICES ASSUME NEW i \in DOMAIN list PROVE NoBetter(new[i], history.trades[o[i]])
    OBVIOUS
  <2>1. o[i] \in DOMAIN history.trades /\ NoBetter(list[i], history.trades[o[i]])
    BY <1>4 DEF StandsFor
  <2>2. list[i] \in Positions /\ history.trades[o[i]].pnl \in Int
    BY <2>1, HistoryIs, ListFacts
  <2> QED
    BY <1>2, <2>1, <2>2, ChargedIs
<1>5. ~(config \subseteq Paths) /\ OnlyCosts(new, list, 3)
  BY <1>4 DEF Paths, OnlyCosts
<1>6. Image(new, 4)
  BY <1>3, <1>5, ImageChanged
<1> QED
  BY <1>1, <1>3, <1>6

LEMMA ImageDelayed ==
  ASSUME IsHistory(history), NEW list \in Seq(Positions), Image(list, 4), "ExecutionDelay" \in config
  PROVE  ExecutionDelay(list) \in Seq(Positions) /\ Image(ExecutionDelay(list), 5)
<1>1. PICK new : new = ExecutionDelay(list) /\ new = [i \in DOMAIN list |-> Delayed(list[i])]
  BY DEF ExecutionDelay
<1>2. \A i \in DOMAIN list : new[i] \in Positions
  BY <1>1, ListFacts, DelayedIs
<1>3. new \in Seq(Positions) /\ DOMAIN new = DOMAIN list
  BY <1>1, <1>2, EachTrade
<1>4. ~(config \subseteq Paths) /\ OnlyCosts(new, list, 4)
  BY DEF Paths, Costs, OnlyCosts
<1>5. Image(new, 5)
  BY <1>3, <1>4, ImageChanged
<1> QED
  BY <1>1, <1>3, <1>5

LEMMA ImageMissed ==
  ASSUME NEW list \in Seq(Positions), Image(list, 5), "MissedTrades" \in config,
         NEW left \in Picks(Len(list)), NEW new, new = [i \in DOMAIN left |-> list[left[i]]]
  PROVE  new \in Seq(Positions) /\ Image(new, 6)
<1>1. PICK o : StandsFor(o, list, 5)
  BY DEF Image
<1>2. PICK n \in Nat : n = Len(list) /\ DOMAIN list = 1 .. n
  BY ListFacts
<1>3. PICK k \in Nat : /\ left \in [1 .. k -> 1 .. n]
                       /\ \A i, j \in 1 .. k : i < j => left[i] < left[j]
  <2>1. PICK k \in 0 .. n : left \in [1 .. k -> 1 .. n]
    BY <1>2 DEF Picks
  <2>2. \A i, j \in DOMAIN left : i < j => left[i] < left[j]
    BY DEF Picks
  <2>3. k \in Nat /\ DOMAIN left = 1 .. k
    BY <2>1
  <2> QED
    BY <2>1, <2>2, <2>3
<1>4. \A i, j \in 1 .. k : left[i] = left[j] => i = j
  <2> SUFFICES ASSUME NEW i \in 1 .. k, NEW j \in 1 .. k, left[i] = left[j] PROVE i = j
    OBVIOUS
  <2>1. left[i] \in 1 .. n /\ ~(i < j) /\ ~(j < i)
    BY <1>3
  <2> QED
    BY <2>1
<1>5. new \in [1 .. k -> Positions]
  <2>1. \A i \in 1 .. k : list[left[i]] \in Positions
    BY <1>2, <1>3, ListFacts
  <2> QED
    BY <1>3, <2>1
<1>6. new \in Seq(Positions) /\ DOMAIN new = 1 .. k
  BY <1>5
<1>7. PICK to : to = [i \in 1 .. k |-> o[left[i]]]
  OBVIOUS
<1>8. /\ to \in [1 .. k -> DOMAIN history.trades]
      /\ \A i, j \in 1 .. k : to[i] = to[j] => i = j
  BY <1>1, <1>2, <1>3, <1>4, <1>7 DEF StandsFor
<1>9. config \subseteq Paths => \A i \in 1 .. k : new[i] = history.trades[to[i]]
  BY <1>1, <1>2, <1>3, <1>7 DEF StandsFor
<1>10. ~(config \subseteq Costs)
  BY DEF Costs
<1>11. StandsFor(to, new, 6)
  BY <1>6, <1>8, <1>9, <1>10 DEF StandsFor
<1> QED
  BY <1>6, <1>11 DEF Image

LEMMA ImageResized ==
  ASSUME NEW list \in Seq(Positions), Image(list, 6), "PositionVariation" \in config,
         NEW variation \in [DOMAIN list -> Variations],
         NEW new, new = [i \in DOMAIN list |-> Resized(list[i], variation[i])]
  PROVE  new \in Seq(Positions) /\ Image(new, 7)
<1>1. \A i \in DOMAIN list : new[i] \in Positions
  <2> SUFFICES ASSUME NEW i \in DOMAIN list PROVE new[i] \in Positions
    OBVIOUS
  <2>1. variation[i] \in Int
    BY MonteCarloAssumption
  <2> QED
    BY <2>1, ListFacts, ResizedIs
<1>2. new \in Seq(Positions) /\ DOMAIN new = DOMAIN list
  BY <1>1, EachTrade
<1>3. ~(config \subseteq Paths) /\ OnlyCosts(new, list, 6)
  BY DEF Paths, Costs, OnlyCosts
<1>4. Image(new, 7)
  BY <1>2, <1>3, ImageChanged
<1> QED
  BY <1>2, <1>4

-----------------------------------------------------------------------------
(* What a simulation may come to *)

\* The trades before each perturbation when nothing is drawn: which candles they are
\* delayed by is all that is taken from outside the list.
DelayIn(cs, time, price) ==
  LET at == {i \in DOMAIN cs : cs[i].time = time}
      later == Max(at) + DelayCandles
  IN IF at # {} /\ later \in DOMAIN cs THEN cs[later].close ELSE price

DelayAll(cs, list) ==
  [i \in DOMAIN list |-> Priced([list[i] EXCEPT !.entry = DelayIn(cs, list[i].entryTime, @),
                                                !.exit = DelayIn(cs, list[i].exitTime, @)])]

Slid(h, on) == IF "Slippage" \in on THEN Slippage(h) ELSE h
Paid(h, on) == IF "Commission" \in on THEN Commission(Slid(h, on)) ELSE Slid(h, on)
Late(h, cs, on) ==
  IF "ExecutionDelay" \in on THEN DelayAll(cs, Paid(h, on)) ELSE Paid(h, on)

Fixed(h, cs, on, s) ==
  IF s <= 2 THEN h ELSE IF s = 3 THEN Slid(h, on) ELSE IF s = 4 THEN Paid(h, on)
  ELSE Late(h, cs, on)

Drawless(list, s) ==
  config \cap Draws = {} => list = Fixed(history.trades, history.candles, config, s)

\* What the perturbations that are on allow of an outcome.
Expected(r) ==
  /\ config \cap Draws = {} =>
       r = Outcome(Fixed(history.trades, history.candles, config, 7))
  /\ config \subseteq {"TradeShuffle"} => r.netProfit = Baseline
  /\ config \subseteq Costs => r.netProfit <= Baseline /\ r.trades = Len(history.trades)
  /\ config \subseteq Paths => r.maxDrawdown <= LossOf(history.trades, DOMAIN history.trades)

\* The inductive invariant of the simulations.
SimulationInv ==
  /\ IsHistory(history) /\ stage \in 1 .. 7
  /\ perturbed \in Seq(Positions) /\ Image(perturbed, stage) /\ Drawless(perturbed, stage)
  /\ results \in Seq(Results) /\ \A i \in DOMAIN results : Expected(results[i])

\* Delays, as a function of the candles.
LEMMA DelayedAll ==
  ASSUME NEW list
  PROVE  ExecutionDelay(list) = DelayAll(history.candles, list)
BY DEF ExecutionDelay, Delayed, DelayedPrice, DelayAll, DelayIn

\* The measures of what is left of the trades.
LEMMA ImageMeasured ==
  ASSUME IsHistory(history), NEW list \in Seq(Positions), Image(list, 7), Drawless(list, 7)
  PROVE  Outcome(list) \in Results /\ Expected(Outcome(list))
<1>1. PICK o : StandsFor(o, list, 7)
  BY DEF Image
<1>2. PICK own \in Seq(Positions) : own = history.trades
  BY HistoryIs
<1>3. PICK r \in Results : r = Outcome(list)
  BY OutcomeIs
<1>4. /\ r.trades = Len(list) /\ r.netProfit = PnlOf(list, DOMAIN list)
      /\ r.maxDrawdown = MaxDrawdown(BuildEquityCurve(list))
  BY <1>3, OutcomeIs
<1>5. /\ IsFiniteSet(DOMAIN list) /\ IsFiniteSet(DOMAIN own)
      /\ o \in [DOMAIN list -> DOMAIN own]
      /\ \A i, j \in DOMAIN list : o[i] = o[j] => i = j
  BY <1>1, <1>2, ListFacts DEF StandsFor
<1>6. "MissedTrades" \notin config =>
        Len(list) = Len(own) /\ \A e \in DOMAIN own : \E i \in DOMAIN list : o[i] = e
  BY <1>1, <1>2 DEF StandsFor
<1>7. ASSUME NEW f, \A e \in DOMAIN own : f[e] \in Int,
             NEW g, \A i \in DOMAIN list : g[i] = f[o[i]]
      PROVE  /\ "MissedTrades" \notin config => SumOn(g, DOMAIN list) = SumOn(f, DOMAIN own)
             /\ (\A e \in DOMAIN own : f[e] >= 0) => SumOn(g, DOMAIN list) <= SumOn(f, DOMAIN own)
  <2>1. PICK S, D : S = DOMAIN list /\ D = DOMAIN own
    OBVIOUS
  <2>2. /\ IsFiniteSet(S) /\ IsFiniteSet(D) /\ o \in [S -> D]
        /\ \A x, y \in S : o[x] = o[y] => x = y
        /\ \A e \in D : f[e] \in Int
        /\ \A x \in S : g[x] = f[o[x]]
    BY <1>5, <1>7, <2>1
  <2>3. /\ (\A e \in D : \E x \in S : o[x] = e) => SumOn(g, S) = SumOn(f, D)
        /\ (\A e \in D : f[e] >= 0) => SumOn(g, S) <= SumOn(f, D)
    BY <2>2, SumRenamed
  <2> QED
    BY <1>6, <2>1, <2>3
<1>8. config \subseteq Paths => \A i \in DOMAIN list : list[i] = own[o[i]]
  BY <1>1, <1>2 DEF StandsFor
<1>9. /\ \A e \in DOMAIN own : PnlFun(own)[e] \in Int /\ PnlFun(own)[e] = own[e].pnl
      /\ \A i \in DOMAIN list : PnlFun(list)[i] \in Int /\ PnlFun(list)[i] = list[i].pnl
  BY PnlOfType DEF PnlFun
<1>10. /\ PnlOf(list, DOMAIN list) = SumOn(PnlFun(list), DOMAIN list)
       /\ Baseline = SumOn(PnlFun(own), DOMAIN own)
  BY <1>2, PnlOfIs DEF Baseline
<1>11. ASSUME config \subseteq {"TradeShuffle"} PROVE r.netProfit = Baseline
  <2>1. config \subseteq Paths /\ "MissedTrades" \notin config
    BY <1>11 DEF Paths
  <2>2. \A i \in DOMAIN list : PnlFun(list)[i] = PnlFun(own)[o[i]]
    BY <1>5, <1>8, <1>9, <2>1
  <2>3. SumOn(PnlFun(list), DOMAIN list) = SumOn(PnlFun(own), DOMAIN own)
    BY <1>9, <1>7, <2>1, <2>2
  <2> QED
    BY <1>4, <1>10, <2>3
<1>12. ASSUME config \subseteq Costs
       PROVE  r.netProfit <= Baseline /\ r.trades = Len(history.trades)
  <2>1. "MissedTrades" \notin config
    BY <1>12 DEF Costs
  <2>2. PICK g : g = [i \in DOMAIN list |-> own[o[i]].pnl]
    OBVIOUS
  <2>3. \A i \in DOMAIN list : g[i] = PnlFun(own)[o[i]] /\ g[i] = own[o[i]].pnl
    BY <1>5, <1>9, <2>2
  <2>4. SumOn(g, DOMAIN list) = SumOn(PnlFun(own), DOMAIN own)
    BY <1>9, <1>7, <2>1, <2>3
  <2>5. \A i \in DOMAIN list : list[i].pnl <= own[o[i]].pnl
    BY <1>1, <1>2, <1>12 DEF StandsFor, NoBetter
  <2>6. \A i \in DOMAIN list : /\ PnlFun(list)[i] \in Int /\ g[i] \in Int
                               /\ PnlFun(list)[i] <= g[i]
    BY <1>5, <1>9, <2>3, <2>5
  <2>7. SumOn(PnlFun(list), DOMAIN list) <= SumOn(g, DOMAIN list)
    BY <1>5, <2>6, SumOrdered
  <2> QED
    BY <1>2, <1>4, <1>6, <1>10, <2>1, <2>4, <2>7
<1>13. ASSUME config \subseteq Paths
       PROVE  r.maxDrawdown <= LossOf(history.trades, DOMAIN history.trades)
  <2>1. /\ LossOf(list, DOMAIN list) = SumOn(LossFun(list), DOMAIN list)
        /\ LossOf(own, DOMAIN own) = SumOn(LossFun(own), DOMAIN own)
        /\ \A e \in DOMAIN own : LossFun(own)[e] \in Int /\ LossFun(own)[e] >= 0
        /\ \A i \in DOMAIN list : LossFun(list)[i] \in Int
    BY LossSum
  <2>2. \A i \in DOMAIN list : LossFun(list)[i] = LossFun(own)[o[i]]
    BY <1>5, <1>8, <1>13 DEF LossFun
  <2>3. SumOn(LossFun(list), DOMAIN list) <= SumOn(LossFun(own), DOMAIN own)
    BY <1>7, <2>1, <2>2
  <2>4. r.maxDrawdown <= LossOf(list, DOMAIN list) /\ r.maxDrawdown \in Int
    BY <1>4, PathFalls DEF Results
  <2>5. SumOn(LossFun(list), DOMAIN list) \in Int /\ SumOn(LossFun(own), DOMAIN own) \in Int
    BY <1>5, <2>1, SumType
  <2> QED
    BY <1>2, <2>1, <2>3, <2>4, <2>5
<1>14. config \cap Draws = {} =>
         r = Outcome(Fixed(history.trades, history.candles, config, 7))
  BY <1>3 DEF Drawless
<1> QED
  BY <1>3, <1>11, <1>12, <1>13, <1>14 DEF Expected

\* One perturbation.
LEMMA PerturbKeeps ==
  ASSUME SimulationInv, Perturb
  PROVE  /\ stage' \in 1 .. 7 /\ perturbed' \in Seq(Positions)
         /\ Image(perturbed', stage') /\ Drawless(perturbed', stage')
<1>1. PICK s \in 1 .. 6 : s = stage /\ stage' = s + 1
  <2>1. stage \in 1 .. 7 /\ stage # 7 /\ stage' = stage + 1
    BY DEF SimulationInv, Perturb, Stages
  <2> QED
    BY <2>1
<1>2. PICK list \in Seq(Positions) : list = perturbed /\ Image(list, s) /\ Drawless(list, s)
  BY <1>1 DEF SimulationInv
<1>3. PICK new : new = perturbed'
  OBVIOUS
<1>4. IsHistory(history)
  BY DEF SimulationInv
<1>5. CASE Stages[s] \notin config
  <2>1. new = list
    BY <1>1, <1>2, <1>3, <1>5 DEF Perturb
  <2>2. Image(new, s + 1)
    BY <1>2, <2>1, ImageNext
  <2>3. Drawless(new, s + 1)
    BY <1>2, <1>5, <2>1 DEF Drawless, Fixed, Slid, Paid, Late, Stages
  <2> QED
    BY <1>1, <1>2, <1>3, <2>1, <2>2, <2>3
<1>6. CASE Stages[s] \in config
  <2>1. \/ s = 1 /\ TradeShuffle
        \/ s = 2 /\ new = Slippage(list)
        \/ s = 3 /\ new = Commission(list)
        \/ s = 4 /\ new = ExecutionDelay(list)
        \/ s = 5 /\ MissedTrades
        \/ s = 6 /\ PositionVariation
    BY <1>1, <1>2, <1>3, <1>6 DEF Perturb, Stages
  <2>2. Stages[1] = "TradeShuffle" /\ Stages[2] = "Slippage" /\ Stages[3] = "Commission"
        /\ Stages[4] = "ExecutionDelay" /\ Stages[5] = "MissedTrades"
        /\ Stages[6] = "PositionVariation"
    BY DEF Stages
  <2>3. ASSUME s \in {1, 5, 6} PROVE Drawless(new, s + 1)
    BY <1>6, <2>2, <2>3 DEF Drawless, Draws
  <2>4. CASE s = 1
    <3>1. PICK order \in Bijection(DOMAIN list, DOMAIN list) :
            new = [i \in DOMAIN list |-> list[order[i]]]
      BY <1>2, <1>3, <2>1, <2>4 DEF TradeShuffle
    <3>2. new \in Seq(Positions) /\ Image(new, 2)
      BY <1>2, <2>4, <3>1, ImageShuffled
    <3> QED
      BY <1>1, <1>3, <2>3, <2>4, <3>2
  <2>5. CASE s = 2
    <3>1. new = Slippage(list) /\ "Slippage" \in config
      BY <1>6, <2>1, <2>2, <2>5
    <3>2. new \in Seq(Positions) /\ Image(new, 3)
      BY <1>2, <1>4, <2>5, <3>1, ImageSlipped
    <3>3. Drawless(new, 3)
      BY <1>2, <2>5, <3>1 DEF Drawless, Fixed, Slid
    <3> QED
      BY <1>1, <1>3, <2>5, <3>2, <3>3
  <2>6. CASE s = 3
    <3>1. new = Commission(list) /\ "Commission" \in config
      BY <1>6, <2>1, <2>2, <2>6
    <3>2. new \in Seq(Positions) /\ Image(new, 4)
      BY <1>2, <1>4, <2>6, <3>1, ImageCharged
    <3>3. Drawless(new, 4)
      BY <1>2, <2>6, <3>1 DEF Drawless, Fixed, Paid
    <3> QED
      BY <1>1, <1>3, <2>6, <3>2, <3>3
  <2>7. CASE s = 4
    <3>1. new = ExecutionDelay(list) /\ "ExecutionDelay" \in config
      BY <1>6, <2>1, <2>2, <2>7
    <3>2. new \in Seq(Positions) /\ Image(new, 5)
      BY <1>2, <1>4, <2>7, <3>1, ImageDelayed
    <3>3. Drawless(new, 5)
      BY <1>2, <2>7, <3>1, DelayedAll DEF Drawless, Fixed, Late
    <3> QED
      BY <1>1, <1>3, <2>7, <3>2, <3>3
  <2>8. CASE s = 5
    <3>1. PICK left \in Picks(Len(list)) : new = [i \in DOMAIN left |-> list[left[i]]]
      BY <1>2, <1>3, <2>1, <2>8 DEF MissedTrades
    <3>2. new \in Seq(Positions) /\ Image(new, 6)
      BY <1>2, <1>6, <2>2, <2>8, <3>1, ImageMissed
    <3> QED
      BY <1>1, <1>3, <2>3, <2>8, <3>2
  <2>9. CASE s = 6
    <3>1. PICK variation \in [DOMAIN list -> Variations] :
            new = [i \in DOMAIN list |-> Resized(list[i], variation[i])]
      BY <1>2, <1>3, <2>1, <2>9 DEF PositionVariation
    <3>2. new \in Seq(Positions) /\ Image(new, 7)
      BY <1>2, <1>6, <2>2, <2>9, <3>1, ImageResized
    <3> QED
      BY <1>1, <1>3, <2>3, <2>9, <3>2
  <2> QED
    BY <1>1, <2>4, <2>5, <2>6, <2>7, <2>8, <2>9
<1> QED
  BY <1>5, <1>6

\* The trades of a simulation that begins.
LEMMA StartKeeps ==
  ASSUME IsHistory(history)
  PROVE  /\ history.trades \in Seq(Positions) /\ Image(history.trades, 1)
         /\ Drawless(history.trades, 1)
BY HistoryIs, ImageOfItself DEF Drawless, Fixed

\* What is measured, and the trades the next simulation begins with.
LEMMA MeasureKeeps ==
  ASSUME SimulationInv, Measure
  PROVE  /\ stage' = 1 /\ perturbed' = history.trades
         /\ results' \in Seq(Results) /\ \A i \in DOMAIN results' : Expected(results'[i])
<1>1. stage = 7 /\ stage' = 1 /\ perturbed' = history.trades
  BY DEF SimulationInv, Measure, Stages
<1>2. PICK r : r = Outcome(perturbed)
  OBVIOUS
<1>3. r \in Results /\ Expected(r)
  BY <1>1, <1>2, ImageMeasured DEF SimulationInv
<1>4. PICK rs \in Seq(Results) : rs = results /\ \A i \in DOMAIN rs : Expected(rs[i])
  BY DEF SimulationInv
<1>5. PICK n \in Nat : n = Len(rs) /\ DOMAIN rs = 1 .. n
  BY ListFacts
<1>6. PICK new : new = Append(rs, r)
  OBVIOUS
<1>7. new \in Seq(Results) /\ DOMAIN new = 1 .. n + 1 /\ new[n + 1] = r
      /\ \A i \in 1 .. n : new[i] = rs[i]
  BY <1>3, <1>5, <1>6
<1>8. ASSUME NEW i \in DOMAIN new PROVE Expected(new[i])
  <2>1. i \in 1 .. n \/ i = n + 1
    BY <1>7
  <2> QED
    BY <1>3, <1>4, <1>5, <1>7, <2>1
<1>9. new = results'
  BY <1>2, <1>4, <1>6 DEF Measure
<1> QED
  BY <1>1, <1>7, <1>8, <1>9

\* Nothing a simulation is judged by changes while its backtest stays.
LEMMA StaysExpected ==
  ASSUME UNCHANGED <<history, config>>
  PROVE  /\ \A r : Expected(r) => Expected(r)'
         /\ \A list, s : Drawless(list, s) => Drawless(list, s)'
         /\ \A list, s : Image(list, s) => Image(list, s)'
<1>1. history' = history /\ config' = config
  OBVIOUS
<1>2. \A r : Expected(r) => Expected(r)'
  BY <1>1 DEF Expected, Baseline
<1>3. \A list, s : Drawless(list, s) => Drawless(list, s)'
  BY <1>1 DEF Drawless
<1>4. ASSUME NEW list, NEW s, Image(list, s) PROVE Image(list, s)'
  <2>1. PICK o : StandsFor(o, list, s)
    BY <1>4 DEF Image
  <2>2. StandsFor(o, list, s)'
    BY <1>1, <2>1 DEF StandsFor
  <2> QED
    BY <2>2 DEF Image
<1> QED
  BY <1>2, <1>3, <1>4

LEMMA SimulationKept ==
  ASSUME SimulationInv, UNCHANGED <<history, config>>,
         stage' \in 1 .. 7, perturbed' \in Seq(Positions),
         Image(perturbed', stage'), Drawless(perturbed', stage'),
         results' \in Seq(Results), \A i \in DOMAIN results' : Expected(results'[i])
  PROVE  SimulationInv'
<1>1. IsHistory(history)'
  BY DEF SimulationInv
<1>2. PICK list, s, rs : list = perturbed' /\ s = stage' /\ rs = results'
  OBVIOUS
<1>3. Image(list, s)' /\ Drawless(list, s)' /\ \A i \in DOMAIN rs : Expected(rs[i])'
  BY <1>2, StaysExpected
<1>4. Image(perturbed, stage)' /\ Drawless(perturbed, stage)'
      /\ (\A i \in DOMAIN results : Expected(results[i]))'
  BY <1>2, <1>3
<1> QED
  BY <1>1, <1>4 DEF SimulationInv

-----------------------------------------------------------------------------
(* The outcomes in order *)

\* Of two places the one whose value is smaller, or that is the first of equal ones.
Precedes(values, a, b) == values[a] < values[b] \/ (values[a] = values[b] /\ a < b)

Sorts(order, values, k) ==
  /\ order \in [1 .. k -> 1 .. k]
  /\ \A i, j \in 1 .. k : i < j => Precedes(values, order[i], order[j])

\* One more is put behind those that are no larger.
LEMMA OneMoreSorted ==
  ASSUME NEW n \in Nat, NEW values \in [1 .. n -> Int], NEW k \in 1 .. n,
         NEW order, Sorts(order, values, k - 1)
  PROVE  \E longer : Sorts(longer, values, k)
<1> DEFINE T == {i \in Nat : i \in 1 .. k /\ (i < k => values[order[i]] > values[k])}
<1>1. PICK p \in T : \A i \in T : p <= i
  <2>1. k \in T
    OBVIOUS
  <2>2. T \in SUBSET Nat /\ T # {}
    BY <2>1
  <2> HIDE DEF T
  <2> QED
    BY <2>2, LeastOne
<1>2. /\ p \in 1 .. k /\ (p < k => values[order[p]] > values[k])
      /\ \A i \in 1 .. p - 1 : ~(values[order[i]] > values[k])
  BY <1>1
<1> HIDE DEF T
<1>3. PICK longer : longer = [i \in 1 .. k |-> IF i < p THEN order[i] ELSE IF i = p THEN k ELSE order[i - 1]]
  OBVIOUS
<1>4. /\ order \in [1 .. k - 1 -> 1 .. k - 1]
      /\ \A i, j \in 1 .. k - 1 : i < j => Precedes(values, order[i], order[j])
  BY DEF Sorts
<1>5. \A i \in 1 .. k - 1 : order[i] \in 1 .. k - 1 /\ values[order[i]] \in Int
  BY <1>4
<1>6. values[k] \in Int
  OBVIOUS
<1>7. \A i \in 1 .. k : /\ i < p => i \in 1 .. k - 1 /\ longer[i] = order[i]
                        /\ i = p => longer[i] = k
                        /\ i > p => i - 1 \in 1 .. k - 1 /\ longer[i] = order[i - 1]
  BY <1>2, <1>3
<1>8. ASSUME NEW i \in 1 .. k PROVE longer[i] \in 1 .. k
  <2>1. i < p => longer[i] \in 1 .. k - 1
    BY <1>5, <1>7
  <2>2. i > p => longer[i] \in 1 .. k - 1
    BY <1>5, <1>7
  <2>3. i = p => longer[i] = k
    BY <1>7
  <2> QED
    BY <1>2, <2>1, <2>2, <2>3
<1>9. longer \in [1 .. k -> 1 .. k]
  BY <1>3, <1>8
<1>10. ASSUME NEW i \in 1 .. k, NEW j \in 1 .. k, i < j
       PROVE  Precedes(values, longer[i], longer[j])
  <2>1. CASE j < p
    <3>1. /\ longer[i] = order[i] /\ longer[j] = order[j]
          /\ i \in 1 .. k - 1 /\ j \in 1 .. k - 1
      BY <1>2, <1>7, <1>10, <2>1
    <3> QED
      BY <1>4, <1>10, <3>1
  <2>2. CASE j = p
    <3>1. longer[i] = order[i] /\ longer[j] = k /\ order[i] \in 1 .. k - 1
          /\ values[order[i]] \in Int
      BY <1>5, <1>7, <1>10, <2>2
    <3>2. ~(values[order[i]] > values[k])
      BY <1>2, <1>10, <2>2
    <3> QED
      BY <1>6, <3>1, <3>2 DEF Precedes
  <2>3. CASE i < p /\ j > p
    <3>1. longer[i] = order[i] /\ longer[j] = order[j - 1] /\ i \in 1 .. k - 1 /\ j - 1 \in 1 .. k - 1
      BY <1>7, <2>3
    <3>2. i < j - 1
      BY <2>3, <1>2
    <3> QED
      BY <1>4, <3>1, <3>2
  <2>4. CASE i = p
    <3>1. longer[i] = k /\ longer[j] = order[j - 1] /\ p \in 1 .. k - 1 /\ j - 1 \in 1 .. k - 1
      BY <1>2, <1>7, <1>10, <2>4
    <3>2. values[order[p]] > values[k]
      BY <1>2, <3>1
    <3>3. values[order[p]] \in Int /\ values[order[j - 1]] \in Int
      BY <1>5, <3>1
    <3>4. values[order[p]] <= values[order[j - 1]]
      <4>1. CASE p = j - 1
        BY <3>3, <4>1
      <4>2. CASE p < j - 1
        <5>1. Precedes(values, order[p], order[j - 1])
          BY <1>4, <3>1, <4>2
        <5> QED
          BY <3>3, <5>1 DEF Precedes
      <4> QED
        BY <1>10, <2>4, <3>1, <4>1, <4>2
    <3> QED
      BY <1>6, <3>1, <3>2, <3>3, <3>4 DEF Precedes
  <2>5. CASE i > p
    <3>1. /\ longer[i] = order[i - 1] /\ longer[j] = order[j - 1]
          /\ i - 1 \in 1 .. k - 1 /\ j - 1 \in 1 .. k - 1 /\ i - 1 < j - 1
      BY <1>2, <1>7, <1>10, <2>5
    <3> QED
      BY <1>4, <3>1
  <2> QED
    BY <1>2, <1>10, <2>1, <2>2, <2>3, <2>4, <2>5
<1> QED
  BY <1>9, <1>10 DEF Sorts

\* An order there is, and it takes every place.
LEMMA OrderIs ==
  ASSUME NEW n \in Nat, NEW values \in [1 .. n -> Int]
  PROVE  /\ Sorts(StableOrder(values), values, n)
         /\ \A e \in 1 .. n : \E i \in 1 .. n : StableOrder(values)[i] = e
<1> DEFINE P == {k \in 0 .. n : \E order : Sorts(order, values, k)}
<1>1. 0 \in P
  <2>1. PICK order : order = [i \in 1 .. 0 |-> i]
    OBVIOUS
  <2>2. Sorts(order, values, 0)
    BY <2>1 DEF Sorts
  <2> QED
    BY <2>2
<1>2. ASSUME NEW k \in 1 .. n, k - 1 \in P PROVE k \in P
  <2>1. PICK order : Sorts(order, values, k - 1)
    BY <1>2
  <2>2. \E longer : Sorts(longer, values, k)
    BY <2>1, OneMoreSorted
  <2> QED
    BY <2>2
<1>3. n \in P
  <2>1. PICK lo \in Int, hi \in Int : lo = 0 /\ hi = n
    OBVIOUS
  <2>2. \A m \in lo + 1 .. hi : m - 1 \in P => m \in P
    BY <1>2, <2>1
  <2>3. lo \in P
    BY <1>1, <2>1
  <2> HIDE DEF P
  <2>4. \A m \in lo .. hi : m \in P
    BY <2>2, <2>3, IntervalInduction
  <2> QED
    BY <2>1, <2>4
<1>4. PICK order : Sorts(order, values, n)
  BY <1>3
<1>5. PICK o : o = StableOrder(values)
  OBVIOUS
<1>6. Sorts(o, values, n)
  <2>1. DOMAIN values = 1 .. n
    OBVIOUS
  <2>2. o = CHOOSE f : Sorts(f, values, n)
    BY <1>5, <2>1 DEF StableOrder, Sorts, Precedes
  <2> QED
    BY <1>4, <2>2
<1>7. \A i, j \in 1 .. n : o[i] = o[j] => i = j
  <2> SUFFICES ASSUME NEW i \in 1 .. n, NEW j \in 1 .. n, o[i] = o[j] PROVE i = j
    OBVIOUS
  <2>1. o[i] \in 1 .. n /\ values[o[i]] \in Int
    BY <1>6 DEF Sorts
  <2>2. ~Precedes(values, o[i], o[j]) /\ ~Precedes(values, o[j], o[i])
    BY <2>1 DEF Precedes
  <2>3. ~(i < j) /\ ~(j < i)
    BY <1>6, <2>2 DEF Sorts
  <2> QED
    BY <2>3
<1>8. \A e \in 1 .. n : \E i \in 1 .. n : o[i] = e
  <2>1. PICK T : T = 1 .. n
    OBVIOUS
  <2>2. IsFiniteSet(T) /\ o \in [T -> T] /\ \A i, j \in T : o[i] = o[j] => i = j
    <3>1. IsFiniteSet(1 .. n)
      BY FS_Interval
    <3>2. o \in [1 .. n -> 1 .. n]
      BY <1>6 DEF Sorts
    <3> QED
      BY <1>7, <2>1, <3>1, <3>2
  <2>3. o \in Injection(T, T)
    BY <2>2 DEF Injection, IsInjective
  <2>4. o \in Surjection(T, T)
    BY <2>2, <2>3, FS_Injection
  <2> QED
    BY <2>1, <2>4 DEF Surjection
<1> QED
  BY <1>5, <1>6, <1>8

-----------------------------------------------------------------------------
(* Percentiles and tails of a sorted list *)

Rises(s) == s \in Seq(Int) /\ s # <<>> /\ \A i, j \in DOMAIN s : i <= j => s[i] <= s[j]

\* A percentile lies between two neighbours, or on the last, as far as its rank says.
Interpolates(s, h, p, l, u, r) ==
  /\ l \in 1 .. Len(s) /\ u \in 1 .. Len(s) /\ r \in 0 .. 199 /\ p \in Int
  /\ h * (Len(s) - 1) = 200 * (l - 1) + r
  /\ p = 200 * s[l] + (s[u] - s[l]) * r
  /\ u = l + 1 \/ (u = l /\ l = Len(s))
  /\ 200 * s[l] <= p /\ p <= 200 * s[u]

LEMMA PercentileIs ==
  ASSUME NEW s, Rises(s), NEW h \in 0 .. 200
  PROVE  \E l, u, r : Interpolates(s, h, Percentile(s, h), l, u, r)
<1>1. PICK n \in Nat : n = Len(s) /\ n >= 1 /\ DOMAIN s = 1 .. n
  <2>1. s \in Seq(Int) /\ s # <<>>
    BY DEF Rises
  <2> QED
    BY <2>1
<1>2. PICK rank \in Int : rank = h * (n - 1)
  OBVIOUS
<1>3. 0 <= rank /\ rank <= 200 * (n - 1)
  <2>1. PICK m \in Nat : m = n - 1
    BY <1>1
  <2>2. 0 <= h * m /\ h * m <= 200 * m
    BY SMTT(30)
  <2> QED
    BY <1>2, <2>1, <2>2
<1>4. PICK lower \in Int, r \in Int : lower = rank \div 200 /\ r = rank % 200
  OBVIOUS
<1>5. rank = 200 * lower + r /\ r \in 0 .. 199 /\ 0 <= lower /\ lower <= n - 1
  BY <1>3, <1>4
<1>6. PICK upper \in Int : upper = IF lower + 1 < n THEN lower + 1 ELSE n - 1
  BY <1>1, <1>4
<1>7. PICK l \in 1 .. n, u \in 1 .. n : l = lower + 1 /\ u = upper + 1
  BY <1>1, <1>5, <1>6
<1>8. l <= u /\ (u = l + 1 \/ (u = l /\ l = n))
  BY <1>5, <1>6, <1>7
<1>9. PICK a \in Int, b \in Int : a = s[l] /\ b = s[u] /\ a <= b
  <2>1. s[l] \in Int /\ s[u] \in Int
    BY <1>1, ListFacts DEF Rises
  <2>2. s[l] <= s[u]
    BY <1>1, <1>8 DEF Rises
  <2> QED
    BY <2>1, <2>2
<1>10. PICK p : p = Percentile(s, h)
  OBVIOUS
<1>11. p = 200 * a + (b - a) * r
  BY <1>1, <1>2, <1>4, <1>6, <1>7, <1>9, <1>10 DEF Percentile
<1>12. p \in Int /\ 200 * a <= p /\ p <= 200 * b
  <2>1. PICK d \in Nat : d = b - a
    BY <1>9
  <2>2. 0 <= d * r /\ d * r <= 200 * d /\ d * r \in Int
    BY <1>5, SMTT(30)
  <2>3. PICK w \in Int : w = d * r
    BY <2>2
  <2>4. p = 200 * a + w /\ 0 <= w /\ w <= 200 * d
    BY <1>11, <2>1, <2>2, <2>3
  <2> QED
    BY <2>1, <2>4
<1>13. h * (Len(s) - 1) = 200 * (l - 1) + r
  BY <1>1, <1>2, <1>5, <1>7
<1>14. Interpolates(s, h, p, l, u, r)
  BY <1>1, <1>5, <1>8, <1>9, <1>11, <1>12, <1>13 DEF Interpolates
<1> QED
  BY <1>10, <1>14

\* It is within the list.
LEMMA PercentileWithin ==
  ASSUME NEW s, Rises(s), NEW h \in 0 .. 200
  PROVE  /\ Percentile(s, h) \in Int
         /\ 200 * s[1] <= Percentile(s, h) /\ Percentile(s, h) <= 200 * s[Len(s)]
<1>1. PICK n \in Nat : n = Len(s) /\ n >= 1 /\ DOMAIN s = 1 .. n
  <2>1. s \in Seq(Int) /\ s # <<>>
    BY DEF Rises
  <2> QED
    BY <2>1
<1>2. PICK l, u, r : Interpolates(s, h, Percentile(s, h), l, u, r)
  BY PercentileIs
<1>3. l \in 1 .. n /\ u \in 1 .. n /\ 1 \in 1 .. n /\ n \in 1 .. n
  BY <1>1, <1>2 DEF Interpolates
<1>4. s[1] <= s[l] /\ s[u] <= s[n]
  BY <1>1, <1>3 DEF Rises
<1>5. s[1] \in Int /\ s[l] \in Int /\ s[u] \in Int /\ s[n] \in Int
  BY <1>1, <1>3, ListFacts DEF Rises
<1>6. PICK p \in Int : p = Percentile(s, h) /\ 200 * s[l] <= p /\ p <= 200 * s[u]
  BY <1>2 DEF Interpolates
<1>7. 200 * s[1] <= p /\ p <= 200 * s[n]
  BY <1>4, <1>5, <1>6
<1> QED
  BY <1>1, <1>6, <1>7

\* A higher percentile is no lower.
LEMMA PercentileRises ==
  ASSUME NEW s, Rises(s), NEW h \in 0 .. 200, NEW g \in 0 .. 200, h <= g
  PROVE  Percentile(s, h) <= Percentile(s, g)
<1>1. PICK n \in Nat : n = Len(s) /\ n >= 1 /\ DOMAIN s = 1 .. n
  <2>1. s \in Seq(Int) /\ s # <<>>
    BY DEF Rises
  <2> QED
    BY <2>1
<1>2. PICK p, q : p = Percentile(s, h) /\ q = Percentile(s, g)
  OBVIOUS
<1>3. PICK l, u, r : Interpolates(s, h, p, l, u, r)
  BY <1>2, PercentileIs
<1>4. PICK k, v, t : Interpolates(s, g, q, k, v, t)
  BY <1>2, PercentileIs
<1>5. /\ l \in 1 .. n /\ u \in 1 .. n /\ r \in 0 .. 199 /\ k \in 1 .. n /\ v \in 1 .. n /\ t \in 0 .. 199
      /\ p \in Int /\ q \in Int
      /\ h * (n - 1) = 200 * (l - 1) + r /\ g * (n - 1) = 200 * (k - 1) + t
      /\ (u = l + 1 \/ (u = l /\ l = n)) /\ (v = k + 1 \/ (v = k /\ k = n))
  BY <1>1, <1>3, <1>4 DEF Interpolates
<1>6. 200 * (l - 1) + r <= 200 * (k - 1) + t
  <2>1. PICK m \in Nat : m = n - 1
    BY <1>1
  <2>2. h * m <= g * m
    BY SMTT(30)
  <2> QED
    BY <1>5, <2>1, <2>2
<1>7. l <= k /\ (l = k => r <= t /\ u = v)
  BY <1>5, <1>6
<1>8. s[l] \in Int /\ s[u] \in Int /\ s[k] \in Int /\ s[v] \in Int
  BY <1>1, <1>5, ListFacts DEF Rises
<1>9. CASE l = k
  <2>1. p = 200 * s[l] + (s[u] - s[l]) * r /\ q = 200 * s[l] + (s[u] - s[l]) * t
    BY <1>3, <1>4, <1>7, <1>9 DEF Interpolates
  <2>2. s[l] <= s[u]
    <3>1. l \in DOMAIN s /\ u \in DOMAIN s /\ l <= u
      BY <1>1, <1>5
    <3> QED
      BY <3>1 DEF Rises
  <2>3. PICK d \in Nat, a \in Int : d = s[u] - s[l] /\ a = s[l]
    BY <1>8, <2>2
  <2>4. d * r <= d * t /\ d * r \in Int /\ d * t \in Int
    BY <1>5, <1>7, <1>9, SMTT(30)
  <2>5. p = 200 * a + d * r /\ q = 200 * a + d * t
    BY <2>1, <2>3
  <2> QED
    BY <1>2, <2>4, <2>5
<1>10. CASE l # k
  <2>1. u <= k
    BY <1>5, <1>7, <1>10
  <2>2. s[u] <= s[k]
    BY <1>1, <1>5, <2>1 DEF Rises
  <2>3. p <= 200 * s[u] /\ 200 * s[k] <= q
    BY <1>3, <1>4 DEF Interpolates
  <2> QED
    BY <1>2, <1>5, <1>8, <2>2, <2>3
<1> QED
  BY <1>9, <1>10

\* The mean of what lies under a threshold is under it.
LEMMA TailUnder ==
  ASSUME NEW s, Rises(s), NEW T \in Int, NEW part \in SUBSET DOMAIN s, part # {},
         \A i \in part : 200 * s[i] <= T
  PROVE  LET shortfall == ShortfallOf(s, part)
         IN shortfall[1] >= HigherOf(0, -T) * shortfall[2]
<1>1. PICK list \in Seq(Int) : list = s
  BY DEF Rises
<1>2. IsFiniteSet(part) /\ \A i \in part : s[i] \in Int
  BY <1>1, ListFacts, FS_Subset
<1>3. PICK c \in Nat : c = Cardinality(part)
  BY <1>2, FS_CardinalityType
<1>4. PICK sum \in Int : sum = SumOn(s, part)
  BY <1>2, SumType
<1>5. PICK bound \in Int : bound = T \div 200 /\ 200 * bound <= T /\ \A x \in Int : 200 * x <= T => x <= bound
  OBVIOUS
<1>6. PICK f : f = [i \in part |-> bound]
  OBVIOUS
<1>7. \A i \in part : s[i] \in Int /\ f[i] \in Int /\ s[i] <= f[i] /\ f[i] = bound
  BY <1>2, <1>5, <1>6
<1>8. sum <= SumOn(f, part) /\ SumOn(f, part) = c * bound
  BY <1>2, <1>3, <1>4, <1>7, SumOrdered, SumOfSame
<1>9. 200 * sum <= c * T
  <2>1. PICK w \in Int : w = c * bound
    OBVIOUS
  <2>2. 200 * w <= c * T
    <3>1. c * (200 * bound) <= c * T
      BY <1>5, SMTT(30)
    <3>2. c * (200 * bound) = 200 * w
      BY <2>1, SMTT(30)
    <3> QED
      BY <3>1, <3>2
  <2>3. PICK z \in Int : z = c * T
    OBVIOUS
  <2>4. sum <= w
    BY <1>8, <2>1
  <2>5. 200 * w <= z
    BY <2>2, <2>3
  <2>6. 200 * sum <= z
    BY <2>4, <2>5
  <2> QED
    BY <2>3, <2>6
<1>10. ShortfallOf(s, part) = <<HigherOf(0, -200 * sum), c>>
  BY <1>3, <1>4 DEF ShortfallOf, SumOn
<1>11. HigherOf(0, -200 * sum) >= HigherOf(0, -T) * c
  <2>1. CASE T >= 0
    <3>1. HigherOf(0, -T) = 0 /\ 0 * c = 0
      BY <2>1 DEF HigherOf
    <3> QED
      BY <1>4, <3>1 DEF HigherOf
  <2>2. CASE T < 0
    <3>1. HigherOf(0, -T) = -T
      BY <2>2 DEF HigherOf
    <3>2. (-T) * c = -(c * T)
      BY SMTT(30)
    <3>3. -200 * sum >= (-T) * c
      BY <1>4, <1>9, <3>2
    <3> QED
      BY <1>4, <3>1, <3>3 DEF HigherOf
  <2> QED
    BY <2>1, <2>2
<1> QED
  BY <1>10, <1>11

\* The outcomes of the simulations, in the order of what they made.
LEMMA OutcomesSorted ==
  ASSUME results \in Seq(Results), results # <<>>
  PROVE  /\ Rises(SortedReturns) /\ Len(SortedReturns) = Len(results)
         /\ \A i \in DOMAIN results : /\ ByReturn[i].netProfit = SortedReturns[i]
                                      /\ \E j \in DOMAIN results : SortedReturns[j] = results[i].netProfit
<1>1. PICK n \in Nat : n = Len(results) /\ n >= 1 /\ DOMAIN results = 1 .. n
  OBVIOUS
<1>2. PICK made : made = Returns
  OBVIOUS
<1>3. \A i \in 1 .. n : results[i].netProfit \in Int
  <2> SUFFICES ASSUME NEW i \in 1 .. n PROVE results[i].netProfit \in Int
    OBVIOUS
  <2>1. results[i] \in Results
    BY <1>1
  <2> QED
    BY <2>1 DEF Results
<1>4. made \in [1 .. n -> Int] /\ \A i \in 1 .. n : made[i] = results[i].netProfit
  BY <1>1, <1>2, <1>3 DEF Returns
<1>5. PICK order : order = StableOrder(made)
  OBVIOUS
<1>6. Sorts(order, made, n) /\ \A e \in 1 .. n : \E i \in 1 .. n : order[i] = e
  BY <1>4, <1>5, OrderIs
<1>7. PICK s : s = SortedReturns
  OBVIOUS
<1>8. s = [i \in 1 .. n |-> made[order[i]]]
  BY <1>1, <1>2, <1>5, <1>7 DEF SortedReturns
<1>9. order \in [1 .. n -> 1 .. n]
  BY <1>6 DEF Sorts
<1>10. \A i \in 1 .. n : s[i] = made[order[i]] /\ s[i] \in Int
  BY <1>4, <1>8, <1>9
<1>11. s \in [1 .. n -> Int]
  BY <1>8, <1>10
<1>12. s \in Seq(Int) /\ Len(s) = n /\ DOMAIN s = 1 .. n /\ s # <<>>
  <2>1. s \in Seq(Int) /\ Len(s) = n /\ DOMAIN s = 1 .. n
    BY <1>11
  <2> QED
    BY <1>1, <2>1
<1>13. ASSUME NEW i \in 1 .. n, NEW j \in 1 .. n, i <= j PROVE s[i] <= s[j]
  <2>1. CASE i = j
    BY <1>10, <2>1
  <2>2. CASE i < j
    <3>1. Precedes(made, order[i], order[j])
      BY <1>6, <2>2 DEF Sorts
    <3> QED
      BY <1>10, <3>1 DEF Precedes
  <2> QED
    BY <1>13, <2>1, <2>2
<1>14. Rises(s)
  BY <1>12, <1>13 DEF Rises
<1>15. ASSUME NEW i \in 1 .. n
       PROVE  ByReturn[i].netProfit = s[i] /\ \E j \in 1 .. n : s[j] = results[i].netProfit
  <2>1. order[i] \in 1 .. n
    BY <1>9
  <2>2. ByReturn[i] = results[order[i]]
    BY <1>1, <1>2, <1>5 DEF ByReturn
  <2>3. ByReturn[i].netProfit = s[i]
    BY <1>4, <1>10, <2>1, <2>2
  <2>4. PICK j \in 1 .. n : order[j] = i
    BY <1>6
  <2>5. s[j] = results[i].netProfit
    BY <1>4, <1>10, <2>4
  <2> QED
    BY <2>3, <2>5
<1> QED
  BY <1>1, <1>7, <1>12, <1>14, <1>15

\* The figures of the tails of any outcomes are in order.
LEMMA TailsDo ==
  ASSUME results \in Seq(Results)
  PROVE  TailsOrdered
<1> SUFFICES ASSUME results # <<>> PROVE TailsOrdered
  BY DEF TailsOrdered
<1>1. PICK n \in Nat : n = Len(results) /\ n >= 1 /\ DOMAIN results = 1 .. n
  OBVIOUS
<1>2. PICK s : s = SortedReturns /\ Rises(s) /\ Len(s) = n
  BY <1>1, OutcomesSorted
<1>3. DOMAIN s = 1 .. n /\ \A i \in 1 .. n : s[i] \in Int
  BY <1>2, ListFacts DEF Rises
<1>4. PICK c \in 0 .. 100 : c = ConfidenceLevel
  BY MonteCarloAssumption
<1>5. 1 \in 1 .. n /\ n \in 1 .. n
  BY <1>1
<1>6. WorstCases[1].netProfit = s[1] /\ BestCases[1].netProfit = s[n]
  <2>1. PICK m \in Nat : m = (IF TopN < n THEN TopN ELSE n) /\ 1 \in 1 .. m
    BY <1>1, MonteCarloAssumption
  <2>2. WorstCases = [i \in 1 .. m |-> ByReturn[i]]
    BY <1>1, <2>1 DEF WorstCases
  <2>3. BestCases = [i \in 1 .. m |-> ByReturn[n + 1 - i]]
    BY <1>1, <2>1 DEF BestCases
  <2>4. n + 1 - 1 = n
    BY <1>1
  <2>5. WorstCases[1] = ByReturn[1] /\ BestCases[1] = ByReturn[n]
    BY <2>1, <2>2, <2>3, <2>4
  <2> QED
    BY <1>1, <1>2, <1>5, <2>5, OutcomesSorted
<1>7. PICK T \in Int : T = TailThreshold(s) /\ 200 * s[1] <= T
  <2>1. 2 * (100 - c) \in 0 .. 200
    OBVIOUS
  <2>2. PICK h \in 0 .. 200 : h = 2 * (100 - c)
    BY <2>1
  <2> QED
    BY <1>2, <1>4, <2>2, PercentileWithin DEF TailThreshold
<1>8. ValueAtRisk(s) = HigherOf(0, -T)
  BY <1>7 DEF ValueAtRisk
<1>9. ConditionalValueAtRisk(s)[1] >= ValueAtRisk(s) * ConditionalValueAtRisk(s)[2]
  <2>1. PICK part : part = TailLosses(s)
    OBVIOUS
  <2>2. part = {i \in DOMAIN s : 200 * s[i] <= T}
    BY <1>7, <2>1 DEF TailLosses
  <2>3. /\ part \in SUBSET DOMAIN s /\ 1 \in part /\ part # {}
        /\ \A i \in part : 200 * s[i] <= T
    BY <1>3, <1>5, <1>7, <2>2
  <2>4. PICK fall : fall = ShortfallOf(s, part)
    OBVIOUS
  <2>5. fall[1] >= HigherOf(0, -T) * fall[2]
    BY <1>2, <2>3, <2>4, TailUnder
  <2>6. ConditionalValueAtRisk(s) = fall
    BY <2>1, <2>4 DEF ConditionalValueAtRisk
  <2> QED
    BY <1>8, <2>5, <2>6
<1>10. PICK p, q : p = Percentile(s, 100 - c) /\ q = Percentile(s, 100 + c)
  OBVIOUS
<1>11. 200 * s[1] <= p /\ p <= q /\ q <= 200 * s[n]
  <2>1. PICK h \in 0 .. 200, g \in 0 .. 200 : h = 100 - c /\ g = 100 + c /\ h <= g
    <3>1. 100 - c \in 0 .. 200 /\ 100 + c \in 0 .. 200 /\ 100 - c <= 100 + c
      OBVIOUS
    <3> QED
      BY <3>1
  <2> QED
    BY <1>2, <1>10, <2>1, PercentileWithin, PercentileRises
<1>12. ConfidenceInterval(s)[1] = p /\ ConfidenceInterval(s)[2] = q
  BY <1>4, <1>10 DEF ConfidenceInterval
<1>13. ValueAtRisk(s) <= HigherOf(0, -200 * s[1])
  <2>1. PICK a \in Int : a = s[1]
    BY <1>3, <1>5
  <2>2. HigherOf(0, -T) <= HigherOf(0, -200 * a)
    BY <1>7, <2>1 DEF HigherOf
  <2> QED
    BY <1>8, <2>1, <2>2
<1>14. ASSUME NEW i \in DOMAIN results
       PROVE  s[1] <= results[i].netProfit /\ results[i].netProfit <= s[n]
  <2>1. PICK j \in DOMAIN results : s[j] = results[i].netProfit
    BY <1>2, OutcomesSorted
  <2>2. 1 \in DOMAIN s /\ j \in DOMAIN s /\ n \in DOMAIN s /\ 1 <= j /\ j <= n
    BY <1>1, <1>3, <1>5
  <2> QED
    BY <1>2, <2>1, <2>2 DEF Rises
<1> QED
  BY <1>2, <1>6, <1>9, <1>11, <1>12, <1>13, <1>14 DEF TailsOrdered

-----------------------------------------------------------------------------
(* The simulations of every job *)

\* The inductive invariant of the simulations, along every job.
THEOREM SimulationsInvariant == Spec => []SimulationInv
<1>1. Init => SimulationInv
  <2> SUFFICES ASSUME Init PROVE SimulationInv
    OBVIOUS
  <2>1. stage = 1 /\ perturbed = history.trades /\ results = <<>>
    BY DEF Init, NoSimulation, MonteCarloInit
  <2>2. IsHistory(history)
    <3>1. CASE MonteCarloInit
      BY <3>1, MonteCarloAssumption DEF MonteCarloInit
    <3>2. CASE NoSimulation
      <4>1. PICK none : none = <<>>
        OBVIOUS
      <4>2. DOMAIN none = {} /\ \A S : none \in Seq(S)
        BY <4>1
      <4>3. history.candles = none /\ history.trades = none
        BY <3>2, <4>1 DEF NoSimulation
      <4> QED
        BY <4>2, <4>3 DEF IsHistory
    <3> QED
      BY <3>1, <3>2 DEF Init
  <2>3. PICK rs \in Seq(Results) : rs = results /\ DOMAIN rs = {}
    <3>1. <<>> \in Seq(Results) /\ DOMAIN <<>> = {}
      OBVIOUS
    <3> QED
      BY <2>1, <3>1
  <2> QED
    BY <2>1, <2>2, <2>3, StartKeeps DEF SimulationInv
<1>2. SimulationInv /\ [Next]_vars => SimulationInv'
  <2> SUFFICES ASSUME SimulationInv, [Next]_vars PROVE SimulationInv'
    OBVIOUS
  <2>1. CASE Perturb
    <3>1. UNCHANGED <<history, config, results>>
      BY <2>1 DEF Perturb
    <3>2. results' \in Seq(Results) /\ \A i \in DOMAIN results' : Expected(results'[i])
      BY <3>1 DEF SimulationInv
    <3> QED
      BY <2>1, <3>1, <3>2, PerturbKeeps, SimulationKept
  <2>2. CASE Measure
    <3>1. UNCHANGED <<history, config>>
      BY <2>2 DEF Measure
    <3>2. /\ stage' = 1 /\ perturbed' = history.trades
          /\ results' \in Seq(Results) /\ \A i \in DOMAIN results' : Expected(results'[i])
      BY <2>2, MeasureKeeps
    <3>3. /\ stage' \in 1 .. 7 /\ perturbed' \in Seq(Positions)
          /\ Image(perturbed', stage') /\ Drawless(perturbed', stage')
      BY <3>2, StartKeeps DEF SimulationInv
    <3> QED
      BY <3>1, <3>2, <3>3, SimulationKept
  <2>3. CASE UNCHANGED monteCarloVars
    <3>1. UNCHANGED <<history, config, stage, perturbed, results>>
      BY <2>3 DEF monteCarloVars
    <3>2. /\ stage' \in 1 .. 7 /\ perturbed' \in Seq(Positions)
          /\ Image(perturbed', stage') /\ Drawless(perturbed', stage')
          /\ results' \in Seq(Results) /\ \A i \in DOMAIN results' : Expected(results'[i])
      BY <3>1 DEF SimulationInv
    <3> QED
      BY <3>1, <3>2, SimulationKept
  <2> QED
    BY <2>1, <2>2, <2>3 DEF Next, vars, MonteCarloNext
<1> QED
  BY <1>1, <1>2, PTL DEF Spec

\* Simulations come to what their perturbations allow, from the backtest's own trades
\* each time, and the figures of their tails are in order (SimulationsTrusted), for every
\* backtest, set of perturbations, percentage, delay, number and level of confidence.
THEOREM SimulationsAreTrusted == Spec => []SimulationsTrusted
<1>1. (BacktestInv /\ CurveInv /\ FiguresInv /\ TracedInv) /\ SimulationInv => SimulationsTrusted
  <2> SUFFICES ASSUME BacktestInv, CurveInv, FiguresInv, TracedInv, SimulationInv
               PROVE  SimulationsTrusted
    OBVIOUS
  <2>1. TailsOrdered
    BY TailsDo DEF SimulationInv
  <2>2. ASSUME phase = "done"
        PROVE  /\ Outcome(book.trades).netProfit = book.capital - InitialCapital
               /\ Outcome(book.trades).maxDrawdown <= MaxDrawdown(equity_curve)
    <3>1. PICK h \in Seq(Positions) : h = book.trades
      BY BookFields DEF BacktestInv
    <3>2. PICK curve \in Seq(Points) : curve = equity_curve /\ curve # <<>>
      BY <2>2 DEF FiguresInv, CurveInv
    <3>3. Milestones(curve, h)
      BY <3>1, <3>2 DEF TracedInv
    <3>4. /\ Outcome(h).netProfit = PnlOf(h, DOMAIN h)
          /\ Outcome(h).maxDrawdown = MaxDrawdown(BuildEquityCurve(h))
      BY OutcomeIs
    <3>5. MaxDrawdown(BuildEquityCurve(h)) <= MaxDrawdown(curve)
      BY <3>3, ClosedFallsLess
    <3>6. PICK p \in Int : p = PnlOf(h, DOMAIN h)
      BY PnlOfType
    <3>7. book.capital = InitialCapital + p
      <4>1. book.capital = InitialCapital + PnlBefore(h, Len(h) + 1)
        BY <2>2, <3>1 DEF CurveInv
      <4> QED
        BY <3>6, <4>1, PnlParts
    <3>8. book.capital - InitialCapital = p
      BY <3>6, <3>7, BacktestAssumption
    <3> QED
      BY <3>1, <3>2, <3>4, <3>5, <3>6, <3>8
  <2>3. ASSUME NEW i \in DOMAIN results
        PROVE  /\ config \cap {"TradeShuffle", "MissedTrades", "PositionVariation"} = {} =>
                    results[i] = results[1]
               /\ config \subseteq {"TradeShuffle"} => results[i].netProfit = Baseline
               /\ config \subseteq {"TradeShuffle", "Slippage", "Commission"} =>
                    results[i].netProfit <= Baseline /\ results[i].trades = Len(history.trades)
               /\ config \subseteq {"TradeShuffle", "MissedTrades"} =>
                    results[i].maxDrawdown <= LossOf(history.trades, DOMAIN history.trades)
    <3>1. 1 \in DOMAIN results
      BY DEF SimulationInv
    <3>2. Expected(results[i]) /\ Expected(results[1])
      BY <3>1 DEF SimulationInv
    <3> QED
      BY <3>2 DEF Expected, Draws, Costs, Paths
  <2>4. SimulationsBounded
    BY <2>2, <2>3 DEF SimulationsBounded
  <2> QED
    BY <2>1, <2>4 DEF SimulationsTrusted
<1> QED
  BY <1>1, TracedInvariant, SimulationsInvariant, PTL

=============================================================================

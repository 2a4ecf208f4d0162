--------------------------- MODULE BurstPathProofs ---------------------------
(***************************************************************************)
(* The front of a channel receiver, proved for all powers and constants    *)
(* and all ways the scheduler calls the blocks: the noise floor is the     *)
(* recent minimum, either squelch puts out and marks the bursts and        *)
(* nothing else, and the DC correction corrects every sample by the        *)
(* beginning of its own burst.                                             *)
(*                                                                         *)
(* The proof replaces the states of the loops by what the powers alone say *)
(* of the samples read (Tracks, Good), then reads the bursts back from the *)
(* tags, as the correction does (Inside), and says what it may subtract    *)
(* from an item of each (Item).                                            *)
(***************************************************************************)
EXTENDS BurstPath, InductionLemmas, FiniteSetTheorems, SequenceTheorems

-----------------------------------------------------------------------------
(***************************************************************************)
(* Least and greatest numbers of a set, and remainders.                    *)
(***************************************************************************)

\* The minimum of some numbers is one of them and the least.
LEMMA MinFacts ==
  ASSUME NEW S \in SUBSET Nat, S # {}
  PROVE  Min(S) \in S /\ \A k \in S : Min(S) <= k
<1>1. \E m \in S : \A k \in S : m <= k
  BY LeastNatural
<1> QED BY <1>1 DEF Min

\* A least number of a set is its minimum.
LEMMA MinIs ==
  ASSUME NEW S \in SUBSET Nat, NEW m \in S, \A k \in S : m <= k
  PROVE  Min(S) = m
<1>1. Min(S) \in S /\ Min(S) <= m
  BY MinFacts
<1>2. Min(S) \in Nat /\ m \in Nat /\ m <= Min(S)
  BY <1>1
<1> QED BY <1>1, <1>2

\* The lower of two numbers.
LEMMA MinPair ==
  ASSUME NEW a \in Nat, NEW b \in Nat
  PROVE  Min({a, b}) = IF a <= b THEN a ELSE b
<1>1. CASE a <= b
  <2>1. \A k \in {a, b} : a <= k
    BY <1>1
  <2> QED BY <1>1, <2>1, MinIs
<1>2. CASE ~(a <= b)
  <2>1. \A k \in {a, b} : b <= k
    BY <1>2
  <2> QED BY <1>2, <2>1, MinIs
<1> QED BY <1>1, <1>2

\* The higher of two numbers.
LEMMA MaxPair ==
  ASSUME NEW a \in Int, NEW b \in Int
  PROVE  Max({a, b}) = IF a >= b THEN a ELSE b
<1>1. \E m \in {a, b} : \A k \in {a, b} : m >= k
  BY a >= b \/ b >= a
<1>2. Max({a, b}) \in {a, b} /\ \A k \in {a, b} : Max({a, b}) >= k
  BY <1>1 DEF Max
<1> QED BY <1>2

\* A finite set of numbers is bounded.
LEMMA FiniteBounded ==
  ASSUME NEW S \in SUBSET Nat, IsFiniteSet(S)
  PROVE  \E b \in Nat : \A k \in S : k <= b
<1>1. PICK n \in Nat : ExistsSurjection(1 .. n, S)
  BY FS_NatSurjection
<1>2. PICK f \in [1 .. n -> S] : \A k \in S : \E i \in 1 .. n : f[i] = k
  BY <1>1 DEF ExistsSurjection, Surjection
<1> DEFINE Done == {m \in Nat : m <= n => \E b \in Nat : \A i \in 1 .. m : f[i] <= b}
<1>3. 0 \in Done
  OBVIOUS
<1>4. ASSUME NEW m \in Done PROVE m + 1 \in Done
  <2>1. m \in Nat
    OBVIOUS
  <2>2. SUFFICES ASSUME m + 1 <= n
                 PROVE  \E b \in Nat : \A i \in 1 .. m + 1 : f[i] <= b
    BY <2>1
  <2>3. PICK b \in Nat : \A i \in 1 .. m : f[i] <= b
    BY <2>1, <2>2
  <2>4. PICK c \in Nat : c = f[m + 1]
    <3>1. m + 1 \in 1 .. n
      BY <2>1, <2>2
    <3>2. f[m + 1] \in Nat
      BY <3>1
    <3> QED BY <3>2
  <2>5. \A i \in 1 .. m + 1 : i \in 1 .. m \/ i = m + 1
    BY <2>1
  <2>6. \A i \in 1 .. m : f[i] \in Nat
    <3>1. \A i \in 1 .. m : i \in 1 .. n
      BY <2>1, <2>2
    <3> QED BY <3>1
  <2>7. \A i \in 1 .. m + 1 : f[i] <= b + c
    BY <2>1, <2>3, <2>4, <2>5, <2>6
  <2> QED BY <2>7
<1>5. Done = Nat
  <2>1. Done \in SUBSET Nat
    OBVIOUS
  <2> HIDE DEF Done
  <2> QED BY <1>3, <1>4, <2>1, SetInduction
<1>6. PICK b \in Nat : \A i \in 1 .. n : f[i] <= b
  <2>1. n \in Done
    <3> HIDE DEF Done
    <3> QED BY <1>5
  <2> QED BY <2>1
<1> QED BY <1>2, <1>6

\* Counting up, a remainder does so too, and starts again behind its highest.
LEMMA RemainderSteps ==
  ASSUME NEW h \in Nat \ {0}, NEW k \in Nat
  PROVE  /\ k % h \in 0 .. h - 1
         /\ (k + 1) % h = IF k % h = h - 1 THEN 0 ELSE (k % h) + 1
         /\ k < h => k % h = k
         /\ k \div h \in Nat /\ (k \div h = 0 <=> k < h)
         /\ h * (k \div h) = k - (k % h)
<1>1. \A x \in Nat : /\ x % h \in 0 .. h - 1 /\ x \div h \in Int
                     /\ x = h * (x \div h) + (x % h)
  OBVIOUS
<1>2. ASSUME NEW d \in Int, NEW r \in 0 .. h - 1, h * d = r PROVE d = 0
  <2>1. CASE d >= 1
    <3>1. h * d >= h
      BY <2>1
    <3> QED BY <1>2, <3>1
  <2>2. CASE d <= -1
    <3>1. h * d <= -h
      BY <2>2
    <3> QED BY <1>2, <3>1
  <2> QED BY <2>1, <2>2
<1>3. ASSUME NEW x \in Nat, NEW d \in Int, NEW r \in 0 .. h - 1, x = h * d + r
      PROVE  x % h = r
  <2>1. PICK e \in Int, s \in 0 .. h - 1 : e = x \div h /\ s = x % h /\ x = h * e + s
    BY <1>1
  <2>2. h * (d - e) = s - r /\ h * (e - d) = r - s
    BY <1>3, <2>1
  <2>3. CASE s >= r
    <3>1. d - e = 0
      BY <1>2, <2>2, <2>3
    <3> QED BY <2>1, <2>2, <3>1
  <2>4. CASE s <= r
    <3>1. e - d = 0
      BY <1>2, <2>2, <2>4
    <3> QED BY <2>1, <2>2, <3>1
  <2> QED BY <2>3, <2>4
<1>4. PICK e \in Int, s \in 0 .. h - 1 : e = k \div h /\ s = k % h /\ k = h * e + s
  BY <1>1
<1>5. CASE s = h - 1
  <2>1. k + 1 = h * (e + 1) + 0
    BY <1>4, <1>5
  <2>2. k + 1 \in Nat /\ e + 1 \in Int /\ 0 \in 0 .. h - 1
    OBVIOUS
  <2>3. (k + 1) % h = 0
    BY <1>3, <2>1, <2>2
  <2> QED BY <1>4, <1>5, <2>3
<1>6. CASE s # h - 1
  <2>1. k + 1 = h * e + (s + 1)
    BY <1>4
  <2>2. k + 1 \in Nat /\ s + 1 \in 0 .. h - 1
    BY <1>6
  <2>3. (k + 1) % h = s + 1
    BY <1>3, <2>1, <2>2
  <2> QED BY <1>4, <1>6, <2>3
<1>7. k < h => k % h = k
  <2>1. ASSUME k < h PROVE k % h = k
    <3>1. k = h * 0 + k /\ k \in 0 .. h - 1
      BY <2>1
    <3> QED BY <1>3, <3>1
  <2> QED BY <2>1
<1>8. e >= 0
  <2>1. CASE e <= -1
    <3>1. h * e <= -h
      BY <2>1
    <3> QED BY <1>4, <3>1
  <2> QED BY <2>1
<1>9. e = 0 <=> k < h
  <2>1. CASE e >= 1
    <3>1. h * e >= h
      BY <2>1
    <3> QED BY <1>4, <2>1, <3>1
  <2>2. CASE e = 0
    BY <1>4, <2>2
  <2> QED BY <1>8, <2>1, <2>2
<1>10. h * e = k - s
  BY <1>4
<1> QED BY <1>4, <1>5, <1>6, <1>7, <1>8, <1>9, <1>10

-----------------------------------------------------------------------------
(***************************************************************************)
(* The noise floor tracker.                                                *)
(***************************************************************************)
AirOK == air \in Seq(Powers) /\ arrived <= AirHorizon

\* What is assumed of the constants, Infinity included.
LEMMA ConstantFacts ==
  /\ Powers \subseteq Nat
  /\ FullScale \in Nat /\ Infinity \in Nat
  /\ \A p \in Powers : p < Infinity /\ p < FullScale * Relative
  /\ FullScale < Infinity
  /\ Relative \in Nat /\ Relative > 1
  /\ HalfWindow \in Nat \ {0} /\ Settling \in Nat
  /\ TrailingSamples \in Nat \ {0} /\ SquelchInput \in Nat \ {0}
  /\ SquelchBuffer \in Nat \ {0} /\ AirHorizon \in Nat
  /\ EstimationLength \in Nat \ {0}
<1> DEFINE S == Powers \cup {FullScale}
<1>1. S \in SUBSET Nat /\ S # {}
  BY TrackerConstants
<1>2. IsFiniteSet(S)
  BY TrackerConstants, FS_AddElement
<1>3. PICK b \in Nat : \A k \in S : k <= b
  <2> HIDE DEF S
  <2> QED BY <1>1, <1>2, FiniteBounded
<1>4. PICK m \in S : \A k \in S : k <= m
  <2> HIDE DEF S
  <2> QED BY <1>1, <1>3, GreatestNatural
<1>5. Max(S) \in S /\ \A k \in S : Max(S) >= k
  <2>1. \E x \in S : \A y \in S : x >= y
    BY <1>1, <1>4
  <2> HIDE DEF S
  <2> QED BY <2>1 DEF Max
<1>6. Infinity = Max(S) + 1
  BY DEF Infinity
<1>7. Infinity \in Nat /\ \A k \in S : k < Infinity
  <2>1. PICK c \in Nat : c = Max(S) /\ \A k \in S : c >= k
    <3> HIDE DEF S
    <3> QED BY <1>1, <1>5
  <2> HIDE DEF S
  <2> QED BY <1>1, <1>6, <2>1
<1> QED BY <1>7, TrackerConstants, SquelchConstants, EstimationConstant

\* The lowest power of the samples a to b.
Lowest(a, b) == Min({PowerOf(j) : j \in a .. b})

\* The power of a sample that was received.
LEMMA PowerType ==
  ASSUME AirOK, NEW i \in Nat, i < arrived
  PROVE  PowerOf(i) \in Powers /\ PowerOf(i) \in Nat
<1>1. i + 1 \in 1 .. Len(air) /\ air \in Seq(Powers)
  BY LenProperties DEF AirOK, arrived
<1>2. air[i + 1] \in Powers
  BY <1>1, ElementOfSeq
<1> QED BY <1>2, ConstantFacts DEF PowerOf

\* How many samples were received is a number.
LEMMA ArrivedType ==
  ASSUME AirOK PROVE arrived \in Nat
BY LenProperties DEF AirOK, arrived

\* The lowest power of a span is one of its powers, and no other is lower.
LEMMA LowestFacts ==
  ASSUME AirOK, NEW a \in Nat, NEW b \in Nat, a <= b, b < arrived
  PROVE  /\ Lowest(a, b) \in Powers /\ Lowest(a, b) \in Nat
         /\ \E j \in a .. b : Lowest(a, b) = PowerOf(j)
         /\ \A j \in a .. b : Lowest(a, b) <= PowerOf(j)
<1> DEFINE S == {PowerOf(j) : j \in a .. b}
<1>1. \A j \in a .. b : PowerOf(j) \in Powers /\ PowerOf(j) \in Nat
  <2>1. \A j \in a .. b : j \in Nat /\ j < arrived
    BY ArrivedType
  <2> QED BY <2>1, PowerType
<1>2. S \in SUBSET Nat
  BY <1>1
<1>3. S # {}
  <2>1. a \in a .. b
    OBVIOUS
  <2> QED BY <2>1
<1>4. Min(S) \in S /\ \A k \in S : Min(S) <= k
  <2> HIDE DEF S
  <2> QED BY <1>2, <1>3, MinFacts
<1> QED BY <1>1, <1>4 DEF Lowest

\* The lowest power of a span of one sample.
LEMMA LowestOne ==
  ASSUME AirOK, NEW a \in Nat, a < arrived
  PROVE  Lowest(a, a) = PowerOf(a)
<1>1. PICK j \in a .. a : Lowest(a, a) = PowerOf(j)
  BY LowestFacts
<1>2. j = a
  OBVIOUS
<1> QED BY <1>1, <1>2

\* A power of the span that none is below is its lowest.
LEMMA LowestIs ==
  ASSUME AirOK, NEW a \in Nat, NEW b \in Nat, a <= b, b < arrived,
         NEW j \in a .. b, NEW m, m = PowerOf(j), \A k \in a .. b : m <= PowerOf(k)
  PROVE  Lowest(a, b) = m
<1> DEFINE l == Lowest(a, b)
<1>1. PICK i \in a .. b : l = PowerOf(i)
  BY LowestFacts
<1>2. l <= m /\ m <= l
  BY <1>1, LowestFacts
<1>3. m \in Nat /\ l \in Nat
  <2>1. j \in Nat /\ j < arrived
    BY ArrivedType
  <2> QED BY <2>1, PowerType, LowestFacts
<1> HIDE DEF l
<1>4. l = m
  BY <1>2, <1>3
<1> QED BY <1>4 DEF l

\* Two spans of samples, one behind the other.
LEMMA LowestJoin ==
  ASSUME AirOK, NEW a \in Nat, NEW b \in Nat, NEW c \in Nat,
         a <= b, b < c, c < arrived
  PROVE  Min({Lowest(a, b), Lowest(b + 1, c)}) = Lowest(a, c)
<1>1. b + 1 \in Nat /\ b + 1 <= c /\ b < arrived
  BY ArrivedType
<1>2. PICK x \in Nat : x = Lowest(a, b)
  BY <1>1, LowestFacts
<1>3. PICK y \in Nat : y = Lowest(b + 1, c)
  BY <1>1, LowestFacts
<1>4. PICK i \in a .. b : x = PowerOf(i)
  BY <1>1, <1>2, LowestFacts
<1>5. PICK j \in b + 1 .. c : y = PowerOf(j)
  BY <1>1, <1>3, LowestFacts
<1>6. ASSUME NEW k \in a .. c
      PROVE  PowerOf(k) \in Nat /\ (x <= PowerOf(k) \/ y <= PowerOf(k))
  <2>1. k \in Nat /\ k < arrived
    BY ArrivedType
  <2>2. CASE k <= b
    <3>1. k \in a .. b
      BY <2>2
    <3> QED BY <1>1, <1>2, <2>1, <3>1, LowestFacts, PowerType
  <2>3. CASE k > b
    <3>1. k \in b + 1 .. c
      BY <2>3
    <3> QED BY <1>1, <1>3, <2>1, <3>1, LowestFacts, PowerType
  <2> QED BY <2>2, <2>3
<1>7. CASE x <= y
  <2>1. Min({x, y}) = x
    BY <1>7, MinPair
  <2>2. \A k \in a .. c : x <= PowerOf(k)
    BY <1>6, <1>7
  <2>3. i \in a .. c /\ a <= c
    OBVIOUS
  <2>4. Lowest(a, c) = x
    BY <1>4, <2>2, <2>3, LowestIs
  <2> QED BY <1>2, <1>3, <2>1, <2>4
<1>8. CASE ~(x <= y)
  <2>1. Min({x, y}) = y
    BY <1>8, MinPair
  <2>2. \A k \in a .. c : y <= PowerOf(k)
    BY <1>6, <1>8
  <2>3. j \in a .. c /\ a <= c
    OBVIOUS
  <2>4. Lowest(a, c) = y
    BY <1>5, <2>2, <2>3, LowestIs
  <2> QED BY <1>2, <1>3, <2>1, <2>4
<1> QED BY <1>7, <1>8

\* The window that ends at sample i, without the arithmetic of its definition.
LEMMA WindowFacts ==
  ASSUME NEW i \in Nat, i >= Settling
  PROVE  LET k == i - Settling + 1
         IN  /\ WindowStart(i) = IF k % HalfWindow = 0 THEN i - HalfWindow + 1
                                 ELSE IF k < HalfWindow THEN Settling
                                 ELSE (i + 1) - (k % HalfWindow) - HalfWindow
             /\ WindowStart(i) \in Nat
             /\ Settling <= WindowStart(i) /\ WindowStart(i) <= i
<1> DEFINE k == i - Settling + 1
<1>1. k \in Nat \ {0} /\ HalfWindow \in Nat \ {0} /\ Settling \in Nat
  BY ConstantFacts
<1>2. PICK h \in Nat \ {0}, m \in Nat, d \in Nat :
        /\ h = HalfWindow /\ m = k % h /\ m < h /\ d = k \div h
        /\ h * d = k - m
        /\ d = 0 <=> k < h
        /\ k < h => m = k
  <2> DEFINE m == k % HalfWindow
             d == k \div HalfWindow
  <2> HIDE DEF k
  <2>1. /\ m \in 0 .. HalfWindow - 1 /\ d \in Nat /\ HalfWindow * d = k - m
        /\ d = 0 <=> k < HalfWindow
        /\ k < HalfWindow => m = k
    BY <1>1, RemainderSteps
  <2>2. m \in Nat /\ m < HalfWindow
    BY <1>1, <2>1
  <2> HIDE DEF m, d
  <2>3. /\ HalfWindow = HalfWindow /\ m = m /\ m < HalfWindow /\ d = d
        /\ HalfWindow * d = k - m
        /\ d = 0 <=> k < HalfWindow
        /\ k < HalfWindow => m = k
    BY <2>1, <2>2
  <2> QED BY <1>1, <2>1, <2>2, <2>3 DEF m, d
<1>3. WindowStart(i) = IF m = 0 THEN i - h + 1 ELSE Settling + h * Max({d - 1, 0})
  BY <1>2 DEF WindowStart
<1>4. Max({d - 1, 0}) = IF d - 1 >= 0 THEN d - 1 ELSE 0
  BY MaxPair
<1>5. CASE m = 0
  <2>1. k >= h
    <3>1. k < h => FALSE
      BY <1>1, <1>2, <1>5
    <3> QED BY <1>1, <3>1
  <2> QED BY <1>1, <1>2, <1>3, <1>5, <2>1
<1>6. CASE m # 0 /\ k < h
  <2>1. Max({d - 1, 0}) = 0
    BY <1>2, <1>4, <1>6
  <2>2. h * Max({d - 1, 0}) = 0
    BY <2>1
  <2> QED BY <1>1, <1>2, <1>3, <1>6, <2>2
<1>7. CASE m # 0 /\ ~(k < h)
  <2>1. d >= 1 /\ Max({d - 1, 0}) = d - 1
    BY <1>2, <1>4, <1>7
  <2>2. h * (d - 1) = h * d - h /\ h * (d - 1) >= 0
    BY <2>1
  <2>3. h * Max({d - 1, 0}) = k - m - h /\ k - m - h >= 0
    BY <1>2, <2>1, <2>2
  <2> QED BY <1>1, <1>2, <1>3, <1>7, <2>3
<1> QED BY <1>5, <1>6, <1>7

\* What a tracker knows behind sample r - 1.
Warmup(t, r) ==
  /\ t.settling = Settling - r /\ t.left = HalfWindow
  /\ t.floor = FullScale /\ t.current = Infinity /\ t.previous = Infinity

Settled(t, r) ==
  LET k == r - Settling
      m == k % HalfWindow
  IN  /\ t.settling = 0 /\ t.left = HalfWindow - m
      /\ t.current = IF m = 0 THEN Infinity ELSE Lowest(r - m, r - 1)
      /\ t.previous = IF k < HalfWindow THEN Infinity
                      ELSE Lowest(r - m - HalfWindow, r - m - 1)
      /\ t.floor = IF k = 0 THEN FullScale ELSE Lowest(WindowStart(r - 1), r - 1)

Tracks(t, r) ==
  /\ t \in Trackers
  /\ r <= Settling => Warmup(t, r)
  /\ r >= Settling => Settled(t, r)

Minima == Powers \cup {FullScale, Infinity}

\* Minima are numbers, and Infinity is neutral for the lower of two.
LEMMA MinimaFacts ==
  /\ Minima \subseteq Nat
  /\ \A x \in Minima : x <= Infinity
  /\ \A x, y \in Minima : Min({x, y}) \in Minima
  /\ \A x \in Minima : Min({x, Infinity}) = x /\ Min({Infinity, x}) = x
<1>1. Minima \subseteq Nat /\ \A x \in Minima : x <= Infinity
  BY ConstantFacts DEF Minima
<1>2. ASSUME NEW x \in Minima, NEW y \in Minima
      PROVE  Min({x, y}) = IF x <= y THEN x ELSE y
  BY <1>1, <1>2, MinPair
<1>3. Infinity \in Minima
  BY DEF Minima
<1>4. ASSUME NEW x \in Minima
      PROVE  Min({x, Infinity}) = x /\ Min({Infinity, x}) = x
  <2>1. x \in Nat /\ Infinity \in Nat /\ x <= Infinity
    BY <1>1, <1>3
  <2> QED BY <1>2, <1>3, <2>1
<1>5. \A x, y \in Minima : Min({x, y}) \in Minima
  <2>1. ASSUME NEW x \in Minima, NEW y \in Minima PROVE Min({x, y}) \in Minima
    BY <1>2
  <2> QED BY <2>1
<1> QED BY <1>1, <1>4, <1>5

\* A tracker made in the constructor knows of no sample.
LEMMA NewTrackerTracks == Tracks(NewTracker, 0)
<1>1. NewTracker \in Trackers
  <2>1. FullScale \in Minima /\ Infinity \in Minima
    BY DEF Minima
  <2>2. HalfWindow \in 1 .. HalfWindow /\ Settling \in 0 .. Settling
    BY ConstantFacts
  <2> QED BY <2>1, <2>2 DEF NewTracker, Trackers, Minima
<1>2. Warmup(NewTracker, 0)
  BY ConstantFacts DEF Warmup, NewTracker
<1>3. ASSUME 0 >= Settling PROVE Settled(NewTracker, 0)
  <2>1. Settling = 0 /\ 0 - Settling = 0
    BY <1>3, ConstantFacts
  <2>2. 0 % HalfWindow = 0 /\ 0 < HalfWindow
    BY ConstantFacts, RemainderSteps
  <2>3. HalfWindow - 0 = HalfWindow
    BY ConstantFacts
  <2> QED BY <2>1, <2>2, <2>3 DEF Settled, NewTracker
<1> QED BY <1>1, <1>2, <1>3 DEF Tracks

\* Every member behind an update, without the arithmetic of the definitions.
LEMMA UpdateFields ==
  ASSUME NEW t \in Trackers, NEW p \in Powers
  PROVE  LET u == Update(t, p)
             lowest == Min({p, t.current})
         IN  /\ u \in Trackers /\ u.pwr = p
             /\ t.settling > 0 =>
                  /\ u.settling = t.settling - 1 /\ u.left = t.left
                  /\ u.current = t.current /\ u.previous = t.previous
                  /\ u.floor = t.floor
             /\ t.settling = 0 =>
                  /\ u.settling = 0
                  /\ t.left = 1 => /\ u.left = HalfWindow /\ u.current = Infinity
                                   /\ u.previous = lowest
                  /\ t.left # 1 => /\ u.left = t.left - 1 /\ u.current = lowest
                                   /\ u.previous = t.previous
                  /\ u.floor = Min({u.current, u.previous})
<1> DEFINE s == [t EXCEPT !.pwr = p]
           lowest == Min({p, t.current})
           r == Recorded(s)
           u == Update(t, p)
<1>1. t \in [pwr : Minima, floor : Minima, current : Minima, previous : Minima,
             left : 1 .. HalfWindow, settling : 0 .. Settling]
  BY DEF Trackers, Minima
<1>2. p \in Minima
  BY DEF Minima
<1>3. /\ s \in [pwr : Minima, floor : Minima, current : Minima, previous : Minima,
             left : 1 .. HalfWindow, settling : 0 .. Settling]
      /\ s.pwr = p /\ s.floor = t.floor /\ s.current = t.current
      /\ s.previous = t.previous /\ s.left = t.left /\ s.settling = t.settling
  BY <1>1, <1>2
<1>4. lowest \in Minima /\ Infinity \in Minima
  BY <1>1, <1>2, MinimaFacts DEF Minima
<1>5. r = IF s.left = 1
          THEN [s EXCEPT !.previous = lowest, !.current = Infinity, !.left = HalfWindow]
          ELSE [s EXCEPT !.current = lowest, !.left = @ - 1]
  BY <1>3 DEF Recorded
<1>6. u = IF s.settling > 0 THEN [s EXCEPT !.settling = @ - 1]
          ELSE [r EXCEPT !.floor = Min({r.current, r.previous})]
  BY DEF Update
<1>7. /\ r \in [pwr : Minima, floor : Minima, current : Minima, previous : Minima,
                left : 1 .. HalfWindow, settling : 0 .. Settling]
      /\ r.pwr = p /\ r.settling = s.settling
      /\ s.left = 1 => /\ r.left = HalfWindow /\ r.current = Infinity
                       /\ r.previous = lowest
      /\ s.left # 1 => /\ r.left = s.left - 1 /\ r.current = lowest
                       /\ r.previous = s.previous
  <2> HIDE DEF s, lowest, r
  <2>1. CASE s.left = 1
    <3>1. HalfWindow \in 1 .. HalfWindow
      BY ConstantFacts
    <3> QED BY <1>3, <1>4, <1>5, <2>1, <3>1
  <2>2. CASE s.left # 1
    <3>1. s.left - 1 \in 1 .. HalfWindow
      BY <1>3, <2>2, ConstantFacts
    <3> QED BY <1>3, <1>4, <1>5, <2>2, <3>1
  <2> QED BY <2>1, <2>2
<1>8. CASE t.settling > 0
  <2>1. t.settling - 1 \in 0 .. Settling
    BY <1>1, <1>8, ConstantFacts
  <2>2. u = [s EXCEPT !.settling = @ - 1]
    BY <1>3, <1>6, <1>8
  <2>3. u \in [pwr : Minima, floor : Minima, current : Minima, previous : Minima,
               left : 1 .. HalfWindow, settling : 0 .. Settling]
    <3> HIDE DEF s, lowest, r, u
    <3> QED BY <1>3, <2>1, <2>2
  <2>4. /\ u.pwr = p /\ u.settling = t.settling - 1 /\ u.left = t.left
        /\ u.current = t.current /\ u.previous = t.previous /\ u.floor = t.floor
    <3> HIDE DEF s, lowest, r, u
    <3> QED BY <1>3, <2>2
  <2>5. t.settling # 0
    BY <1>1, <1>8
  <2>6. u \in Trackers
    BY <2>3 DEF Trackers, Minima
  <2> HIDE DEF s, lowest, r, u
  <2> QED BY <1>8, <2>4, <2>5, <2>6 DEF u, lowest
<1>9. CASE ~(t.settling > 0)
  <2>1. t.settling = 0
    BY <1>1, <1>9, ConstantFacts
  <2>2. u = [r EXCEPT !.floor = Min({r.current, r.previous})]
    BY <1>3, <1>6, <1>9
  <2>3. Min({r.current, r.previous}) \in Minima
    <3>1. r.current \in Minima /\ r.previous \in Minima
      <4> HIDE DEF r
      <4> QED BY <1>7
    <3> QED BY <3>1, MinimaFacts
  <2>4. u \in [pwr : Minima, floor : Minima, current : Minima, previous : Minima,
               left : 1 .. HalfWindow, settling : 0 .. Settling]
    <3> HIDE DEF s, lowest, r, u
    <3> QED BY <1>7, <2>2, <2>3
  <2>5. /\ u.pwr = p /\ u.settling = r.settling /\ u.left = r.left
        /\ u.current = r.current /\ u.previous = r.previous
        /\ u.floor = Min({r.current, r.previous})
    <3> HIDE DEF s, lowest, r, u
    <3> QED BY <1>7, <2>2
  <2>6. u \in Trackers
    BY <2>4 DEF Trackers, Minima
  <2> HIDE DEF s, lowest, r, u
  <2>7. /\ u.settling = 0
        /\ t.left = 1 => /\ u.left = HalfWindow /\ u.current = Infinity
                         /\ u.previous = lowest
        /\ t.left # 1 => /\ u.left = t.left - 1 /\ u.current = lowest
                         /\ u.previous = t.previous
        /\ u.floor = Min({u.current, u.previous})
    BY <1>3, <1>7, <2>1, <2>5
  <2> QED BY <1>9, <2>1, <2>5, <2>6, <2>7 DEF u, lowest
<1> QED BY <1>8, <1>9

\* A sample later the tracker knows that sample as well.
LEMMA UpdateTracks ==
  ASSUME AirOK, NEW r \in Nat, r < arrived, NEW t, Tracks(t, r)
  PROVE  LET u == Update(t, PowerOf(r))
         IN  Tracks(u, r + 1) /\ u.pwr = PowerOf(r)
<1> DEFINE p == PowerOf(r)
           u == Update(t, p)
           k == r - Settling
           m == k % HalfWindow
           lowest == Min({p, t.current})
<1>1. p \in Powers /\ p \in Minima /\ p \in Nat /\ arrived \in Nat
  BY PowerType, ArrivedType DEF Minima
<1>2. t \in Trackers
  BY DEF Tracks
<1>3. /\ u \in Trackers /\ u.pwr = p
      /\ t.settling > 0 =>
           /\ u.settling = t.settling - 1 /\ u.left = t.left
           /\ u.current = t.current /\ u.previous = t.previous
           /\ u.floor = t.floor
      /\ t.settling = 0 =>
           /\ u.settling = 0
           /\ t.left = 1 => /\ u.left = HalfWindow /\ u.current = Infinity
                            /\ u.previous = lowest
           /\ t.left # 1 => /\ u.left = t.left - 1 /\ u.current = lowest
                            /\ u.previous = t.previous
           /\ u.floor = Min({u.current, u.previous})
  BY <1>1, <1>2, UpdateFields
<1> HIDE DEF p, u, lowest
<1>4. Settling \in Nat /\ HalfWindow \in Nat \ {0}
  BY ConstantFacts
<1>5. CASE r < Settling
  <2>1. Warmup(t, r) /\ t.settling > 0
    BY <1>4, <1>5 DEF Tracks, Warmup
  <2>2. Warmup(u, r + 1)
    BY <1>3, <1>4, <2>1 DEF Warmup
  <2>3. ASSUME r + 1 >= Settling PROVE Settled(u, r + 1)
    <3>1. (r + 1) - Settling = 0 /\ u.settling = 0
      BY <1>4, <1>5, <2>2, <2>3 DEF Warmup
    <3> DEFINE k1 == (r + 1) - Settling
               m1 == k1 % HalfWindow
    <3>2. k1 = 0 /\ m1 = 0 /\ 0 < HalfWindow /\ HalfWindow - 0 = HalfWindow
      <4>1. 0 < HalfWindow /\ 0 \in Nat /\ HalfWindow - 0 = HalfWindow
        BY <1>4
      <4>2. 0 % HalfWindow = 0
        BY <1>4, <4>1, RemainderSteps
      <4> QED BY <3>1, <4>1, <4>2
    <3> HIDE DEF k1, m1
    <3>3. /\ u.left = HalfWindow /\ u.floor = FullScale
          /\ u.current = Infinity /\ u.previous = Infinity
      BY <2>2 DEF Warmup
    <3>4. /\ u.settling = 0 /\ u.left = HalfWindow - m1
          /\ u.current = IF m1 = 0 THEN Infinity ELSE Lowest((r + 1) - m1, (r + 1) - 1)
          /\ u.previous = IF k1 < HalfWindow THEN Infinity
                          ELSE Lowest((r + 1) - m1 - HalfWindow, (r + 1) - m1 - 1)
          /\ u.floor = IF k1 = 0 THEN FullScale
                       ELSE Lowest(WindowStart((r + 1) - 1), (r + 1) - 1)
      BY <3>1, <3>2, <3>3
    <3> QED BY <1>4, <3>4 DEF Settled, k1, m1
  <2> QED BY <1>3, <2>2, <2>3 DEF Tracks, u, p
<1>6. CASE r >= Settling
  <2>1. k \in Nat /\ (r + 1) - Settling = k + 1 /\ k + 1 # 0 /\ ~(r + 1 <= Settling)
        /\ r + 1 >= Settling /\ (r + 1) - 1 = r /\ r - Settling + 1 = k + 1
    BY <1>4, <1>6
  <2>2. /\ t.settling = 0 /\ t.left = HalfWindow - m
        /\ t.current = IF m = 0 THEN Infinity ELSE Lowest(r - m, r - 1)
        /\ t.previous = IF k < HalfWindow THEN Infinity
                        ELSE Lowest(r - m - HalfWindow, r - m - 1)
    BY <1>6 DEF Tracks, Settled
  <2>3. /\ m \in 0 .. HalfWindow - 1
        /\ (k + 1) % HalfWindow = IF m = HalfWindow - 1 THEN 0 ELSE m + 1
        /\ k < HalfWindow => m = k
        /\ k + 1 < HalfWindow => (k + 1) % HalfWindow = k + 1
    <3> HIDE DEF k
    <3>1. k + 1 \in Nat
      BY <2>1
    <3> QED BY <1>4, <2>1, <3>1, RemainderSteps
  <2>4. m <= k
    <3>1. k = r - Settling
      OBVIOUS
    <3> HIDE DEF k, m
    <3> QED BY <1>4, <2>1, <2>3
  <2>4a. k >= HalfWindow => m + HalfWindow <= k
    <3>1. ASSUME k >= HalfWindow PROVE m + HalfWindow <= k
      <4> DEFINE d == k \div HalfWindow
      <4>1. d \in Nat /\ (d = 0 <=> k < HalfWindow) /\ HalfWindow * d = k - m
        <5> HIDE DEF k
        <5> QED BY <1>4, <2>1, RemainderSteps
      <4> HIDE DEF d, k, m
      <4>2. d >= 1
        BY <1>4, <2>1, <3>1, <4>1
      <4>3. HalfWindow * d >= HalfWindow
        BY <1>4, <4>1, <4>2
      <4> QED BY <1>4, <2>1, <2>3, <4>1, <4>3
    <3> QED BY <3>1
  <2>5. lowest = Lowest(r - m, r) /\ r - m \in Nat /\ r - m >= Settling
    <3>0. r - m \in Nat /\ r - m >= Settling
      <4> HIDE DEF m
      <4> QED BY <1>4, <2>1, <2>3, <2>4
    <3>1. CASE m = 0
      <4>1. lowest = p
        BY <1>1, <2>2, <3>1, MinimaFacts DEF lowest
      <4>2. r - m = r
        BY <3>1
      <4> QED BY <3>0, <4>1, <4>2, LowestOne DEF p
    <3>2. CASE m # 0
      <4>1. t.current = Lowest(r - m, r - 1) /\ r - 1 \in Nat /\ r - m <= r - 1
        <5> HIDE DEF m
        <5> QED BY <1>4, <2>1, <2>2, <2>3, <2>4, <3>2
      <4>2. Lowest(r, r) = p
        BY LowestOne DEF p
      <4>3. (r - 1) + 1 = r /\ r - 1 < r
        OBVIOUS
      <4>4. Min({Lowest(r - m, r - 1), Lowest(r, r)}) = Lowest(r - m, r)
        <5> HIDE DEF m
        <5> QED BY <3>0, <4>1, <4>3, LowestJoin
      <4>5. {p, t.current} = {Lowest(r - m, r - 1), Lowest(r, r)}
        BY <4>1, <4>2
      <4> QED BY <3>0, <4>4, <4>5 DEF lowest
    <3> QED BY <3>1, <3>2
  <2>6. lowest \in Minima
    <3> HIDE DEF m
    <3> QED BY <2>5, <2>3, <1>4, LowestFacts DEF Minima
  <2>7. /\ WindowStart(r) = IF (k + 1) % HalfWindow = 0 THEN r - HalfWindow + 1
                            ELSE IF k + 1 < HalfWindow THEN Settling
                            ELSE (r + 1) - ((k + 1) % HalfWindow) - HalfWindow
        /\ WindowStart(r) \in Nat /\ Settling <= WindowStart(r) /\ WindowStart(r) <= r
    <3> HIDE DEF k
    <3> QED BY <1>6, <2>1, WindowFacts
  <2> HIDE DEF k, m
  <2>8. CASE m = HalfWindow - 1
    <3>1. t.left = 1 /\ (k + 1) % HalfWindow = 0
      BY <1>4, <2>2, <2>3, <2>8
    <3>2. /\ u.left = HalfWindow /\ u.current = Infinity /\ u.previous = lowest
          /\ u.floor = Min({u.current, u.previous}) /\ u.settling = 0
      BY <1>3, <2>2, <3>1
    <3>3. u.floor = lowest
      BY <2>6, <3>2, MinimaFacts
    <3>4. ~(k + 1 < HalfWindow)
      BY <2>1, <2>4, <2>8, <1>4
    <3>5. r - m = r - HalfWindow + 1 /\ r - m = (r + 1) - 0 - HalfWindow /\ (r + 1) - 0 - 1 = r
          /\ HalfWindow - 0 = HalfWindow
      BY <1>4, <2>8
    <3>6. Settled(u, r + 1)
      <4> DEFINE k1 == (r + 1) - Settling
                 m1 == k1 % HalfWindow
      <4>1. k1 = k + 1 /\ m1 = 0
        BY <2>1, <3>1
      <4> HIDE DEF k1, m1
      <4>2. u.settling = 0 /\ u.left = HalfWindow - m1
        BY <3>2, <3>3, <3>4, <3>5, <4>1
      <4>3. u.current = IF m1 = 0 THEN Infinity ELSE Lowest((r + 1) - m1, (r + 1) - 1)
        BY <2>1, <2>5, <3>1, <3>2, <3>3, <3>4, <3>5, <4>1
      <4>4. u.previous = IF k1 < HalfWindow THEN Infinity
                         ELSE Lowest((r + 1) - m1 - HalfWindow, (r + 1) - m1 - 1)
        BY <2>1, <2>2, <2>5, <3>1, <3>2, <3>3, <3>4, <3>5, <4>1
      <4>5. u.floor = IF k1 = 0 THEN FullScale
                      ELSE Lowest(WindowStart((r + 1) - 1), (r + 1) - 1)
        BY <2>1, <2>5, <2>7, <3>1, <3>2, <3>3, <3>4, <3>5, <4>1
      <4> QED BY <1>4, <4>2, <4>3, <4>4, <4>5 DEF Settled, k1, m1
    <3> QED BY <1>3, <2>1, <3>6 DEF Tracks, u, p
  <2>9. CASE m # HalfWindow - 1
    <3>1. t.left # 1 /\ (k + 1) % HalfWindow = m + 1 /\ m + 1 # 0
      BY <1>4, <2>2, <2>3, <2>9
    <3>2. /\ u.left = t.left - 1 /\ u.current = lowest /\ u.previous = t.previous
          /\ u.floor = Min({u.current, u.previous}) /\ u.settling = 0
      BY <1>3, <2>2, <3>1
    <3>3. /\ u.left = HalfWindow - (m + 1) /\ (r + 1) - (m + 1) = r - m
          /\ (r + 1) - (m + 1) - HalfWindow = r - m - HalfWindow
          /\ (r + 1) - (m + 1) - 1 = r - m - 1
      BY <1>4, <2>2, <2>3, <3>2
    <3>4. k + 1 < HalfWindow <=> k < HalfWindow
      BY <1>4, <2>1, <2>3, <2>9
    <3>5. u.floor = Lowest(WindowStart(r), r)
      <4>1. CASE k < HalfWindow
        <5>1. u.previous = Infinity
          BY <2>2, <3>2, <4>1
        <5>2. u.floor = lowest
          BY <2>6, <3>2, <5>1, MinimaFacts
        <5>3. WindowStart(r) = Settling /\ r - m = Settling
          <6>1. k = r - Settling /\ m = k
            BY <2>3, <4>1 DEF k
          <6> QED BY <1>4, <2>7, <3>1, <3>4, <4>1, <6>1
        <5> QED BY <2>5, <5>2, <5>3
      <4>2. CASE ~(k < HalfWindow)
        <5>1. u.previous = Lowest(r - m - HalfWindow, r - m - 1)
          BY <2>2, <3>2, <4>2
        <5>2. r - m - HalfWindow = WindowStart(r)
          BY <2>7, <3>1, <3>3, <3>4, <4>2
        <5>3. /\ r - m - HalfWindow \in Nat /\ r - m - 1 \in Nat /\ r - m - 1 < r
              /\ r - m - HalfWindow <= r - m - 1 /\ (r - m - 1) + 1 = r - m
          BY <1>4, <2>3, <2>5, <2>7, <5>2
        <5>4. Min({Lowest(r - m - HalfWindow, r - m - 1), Lowest(r - m, r)})
                = Lowest(r - m - HalfWindow, r)
          BY <5>3, LowestJoin
        <5>5. {u.current, u.previous}
                = {Lowest(r - m - HalfWindow, r - m - 1), Lowest(r - m, r)}
          BY <2>5, <3>2, <5>1
        <5> QED BY <3>2, <5>2, <5>4, <5>5
      <4> QED BY <4>1, <4>2
    <3>6. Settled(u, r + 1)
      <4> DEFINE k1 == (r + 1) - Settling
                 m1 == k1 % HalfWindow
      <4>1. k1 = k + 1 /\ m1 = m + 1
        BY <2>1, <3>1
      <4> HIDE DEF k1, m1
      <4>2. u.settling = 0 /\ u.left = HalfWindow - m1
        BY <3>2, <3>3, <3>4, <3>5, <4>1
      <4>3. u.current = IF m1 = 0 THEN Infinity ELSE Lowest((r + 1) - m1, (r + 1) - 1)
        BY <2>1, <2>5, <3>1, <3>2, <3>3, <3>4, <3>5, <4>1
      <4>4. u.previous = IF k1 < HalfWindow THEN Infinity
                         ELSE Lowest((r + 1) - m1 - HalfWindow, (r + 1) - m1 - 1)
        BY <2>1, <2>2, <2>5, <3>1, <3>2, <3>3, <3>4, <3>5, <4>1
      <4>5. u.floor = IF k1 = 0 THEN FullScale
                      ELSE Lowest(WindowStart((r + 1) - 1), (r + 1) - 1)
        BY <2>1, <2>5, <2>7, <3>1, <3>2, <3>3, <3>4, <3>5, <4>1
      <4> QED BY <1>4, <4>2, <4>3, <4>4, <4>5 DEF Settled, k1, m1
    <3> QED BY <1>3, <2>1, <3>6 DEF Tracks, u, p
  <2> QED BY <2>8, <2>9
<1> QED BY <1>4, <1>5, <1>6

\* The squelch opens exactly when the sample stands out in its window.
LEMMA AboveIsOpen ==
  ASSUME AirOK, NEW r \in Nat, r < arrived, NEW t, Tracks(t, r + 1), t.pwr = PowerOf(r)
  PROVE  AboveThreshold(t) <=> Open(r)
<1>1. PICK p \in Nat : p = PowerOf(r) /\ p \in Powers
  BY PowerType
<1>2. Settling \in Nat /\ Relative \in Nat /\ FullScale \in Nat
  BY ConstantFacts
<1>3. CASE r < Settling
  <2>1. t.floor = FullScale
    BY <1>2, <1>3 DEF Tracks, Warmup
  <2>2. p < FullScale * Relative
    BY <1>1, ConstantFacts
  <2>3. PICK x \in Nat : x = FullScale * Relative
    BY <1>2
  <2>4. ~(p >= x)
    BY <2>2, <2>3
  <2> QED BY <1>1, <1>2, <1>3, <2>1, <2>3, <2>4 DEF AboveThreshold, Open
<1>4. CASE r >= Settling
  <2>1. r + 1 >= Settling /\ (r + 1) - Settling # 0 /\ (r + 1) - 1 = r
    BY <1>2, <1>4
  <2>2. t.floor = Lowest(WindowStart(r), r)
    <3>1. Settled(t, r + 1)
      BY <2>1 DEF Tracks
    <3>2. t.floor = IF (r + 1) - Settling = 0 THEN FullScale
                    ELSE Lowest(WindowStart((r + 1) - 1), (r + 1) - 1)
      BY <1>2, <3>1, ConstantFacts DEF Settled
    <3> QED BY <2>1, <3>2
  <2>3. WindowStart(r) \in Nat /\ WindowStart(r) <= r
    BY <1>4, WindowFacts
  <2>4. PICK l \in Nat : l = Lowest(WindowStart(r), r)
    BY <2>3, LowestFacts
  <2>5. l * Relative = Relative * l
    BY <1>2
  <2>6. Min({PowerOf(j) : j \in WindowStart(r) .. r}) = l
    BY <2>4 DEF Lowest
  <2> QED BY <1>1, <1>4, <2>2, <2>4, <2>5, <2>6 DEF AboveThreshold, Open
<1> QED BY <1>2, <1>3, <1>4

-----------------------------------------------------------------------------
(***************************************************************************)
(* Where the items of the output are.                                      *)
(***************************************************************************)

\* A sample that is emitted moves those behind it one item on, and no other does.
LEMMA PositionSteps ==
  ASSUME NEW i \in Nat
  PROVE  /\ Position(i) \in Nat
         /\ Position(i + 1) = IF Emits(i) THEN Position(i) + 1 ELSE Position(i)
         /\ Position(0) = 0
         /\ ~squelch.gated => Emits(i) /\ Position(i) = i
<1> DEFINE S(n) == {j \in 0 .. n - 1 : Emits(j)}
<1>1. \A n \in Nat : IsFiniteSet(S(n)) /\ Cardinality(S(n)) \in Nat
  <2>1. ASSUME NEW n \in Nat PROVE IsFiniteSet(S(n)) /\ Cardinality(S(n)) \in Nat
    <3>1. IsFiniteSet(0 .. n - 1)
      BY FS_Interval
    <3>2. S(n) \in SUBSET (0 .. n - 1)
      OBVIOUS
    <3>3. IsFiniteSet(S(n))
      <4> HIDE DEF S
      <4> QED BY <3>1, <3>2, FS_Subset
    <3> HIDE DEF S
    <3> QED BY <3>3, FS_CardinalityType
  <2> QED BY <2>1
<1>2. \A n : Position(n) = Cardinality(S(n))
  BY DEF Position
<1>3. Position(i + 1) = IF Emits(i) THEN Position(i) + 1 ELSE Position(i)
  <2>1. CASE Emits(i)
    <3>1. S(i + 1) = S(i) \cup {i}
      BY <2>1
    <3>2. i \notin S(i)
      OBVIOUS
    <3> HIDE DEF S
    <3> QED BY <1>1, <1>2, <2>1, <3>1, <3>2, FS_AddElement
  <2>2. CASE ~Emits(i)
    <3>1. S(i + 1) = S(i)
      BY <2>2
    <3> HIDE DEF S
    <3> QED BY <1>2, <2>2, <3>1
  <2> QED BY <2>1, <2>2
<1>4. Position(0) = 0
  <2>1. S(0) = {}
    OBVIOUS
  <2> HIDE DEF S
  <2> QED BY <1>2, <2>1, FS_EmptySet
<1>5. ASSUME ~squelch.gated PROVE Emits(i) /\ Position(i) = i
  <2>1. \A j : Emits(j)
    BY <1>5 DEF Emits
  <2>2. S(i) = 0 .. i - 1
    BY <2>1
  <2>3. 0 \in Int /\ i - 1 \in Int /\ (0 > i - 1 => i = 0)
    OBVIOUS
  <2>4. Cardinality(0 .. i - 1) = i
    BY <2>3, FS_Interval
  <2> HIDE DEF S
  <2> QED BY <1>2, <2>1, <2>2, <2>4
<1> HIDE DEF S
<1> QED BY <1>1, <1>2, <1>3, <1>4, <1>5

\* Positions never fall.
LEMMA PositionMonotone ==
  ASSUME NEW i \in Nat, NEW j \in Nat, i <= j
  PROVE  Position(i) <= Position(j)
<1> DEFINE S(n) == {k \in 0 .. n - 1 : Emits(k)}
<1>1. IsFiniteSet(S(j))
  <2>1. IsFiniteSet(0 .. j - 1) /\ S(j) \in SUBSET (0 .. j - 1)
    BY FS_Interval
  <2> HIDE DEF S
  <2> QED BY <2>1, FS_Subset
<1>2. S(i) \in SUBSET S(j)
  OBVIOUS
<1>3. Cardinality(S(i)) <= Cardinality(S(j))
  <2> HIDE DEF S
  <2> QED BY <1>1, <1>2, FS_Subset
<1> QED BY <1>3 DEF Position

\* Behind a sample that is emitted they are higher.
LEMMA PositionOrder ==
  ASSUME NEW i \in Nat, NEW j \in Nat, i < j, Emits(i)
  PROVE  Position(i) < Position(j)
<1>1. Position(i + 1) = Position(i) + 1 /\ Position(i) \in Nat /\ Position(j) \in Nat
  BY PositionSteps
<1>2. Position(i + 1) <= Position(j)
  BY PositionMonotone
<1> QED BY <1>1, <1>2

\* Every item is of a sample.
LEMMA PositionOnto ==
  ASSUME NEW i \in Nat, NEW k \in Nat, k < Position(i)
  PROVE  \E j \in 0 .. i - 1 : Emits(j) /\ Position(j) = k
<1> DEFINE Found(n) == k < Position(n) => \E j \in 0 .. n - 1 : Emits(j) /\ Position(j) = k
           S == {n \in Nat : Found(n)}
<1>1. 0 \in S
  BY PositionSteps
<1>2. ASSUME NEW n \in S PROVE n + 1 \in S
  <2>1. n \in Nat /\ Found(n)
    OBVIOUS
  <2>2. ASSUME k < Position(n + 1)
        PROVE  \E j \in 0 .. (n + 1) - 1 : Emits(j) /\ Position(j) = k
    <3>1. PICK p \in Nat : p = Position(n)
      BY <2>1, PositionSteps
    <3>2. CASE k < p
      <4>1. PICK j \in 0 .. n - 1 : Emits(j) /\ Position(j) = k
        BY <2>1, <3>1, <3>2
      <4>2. j \in 0 .. (n + 1) - 1
        BY <2>1
      <4> QED BY <4>1, <4>2
    <3>3. CASE ~(k < p)
      <4>1. Emits(n) /\ k = Position(n)
        BY <2>1, <2>2, <3>1, <3>3, PositionSteps
      <4>2. n \in 0 .. (n + 1) - 1
        BY <2>1
      <4> QED BY <4>1, <4>2
    <3> QED BY <3>2, <3>3
  <2> QED BY <2>1, <2>2
<1>3. S = Nat
  <2>1. S \in SUBSET Nat
    OBVIOUS
  <2> HIDE DEF S
  <2> QED BY <1>1, <1>2, <2>1, SetInduction
<1>4. i \in S
  BY <1>3
<1> HIDE DEF S
<1>5. Found(i)
  BY <1>4 DEF S
<1> QED BY <1>5

\* Samples emitted are told apart by the positions of their items.
LEMMA PositionUnique ==
  ASSUME NEW i \in Nat, NEW j \in Nat, Emits(i), Emits(j), Position(i) = Position(j)
  PROVE  i = j
<1>1. Position(i) \in Nat /\ Position(j) \in Nat
  BY PositionSteps
<1>2. ~(i < j) /\ ~(j < i)
  BY <1>1, PositionOrder
<1> QED BY <1>2

\* A sample is emitted when the squelch is open, and once more behind a burst.
LEMMA EmitsFacts ==
  ASSUME NEW i \in Nat
  PROVE  /\ squelch.gated =>
              (Emits(i) <=> \E j \in 0 .. i : i - TrailingSamples <= j /\ Open(j))
         /\ Open(i) => Emits(i)
         /\ Follows(i) => Emits(i)
         /\ Passes(i) => Emits(i)
<1>1. TrailingSamples \in Nat \ {0} /\ i - TrailingSamples \in Int /\ 0 \in Int
  BY ConstantFacts
<1>2. Max({0, i - TrailingSamples})
        = IF 0 >= i - TrailingSamples THEN 0 ELSE i - TrailingSamples
  BY <1>1, MaxPair
<1>3. \A j : j \in Max({0, i - TrailingSamples}) .. i
               <=> j \in 0 .. i /\ i - TrailingSamples <= j
  BY <1>1, <1>2
<1>4. squelch.gated => (Emits(i) <=> \E j \in 0 .. i : i - TrailingSamples <= j /\ Open(j))
  BY <1>3 DEF Emits
<1>5. ~squelch.gated => Emits(i)
  BY DEF Emits
<1>6. Open(i) => Emits(i)
  <2>1. i \in 0 .. i /\ i - TrailingSamples <= i
    BY <1>1
  <2> QED BY <1>4, <1>5, <2>1
<1>7. Follows(i) => Emits(i)
  <2>1. i > 0 => i - 1 \in 0 .. i /\ i - TrailingSamples <= i - 1
    BY <1>1
  <2> QED BY <1>4, <1>5, <2>1 DEF Follows
<1> QED BY <1>4, <1>6, <1>7 DEF Passes

-----------------------------------------------------------------------------
(***************************************************************************)
(* What the squelch has made of the samples before r.                      *)
(***************************************************************************)
Tags == [off : Nat, key : {"squelch_sob", "squelch_eob"}]

Records ==
  [gated : BOOLEAN, tracker : Trackers, active : BOOLEAN,
   trailing : 0 .. TrailingSamples, read : Nat, items : Seq(Int), tags : SUBSET Tags]

Late == IF squelch.gated THEN 0 ELSE 1

Begins(r) ==
  {[off |-> Position(i) + Late, key |-> "squelch_sob"] :
     i \in {j \in 0 .. r - 1 : Open(j) /\ ~Follows(j)}}
Finishes(r) ==
  {[off |-> Position(i), key |-> "squelch_eob"] :
     i \in {j \in 0 .. r - 1 : ~Open(j) /\ Follows(j)}}

Written(items, r) ==
  /\ Len(items) = Position(r)
  /\ \A i \in 0 .. r - 1 :
       Emits(i) => items[Position(i) + 1] = IF Passes(i) THEN i ELSE Zero

\* While the squelch is closed the zeros left tell when it was open last.
Zeros(trailing, r) ==
  /\ \A j \in 0 .. r - 1 : r - TrailingSamples + trailing <= j => ~Open(j)
  /\ trailing > 0 => /\ r - 1 - TrailingSamples + trailing \in 0 .. r - 1
                     /\ Open(r - 1 - TrailingSamples + trailing)

Good(s) ==
  /\ s \in Records /\ s.gated = squelch.gated /\ s.read <= arrived
  /\ Tracks(s.tracker, s.read)
  /\ s.active <=> Follows(s.read)
  /\ s.gated /\ ~s.active => Zeros(s.trailing, s.read)
  /\ Written(s.items, s.read)
  /\ s.tags = Begins(s.read) \cup Finishes(s.read)

\* One sample more in the output.
LEMMA WrittenStep ==
  ASSUME NEW r \in Nat, NEW items \in Seq(Int), Written(items, r),
         NEW more, more = IF Emits(r)
                          THEN Append(items, IF Passes(r) THEN r ELSE Zero)
                          ELSE items
  PROVE  /\ more \in Seq(Int) /\ Written(more, r + 1)
         /\ Len(more) = IF Emits(r) THEN Len(items) + 1 ELSE Len(items)
<1>1. /\ Position(r) \in Nat /\ Len(items) = Position(r)
      /\ Position(r + 1) = IF Emits(r) THEN Position(r) + 1 ELSE Position(r)
  BY PositionSteps DEF Written
<1>2. (r + 1) - 1 = r /\ \A i \in 0 .. r : i \in 0 .. r - 1 \/ i = r
  OBVIOUS
<1>3. CASE Emits(r)
  <2> DEFINE e == IF Passes(r) THEN r ELSE Zero
  <2>1. e \in Int
    BY DEF Zero
  <2>2. more = Append(items, e)
    BY <1>3
  <2> HIDE DEF e
  <2>3. /\ more \in Seq(Int) /\ Len(more) = Len(items) + 1
        /\ \A k \in 1 .. Len(items) : more[k] = items[k]
        /\ more[Len(items) + 1] = e
    BY <2>1, <2>2, AppendProperties
  <2>4. ASSUME NEW i \in 0 .. r - 1, Emits(i)
        PROVE  more[Position(i) + 1] = IF Passes(i) THEN i ELSE Zero
    <3>1. Position(i) \in Nat /\ Position(i) < Position(r)
      BY <2>4, PositionSteps, PositionOrder
    <3>2. Position(i) + 1 \in 1 .. Len(items)
      BY <1>1, <3>1
    <3> QED BY <2>3, <2>4, <3>2 DEF Written
  <2>5. more[Position(r) + 1] = IF Passes(r) THEN r ELSE Zero
    BY <1>1, <2>3 DEF e
  <2>6. Written(more, r + 1)
    <3>1. Len(more) = Position(r + 1)
      BY <1>1, <1>3, <2>3
    <3>2. ASSUME NEW i \in 0 .. (r + 1) - 1, Emits(i)
          PROVE  more[Position(i) + 1] = IF Passes(i) THEN i ELSE Zero
      <4>1. i \in 0 .. r - 1 \/ i = r
        BY <1>2
      <4> QED BY <2>4, <2>5, <3>2, <4>1
    <3> QED BY <3>1, <3>2 DEF Written
  <2> QED BY <1>3, <2>3, <2>6
<1>4. CASE ~Emits(r)
  <2>1. more = items
    BY <1>4
  <2>2. Written(more, r + 1)
    BY <1>1, <1>2, <1>4, <2>1 DEF Written
  <2> QED BY <1>4, <2>1, <2>2
<1> QED BY <1>3, <1>4

\* The marks one sample more adds: a start, an end or none.
LEMMA TaggedStep ==
  ASSUME NEW r \in Nat
  PROVE  /\ Begins(r + 1) =
              IF Open(r) /\ ~Follows(r)
              THEN Begins(r) \cup {[off |-> Position(r) + Late, key |-> "squelch_sob"]}
              ELSE Begins(r)
         /\ Finishes(r + 1) =
              IF ~Open(r) /\ Follows(r)
              THEN Finishes(r) \cup {[off |-> Position(r), key |-> "squelch_eob"]}
              ELSE Finishes(r)
<1> DEFINE O(n) == {j \in 0 .. n - 1 : Open(j) /\ ~Follows(j)}
           C(n) == {j \in 0 .. n - 1 : ~Open(j) /\ Follows(j)}
<1>1. \A i : i \in 0 .. (r + 1) - 1 <=> (i \in 0 .. r - 1 \/ i = r)
  OBVIOUS
<1>2. O(r + 1) = IF Open(r) /\ ~Follows(r) THEN O(r) \cup {r} ELSE O(r)
  BY <1>1
<1>3. C(r + 1) = IF ~Open(r) /\ Follows(r) THEN C(r) \cup {r} ELSE C(r)
  BY <1>1
<1>4. \A n : Begins(n) = {[off |-> Position(i) + Late, key |-> "squelch_sob"] : i \in O(n)}
  BY DEF Begins
<1>5. \A n : Finishes(n) = {[off |-> Position(i), key |-> "squelch_eob"] : i \in C(n)}
  BY DEF Finishes
<1> HIDE DEF O, C
<1>6. Begins(r + 1) =
        IF Open(r) /\ ~Follows(r)
        THEN Begins(r) \cup {[off |-> Position(r) + Late, key |-> "squelch_sob"]}
        ELSE Begins(r)
  BY <1>2, <1>4
<1>7. Finishes(r + 1) =
        IF ~Open(r) /\ Follows(r)
        THEN Finishes(r) \cup {[off |-> Position(r), key |-> "squelch_eob"]}
        ELSE Finishes(r)
  BY <1>3, <1>5
<1> QED BY <1>6, <1>7

\* The sample behind sample i follows an open one if i is open.
LEMMA FollowsStep ==
  ASSUME NEW r \in Nat
  PROVE  Follows(r + 1) <=> Open(r)
<1>1. Follows(r + 1) <=> r + 1 > 0 /\ Open((r + 1) - 1)
  BY DEF Follows
<1>2. r + 1 > 0 /\ (r + 1) - 1 = r
  OBVIOUS
<1> QED BY <1>1, <1>2

\* Another sample below the threshold.
LEMMA ZerosStep ==
  ASSUME NEW r \in Nat, NEW t \in 0 .. TrailingSamples, ~Open(r),
         ~Follows(r) => Zeros(t, r)
  PROVE  LET zeros == IF Follows(r) THEN TrailingSamples ELSE t
         IN  Zeros(IF zeros = 0 THEN zeros ELSE zeros - 1, r + 1)
<1>1. TrailingSamples \in Nat \ {0} /\ t \in Nat
  BY ConstantFacts
<1>2. \A j \in 0 .. (r + 1) - 1 : j \in 0 .. r - 1 \/ j = r
  OBVIOUS
<1>3. CASE Follows(r)
  <2>1. r > 0 /\ Open(r - 1)
    BY <1>3 DEF Follows
  <2>2. PICK k \in Int : k = TrailingSamples - 1 /\ k >= 0
    BY <1>1
  <2>3. /\ (r + 1) - TrailingSamples + k = r
        /\ (r + 1) - 1 - TrailingSamples + k = r - 1
        /\ r - 1 \in 0 .. (r + 1) - 1
    BY <1>1, <2>1, <2>2
  <2>4. \A j \in 0 .. (r + 1) - 1 : r <= j => j = r
    OBVIOUS
  <2>5. Zeros(k, r + 1)
    BY <1>1, <2>1, <2>2, <2>3, <2>4 DEF Zeros
  <2> QED BY <1>1, <1>3, <2>2, <2>5
<1>4. CASE ~Follows(r) /\ t = 0
  <2>1. ASSUME NEW j \in 0 .. (r + 1) - 1, (r + 1) - TrailingSamples + 0 <= j
        PROVE  ~Open(j)
    <3>1. j \in 0 .. r - 1 => r - TrailingSamples + t <= j
      BY <1>1, <1>4, <2>1
    <3> QED BY <1>2, <1>4, <3>1 DEF Zeros
  <2>2. Zeros(0, r + 1)
    BY <1>1, <2>1 DEF Zeros
  <2> QED BY <1>4, <2>2
<1>5. CASE ~Follows(r) /\ t # 0
  <2>1. PICK k \in Int : k = r - TrailingSamples + t
    BY <1>1
  <2>2. PICK v \in Nat : v = t - 1
    BY <1>1, <1>5
  <2>3. /\ (r + 1) - TrailingSamples + v = k
        /\ (r + 1) - 1 - TrailingSamples + v = k - 1
        /\ r - 1 - TrailingSamples + t = k - 1
    BY <1>1, <2>1, <2>2
  <2>4. t > 0
    BY <1>1, <1>5
  <2>5. k - 1 \in 0 .. r - 1 /\ Open(k - 1) /\ \A j \in 0 .. r - 1 : k <= j => ~Open(j)
    BY <1>5, <2>1, <2>3, <2>4 DEF Zeros
  <2>6. k - 1 \in 0 .. (r + 1) - 1 /\ \A j \in 0 .. (r + 1) - 1 : k <= j => ~Open(j)
    BY <1>2, <2>1, <2>5
  <2>7. Zeros(v, r + 1)
    BY <1>1, <2>1, <2>2, <2>3, <2>5, <2>6 DEF Zeros
  <2> QED BY <1>5, <2>2, <2>7
<1> QED BY <1>3, <1>4, <1>5

\* A pass of the loop of the gated squelch.
LEMMA SampleGood ==
  ASSUME AirOK, squelch.gated, NEW s, Good(s), s.read < arrived
  PROVE  /\ Good(Sample(s)) /\ Sample(s).read = s.read + 1
         /\ Len(Sample(s).items) \in {Len(s.items), Len(s.items) + 1}
<1> DEFINE r == s.read
           u == Update(s.tracker, PowerOf(r))
           open == AboveThreshold(u)
           zeros == IF s.active /\ ~open THEN TrailingSamples ELSE s.trailing
           n == Sample(s)
<1>1. /\ r \in Nat /\ s \in Records /\ s.active \in BOOLEAN /\ s.gated
      /\ s.trailing \in 0 .. TrailingSamples /\ s.items \in Seq(Int)
      /\ s.tags \in SUBSET Tags
      /\ TrailingSamples \in Nat \ {0} /\ arrived \in Nat
  BY ConstantFacts, ArrivedType DEF Good, Records
<1>2. Tracks(u, r + 1) /\ u.pwr = PowerOf(r) /\ u \in Trackers
  BY <1>1, UpdateTracks DEF Good, Tracks
<1>3. open <=> Open(r)
  BY <1>1, <1>2, AboveIsOpen
<1>4. open \in BOOLEAN
  BY DEF AboveThreshold
<1> HIDE DEF open, u
<1>5. /\ s.active <=> Follows(r)
      /\ ~s.active => Zeros(s.trailing, r)
  BY <1>1 DEF Good
<1>6. zeros \in 0 .. TrailingSamples
  BY <1>1
<1>7. Emits(r) <=> open \/ zeros > 0
  <2>1. CASE open \/ s.active
    <3>1. Emits(r)
      BY <1>1, <1>3, <1>5, <2>1, EmitsFacts
    <3> QED BY <1>1, <2>1, <3>1
  <2>2. CASE ~open /\ ~s.active
    <3>1. zeros = s.trailing /\ Zeros(s.trailing, r) /\ ~Open(r)
      BY <1>3, <1>5, <2>2
    <3>2. CASE s.trailing > 0
      <4>1. PICK j \in Int : j = r - 1 - TrailingSamples + s.trailing
        BY <1>1
      <4>2. j \in 0 .. r /\ r - TrailingSamples <= j /\ Open(j)
        BY <1>1, <3>1, <3>2, <4>1 DEF Zeros
      <4>3. Emits(r)
        BY <1>1, <4>2, EmitsFacts
      <4> QED BY <3>1, <3>2, <4>3
    <3>3. CASE ~(s.trailing > 0)
      <4>1. s.trailing = 0
        BY <1>1, <3>3
      <4>2. ASSUME NEW j \in 0 .. r, r - TrailingSamples <= j PROVE ~Open(j)
        <5>1. CASE j = r
          BY <3>1, <5>1
        <5>2. CASE j # r
          <6>1. j \in 0 .. r - 1 /\ r - TrailingSamples + s.trailing <= j
            BY <1>1, <4>1, <4>2, <5>2
          <6> QED BY <3>1, <6>1 DEF Zeros
        <5> QED BY <5>1, <5>2
      <4>3. ~Emits(r)
        BY <1>1, <4>2, EmitsFacts
      <4> QED BY <2>2, <3>1, <3>3, <4>3
    <3> QED BY <3>2, <3>3
  <2> QED BY <1>4, <1>1, <2>1, <2>2
<1>8. n = [gated |-> TRUE, tracker |-> u, active |-> open,
           trailing |-> IF open \/ zeros = 0 THEN zeros ELSE zeros - 1,
           read |-> r + 1,
           items |-> IF open THEN Append(s.items, r)
                     ELSE IF zeros > 0 THEN Append(s.items, Zero) ELSE s.items,
           tags |-> s.tags \cup Marks(s, open)]
  BY DEF Sample, open, u
<1> HIDE DEF n
<1>9. /\ n.gated = TRUE /\ n.tracker = u /\ n.active = open /\ n.read = r + 1
      /\ n.trailing = IF open \/ zeros = 0 THEN zeros ELSE zeros - 1
      /\ n.items = IF open THEN Append(s.items, r)
                   ELSE IF zeros > 0 THEN Append(s.items, Zero) ELSE s.items
      /\ n.tags = s.tags \cup Marks(s, open)
  BY <1>8
<1>10. n.items = IF Emits(r) THEN Append(s.items, IF Passes(r) THEN r ELSE Zero)
                 ELSE s.items
  <2>1. Passes(r) <=> open
    BY <1>3 DEF Passes
  <2> QED BY <1>7, <1>9, <2>1
<1>11. /\ n.items \in Seq(Int) /\ Written(n.items, r + 1)
       /\ Len(n.items) = IF Emits(r) THEN Len(s.items) + 1 ELSE Len(s.items)
  BY <1>1, <1>10, WrittenStep DEF Good
<1>12. n.tags = Begins(r + 1) \cup Finishes(r + 1)
  <2>1. s.tags = Begins(r) \cup Finishes(r) /\ Len(s.items) = Position(r)
    BY DEF Good, Written
  <2>2. Late = 0 /\ Position(r) + 0 = Position(r)
    BY <1>1, PositionSteps DEF Late
  <2>3. Marks(s, open) =
          IF Follows(r) /\ ~Open(r) THEN {[off |-> Position(r), key |-> "squelch_eob"]}
          ELSE IF ~Follows(r) /\ Open(r)
          THEN {[off |-> Position(r) + Late, key |-> "squelch_sob"]}
          ELSE {}
    BY <1>3, <1>5, <2>1, <2>2 DEF Marks
  <2> QED BY <1>1, <1>9, <2>1, <2>3, TaggedStep
<1>13. n.tags \in SUBSET Tags
  <2>1. Marks(s, open) \in SUBSET Tags
    <3>1. Len(s.items) \in Nat
      BY <1>1, LenProperties
    <3> QED BY <3>1 DEF Marks, Tags
  <2> QED BY <1>1, <1>9, <2>1
<1>14. n.trailing \in 0 .. TrailingSamples
  BY <1>1, <1>6, <1>9
<1>15. open <=> Follows(r + 1)
  BY <1>1, <1>3, FollowsStep
<1>16. ASSUME ~open PROVE Zeros(n.trailing, r + 1)
  <2>1. ~Open(r) /\ (~Follows(r) => Zeros(s.trailing, r))
    BY <1>3, <1>5, <1>16
  <2>2. zeros = IF Follows(r) THEN TrailingSamples ELSE s.trailing
    BY <1>5, <1>16
  <2>3. n.trailing = IF zeros = 0 THEN zeros ELSE zeros - 1
    BY <1>9, <1>16
  <2> HIDE DEF zeros, r
  <2> QED BY <1>1, <2>1, <2>2, <2>3, ZerosStep
<1>17. n \in Records
  <2>1. r + 1 \in Nat
    BY <1>1
  <2> HIDE DEF zeros, r
  <2> QED BY <1>2, <1>4, <1>8, <1>9, <1>11, <1>13, <1>14, <2>1 DEF Records
<1>18. r + 1 <= arrived
  BY <1>1
<1>19. Good(n)
  BY <1>1, <1>2, <1>9, <1>11, <1>12, <1>15, <1>16, <1>17, <1>18 DEF Good
<1>20. n.read = s.read + 1 /\ Len(n.items) \in {Len(s.items), Len(s.items) + 1}
  BY <1>9, <1>11
<1> QED BY <1>19, <1>20 DEF n

\* A pass of the loop of the ungated one.
LEMMA PassOrMuteGood ==
  ASSUME AirOK, ~squelch.gated, NEW s, Good(s), s.read < arrived
  PROVE  /\ Good(PassOrMute(s)) /\ PassOrMute(s).read = s.read + 1
         /\ Len(PassOrMute(s).items) = Len(s.items) + 1
<1> DEFINE r == s.read
           u == Update(s.tracker, PowerOf(r))
           open == AboveThreshold(u)
           n == PassOrMute(s)
<1>1. /\ r \in Nat /\ s \in Records /\ s.active \in BOOLEAN /\ s.gated = FALSE
      /\ s.trailing \in 0 .. TrailingSamples /\ s.items \in Seq(Int)
      /\ s.tags \in SUBSET Tags /\ arrived \in Nat
  BY ArrivedType DEF Good, Records
<1>2. Tracks(u, r + 1) /\ u.pwr = PowerOf(r) /\ u \in Trackers
  BY <1>1, UpdateTracks DEF Good, Tracks
<1>3. open <=> Open(r)
  BY <1>1, <1>2, AboveIsOpen
<1>4. open \in BOOLEAN
  BY DEF AboveThreshold
<1> HIDE DEF open, u
<1>5. s.active <=> Follows(r)
  BY <1>1 DEF Good
<1>6. Emits(r) /\ Position(r) = r /\ (Passes(r) <=> s.active) /\ Late = 1
  BY <1>1, <1>5, PositionSteps DEF Passes, Late
<1>7. n = [s EXCEPT !.tracker = u, !.active = open, !.read = @ + 1,
                    !.items = Append(@, IF s.active THEN s.read ELSE Zero),
                    !.tags = @ \cup LateMarks(s, open)]
  BY DEF PassOrMute, open, u
<1>8. Append(s.items, IF s.active THEN s.read ELSE Zero) \in Seq(Int)
  <2>1. (IF s.active THEN s.read ELSE Zero) \in Int
    BY <1>1 DEF Zero
  <2> QED BY <1>1, <2>1, AppendProperties
<1>9. LateMarks(s, open) \in SUBSET Tags
  BY <1>1 DEF LateMarks, Tags
<1> HIDE DEF n
<1>10. /\ n \in Records /\ n.gated = FALSE /\ n.tracker = u /\ n.active = open
       /\ n.read = r + 1
       /\ n.items = Append(s.items, IF s.active THEN r ELSE Zero)
       /\ n.tags = s.tags \cup LateMarks(s, open)
  <2>1. r + 1 \in Nat
    BY <1>1
  <2> QED BY <1>1, <1>2, <1>4, <1>7, <1>8, <1>9, <2>1 DEF Records
<1>11. n.items = IF Emits(r) THEN Append(s.items, IF Passes(r) THEN r ELSE Zero)
                 ELSE s.items
  BY <1>6, <1>10
<1>12. Written(n.items, r + 1) /\ Len(n.items) = Len(s.items) + 1
  BY <1>1, <1>6, <1>11, WrittenStep DEF Good
<1>13. n.tags = Begins(r + 1) \cup Finishes(r + 1)
  <2>1. s.tags = Begins(r) \cup Finishes(r)
    BY DEF Good
  <2>2. LateMarks(s, open) =
          IF Follows(r) /\ ~Open(r) THEN {[off |-> Position(r), key |-> "squelch_eob"]}
          ELSE IF ~Follows(r) /\ Open(r)
          THEN {[off |-> Position(r) + Late, key |-> "squelch_sob"]}
          ELSE {}
    BY <1>3, <1>5, <1>6 DEF LateMarks
  <2> QED BY <1>1, <1>10, <2>1, <2>2, TaggedStep
<1>14. open <=> Follows(r + 1)
  BY <1>1, <1>3, FollowsStep
<1>15. r + 1 <= arrived
  BY <1>1
<1>16. Good(n)
  BY <1>1, <1>2, <1>10, <1>12, <1>13, <1>14, <1>15 DEF Good
<1> QED BY <1>10, <1>12, <1>16 DEF n

-----------------------------------------------------------------------------
(***************************************************************************)
(* Samples to come change nothing of those that were received.             *)
(***************************************************************************)
SamplesKept ==
  /\ arrived' \in Nat /\ arrived <= arrived'
  /\ \A i \in 0 .. arrived - 1 : PowerOf(i)' = PowerOf(i)
  /\ squelch'.gated = squelch.gated

\* A remainder is below both of its arguments.
LEMMA RemainderBounds ==
  ASSUME NEW h \in Nat \ {0}, NEW k \in Nat
  PROVE  /\ k % h \in Nat /\ k % h < h /\ k % h <= k
         /\ k >= h => (k % h) + h <= k
<1>1. PICK m \in Nat, d \in Nat :
        m = k % h /\ m < h /\ d = k \div h /\ h * d = k - m /\ (d = 0 <=> k < h)
  <2>1. /\ k % h \in 0 .. h - 1 /\ k \div h \in Nat
        /\ (k \div h = 0 <=> k < h) /\ h * (k \div h) = k - (k % h)
    BY RemainderSteps
  <2>2. k % h \in Nat /\ k % h < h
    BY <2>1
  <2> QED BY <2>1, <2>2
<1>2. h * d >= 0
  OBVIOUS
<1>3. d >= 1 => h * d >= h
  <2>1. ASSUME d >= 1 PROVE h * d >= h
    BY <2>1
  <2> QED BY <2>1
<1> QED BY <1>1, <1>2, <1>3

\* They do not change the lowest power of a span,
LEMMA LowestKept ==
  ASSUME AirOK, SamplesKept, NEW a \in Nat, NEW b \in Int, b < arrived
  PROVE  Lowest(a, b)' = Lowest(a, b)
<1>1. arrived \in Nat
  BY ArrivedType
<1>2. \A j \in a .. b : PowerOf(j)' = PowerOf(j)
  <2>1. \A j \in a .. b : j \in 0 .. arrived - 1
    BY <1>1
  <2> QED BY <2>1 DEF SamplesKept
<1>3. {PowerOf(j)' : j \in a .. b} = {PowerOf(j) : j \in a .. b}
  BY <1>2
<1>4. Lowest(a, b)' = Min({PowerOf(j)' : j \in a .. b})
  BY DEF Lowest
<1> QED BY <1>3, <1>4 DEF Lowest

\* nor whether the squelch is open for a sample received,
LEMMA OpenKept ==
  ASSUME AirOK, SamplesKept, NEW i \in Nat
  PROVE  /\ i < arrived => (Open(i)' <=> Open(i))
         /\ i <= arrived => (Follows(i)' <=> Follows(i))
         /\ i < arrived => (Emits(i)' <=> Emits(i))
         /\ i < arrived => (Passes(i)' <=> Passes(i))
<1>1. arrived \in Nat
  BY ArrivedType
<1>2. ASSUME NEW n \in Nat, n < arrived PROVE Open(n)' <=> Open(n)
  <2>1. CASE n >= Settling
    <3>1. WindowStart(n) \in Nat
      BY <2>1, WindowFacts
    <3>2. Lowest(WindowStart(n), n)' = Lowest(WindowStart(n), n)
      BY <1>2, <3>1, LowestKept
    <3>3. PowerOf(n)' = PowerOf(n)
      <4>1. n \in 0 .. arrived - 1
        BY <1>1, <1>2
      <4> QED BY <4>1 DEF SamplesKept
    <3>4. Open(n) <=> n >= Settling /\ PowerOf(n) >= Relative * Lowest(WindowStart(n), n)
      BY DEF Open, Lowest
    <3>5. Open(n)' <=> n >= Settling /\ PowerOf(n)' >= Relative * Lowest(WindowStart(n), n)'
      BY DEF Open, Lowest, WindowStart
    <3> QED BY <3>2, <3>3, <3>4, <3>5
  <2>2. CASE ~(n >= Settling)
    BY <2>2 DEF Open
  <2> QED BY <2>1, <2>2
<1>3. i <= arrived => (Follows(i)' <=> Follows(i))
  <2>1. CASE i > 0 /\ i <= arrived
    <3>1. i - 1 \in Nat /\ i - 1 < arrived
      BY <1>1, <2>1
    <3>2. Open(i - 1)' <=> Open(i - 1)
      BY <1>2, <3>1
    <3> QED BY <3>2 DEF Follows
  <2>2. CASE ~(i > 0)
    BY <2>2 DEF Follows
  <2> QED BY <2>1, <2>2
<1>4. ASSUME i < arrived PROVE Emits(i)' <=> Emits(i)
  <2>1. TrailingSamples \in Nat /\ i - TrailingSamples \in Int /\ 0 \in Int
    BY ConstantFacts
  <2>2. Max({0, i - TrailingSamples}) \in Nat
    BY <2>1, MaxPair
  <2>3. \A j \in Max({0, i - TrailingSamples}) .. i : Open(j)' <=> Open(j)
    <3>1. \A j \in Max({0, i - TrailingSamples}) .. i : j \in Nat /\ j < arrived
      BY <1>1, <1>4, <2>2
    <3> QED BY <1>2, <3>1
  <2>4. squelch'.gated = squelch.gated
    BY DEF SamplesKept
  <2> QED BY <2>3, <2>4 DEF Emits
<1>5. i < arrived => (Passes(i)' <=> Passes(i))
  <2>1. squelch'.gated = squelch.gated
    BY DEF SamplesKept
  <2>2. i < arrived => i <= arrived
    BY <1>1
  <2> QED BY <1>2, <1>3, <2>1, <2>2 DEF Passes
<1> QED BY <1>2, <1>3, <1>4, <1>5

\* nor what becomes of it in the output and where that is,
LEMMA OutputKept ==
  ASSUME AirOK, SamplesKept, NEW r \in Nat, r <= arrived
  PROVE  /\ Position(r)' = Position(r)
         /\ Begins(r)' = Begins(r) /\ Finishes(r)' = Finishes(r)
         /\ \A items : Written(items, r)' <=> Written(items, r)
<1>1. arrived \in Nat
  BY ArrivedType
<1>2. ASSUME NEW n \in Nat, n <= arrived PROVE Position(n)' = Position(n)
  <2>1. \A j \in 0 .. n - 1 : Emits(j)' <=> Emits(j)
    <3>1. \A j \in 0 .. n - 1 : j \in Nat /\ j < arrived
      BY <1>1, <1>2
    <3> QED BY <3>1, OpenKept
  <2>2. {j \in 0 .. n - 1 : Emits(j)'} = {j \in 0 .. n - 1 : Emits(j)}
    BY <2>1
  <2>3. Position(n)' = Cardinality({j \in 0 .. n - 1 : Emits(j)'})
    BY DEF Position
  <2> QED BY <2>2, <2>3 DEF Position
<1>3. \A i \in 0 .. r - 1 : /\ i \in Nat /\ i < arrived /\ i <= arrived
                            /\ Open(i)' <=> Open(i)
                            /\ Follows(i)' <=> Follows(i)
                            /\ Emits(i)' <=> Emits(i)
                            /\ Passes(i)' <=> Passes(i)
                            /\ Position(i)' = Position(i)
  <2>1. \A i \in 0 .. r - 1 : i \in Nat /\ i < arrived /\ i <= arrived
    BY <1>1
  <2> QED BY <1>2, <2>1, OpenKept
<1>4. Late' = Late
  BY DEF Late, SamplesKept
<1>5. Begins(r)' = Begins(r)
  <2> DEFINE O == {j \in 0 .. r - 1 : Open(j) /\ ~Follows(j)}
             N == {j \in 0 .. r - 1 : Open(j)' /\ ~Follows(j)'}
  <2>1. N = O
    BY <1>3
  <2>2. \A i \in O : Position(i)' = Position(i)
    BY <1>3
  <2>3. Begins(r)' = {[off |-> Position(i)' + Late', key |-> "squelch_sob"] : i \in N}
    BY DEF Begins
  <2>4. Begins(r) = {[off |-> Position(i) + Late, key |-> "squelch_sob"] : i \in O}
    BY DEF Begins
  <2> HIDE DEF O, N
  <2> QED BY <1>4, <2>1, <2>2, <2>3, <2>4
<1>6. Finishes(r)' = Finishes(r)
  <2> DEFINE O == {j \in 0 .. r - 1 : ~Open(j) /\ Follows(j)}
             N == {j \in 0 .. r - 1 : ~Open(j)' /\ Follows(j)'}
  <2>1. N = O
    BY <1>3
  <2>2. \A i \in O : Position(i)' = Position(i)
    BY <1>3
  <2>3. Finishes(r)' = {[off |-> Position(i)', key |-> "squelch_eob"] : i \in N}
    BY DEF Finishes
  <2>4. Finishes(r) = {[off |-> Position(i), key |-> "squelch_eob"] : i \in O}
    BY DEF Finishes
  <2> HIDE DEF O, N
  <2> QED BY <2>1, <2>2, <2>3, <2>4
<1>7. \A items : Written(items, r)' <=> Written(items, r)
  <2>1. Position(r)' = Position(r)
    BY <1>2
  <2> QED BY <1>3, <2>1 DEF Written
<1> QED BY <1>2, <1>5, <1>6, <1>7

\* nor what the tracker knows,
LEMMA TracksKept ==
  ASSUME AirOK, SamplesKept, NEW t, NEW r \in Nat, r <= arrived, Tracks(t, r)
  PROVE  Tracks(t, r)'
<1>1. arrived \in Nat /\ Settling \in Nat /\ HalfWindow \in Nat \ {0}
  BY ArrivedType, ConstantFacts
<1>2. ASSUME r >= Settling, Settled(t, r) PROVE Settled(t, r)'
  <2> DEFINE k == r - Settling
             m == k % HalfWindow
  <2>1. k \in Nat
    BY <1>1, <1>2
  <2>2. m \in Nat /\ m <= k /\ (k >= HalfWindow => m + HalfWindow <= k)
    <3> HIDE DEF k
    <3> QED BY <1>1, <2>1, RemainderBounds
  <2>3. r - m \in Nat /\ r - 1 < arrived /\ r - 1 \in Int
        /\ r - m - 1 \in Int /\ r - m - 1 < arrived
        /\ (k >= HalfWindow => r - m - HalfWindow \in Nat)
    <3>1. k <= r
      BY <1>1
    <3> HIDE DEF k, m
    <3> QED BY <1>1, <2>1, <2>2, <3>1
  <2>4. Lowest(r - m, r - 1)' = Lowest(r - m, r - 1)
    <3> HIDE DEF m
    <3> QED BY <2>3, LowestKept
  <2>5. k >= HalfWindow => Lowest(r - m - HalfWindow, r - m - 1)'
                             = Lowest(r - m - HalfWindow, r - m - 1)
    <3> HIDE DEF m, k
    <3> QED BY <2>3, LowestKept
  <2>6. k # 0 => Lowest(WindowStart(r - 1), r - 1)' = Lowest(WindowStart(r - 1), r - 1)
    <3>1. ASSUME k # 0 PROVE WindowStart(r - 1) \in Nat
      <4>1. r - 1 \in Nat /\ r - 1 >= Settling
        BY <1>1, <1>2, <3>1
      <4> QED BY <4>1, WindowFacts
    <3> QED BY <2>3, <3>1, LowestKept
  <2>7. k < HalfWindow \/ k >= HalfWindow
    BY <1>1, <2>1
  <2>8. /\ t.settling = 0 /\ t.left = HalfWindow - m
        /\ t.current = IF m = 0 THEN Infinity ELSE Lowest(r - m, r - 1)'
        /\ t.previous = IF k < HalfWindow THEN Infinity
                        ELSE Lowest(r - m - HalfWindow, r - m - 1)'
        /\ t.floor = IF k = 0 THEN FullScale ELSE Lowest(WindowStart(r - 1), r - 1)'
    <3>1. /\ t.settling = 0 /\ t.left = HalfWindow - m
          /\ t.current = IF m = 0 THEN Infinity ELSE Lowest(r - m, r - 1)
          /\ t.previous = IF k < HalfWindow THEN Infinity
                          ELSE Lowest(r - m - HalfWindow, r - m - 1)
          /\ t.floor = IF k = 0 THEN FullScale ELSE Lowest(WindowStart(r - 1), r - 1)
      BY <1>2 DEF Settled
    <3> HIDE DEF k, m
    <3> QED BY <2>4, <2>5, <2>6, <2>7, <3>1
  <2> QED BY <1>1, <2>8 DEF Settled
<1>3. Warmup(t, r) => Warmup(t, r)'
  BY DEF Warmup
<1> QED BY <1>2, <1>3 DEF Tracks

\* nor how many zeros are left,
LEMMA ZerosKept ==
  ASSUME AirOK, SamplesKept, NEW t, NEW r \in Nat, r <= arrived, Zeros(t, r)
  PROVE  Zeros(t, r)'
<1>1. arrived \in Nat
  BY ArrivedType
<1>2. \A j \in 0 .. r - 1 : Open(j)' <=> Open(j)
  <2>1. \A j \in 0 .. r - 1 : j \in Nat /\ j < arrived
    BY <1>1
  <2> QED BY <2>1, OpenKept
<1> QED BY <1>2 DEF Zeros

\* and so a good state remains one.
LEMMA GoodKept ==
  ASSUME AirOK, SamplesKept, NEW s, Good(s)
  PROVE  Good(s)'
<1>1. /\ s.read \in Nat /\ s.read <= arrived /\ arrived \in Nat
      /\ arrived' \in Nat /\ arrived <= arrived'
  BY ArrivedType DEF Good, Records, SamplesKept
<1>2. s.read <= arrived'
  BY <1>1
<1>3. s.gated = squelch'.gated
  BY DEF Good, SamplesKept
<1>4. Tracks(s.tracker, s.read)'
  BY <1>1, TracksKept DEF Good
<1>5. s.active <=> Follows(s.read)'
  BY <1>1, OpenKept DEF Good
<1>6. s.gated /\ ~s.active => Zeros(s.trailing, s.read)'
  BY <1>1, ZerosKept DEF Good
<1>7. Written(s.items, s.read)' /\ s.tags = Begins(s.read)' \cup Finishes(s.read)'
  BY <1>1, OutputKept DEF Good
<1>8. s \in Records'
  BY DEF Good, Records
<1> QED BY <1>2, <1>3, <1>4, <1>5, <1>6, <1>7, <1>8 DEF Good

-----------------------------------------------------------------------------
(***************************************************************************)
(* The loops of the squelches, and their steps.                            *)
(***************************************************************************)
\* One pass of either loop, when space items are allowed.
Pass(s, space) ==
  IF squelch.gated
  THEN IF Len(s.items) = Len(squelch.items) + space THEN s ELSE Sample(s)
  ELSE PassOrMute(s)

LoopIs(f, n, space) ==
  f = [m \in 0 .. n |-> IF m = 0 THEN {squelch} ELSE {Pass(s, space) : s \in f[m - 1]}]

\* The recursive function of such passes exists, so CHOOSE finds it.
LEMMA LoopExists ==
  ASSUME NEW space, NEW n \in Nat
  PROVE  \E f : LoopIs(f, n, space)
<1> DEFINE S == {m \in Nat : \E f : LoopIs(f, m, space)}
<1>1. 0 \in S
  <2>1. LoopIs([m \in 0 .. 0 |-> {squelch}], 0, space)
    BY DEF LoopIs
  <2> QED BY <2>1
<1>2. ASSUME NEW k \in S PROVE k + 1 \in S
  <2>1. k \in Nat
    OBVIOUS
  <2>2. PICK f : LoopIs(f, k, space)
    OBVIOUS
  <2> DEFINE last == {Pass(s, space) : s \in f[k]}
             g == [m \in 0 .. k + 1 |-> IF m <= k THEN f[m] ELSE last]
  <2>3. ASSUME NEW m \in 0 .. k + 1
        PROVE  g[m] = IF m = 0 THEN {squelch} ELSE {Pass(s, space) : s \in g[m - 1]}
    <3>1. CASE m = 0
      <4>1. g[0] = f[0] /\ f[0] = {squelch}
        BY <2>1, <2>2 DEF LoopIs
      <4> QED BY <3>1, <4>1
    <3>2. CASE m # 0 /\ m <= k
      <4>1. m \in 0 .. k /\ m - 1 \in 0 .. k + 1 /\ m - 1 <= k
        BY <2>1, <3>2
      <4>2. g[m] = f[m] /\ g[m - 1] = f[m - 1]
        BY <3>2, <4>1
      <4>3. f[m] = {Pass(s, space) : s \in f[m - 1]}
        BY <2>2, <3>2, <4>1 DEF LoopIs
      <4> QED BY <3>2, <4>2, <4>3
    <3>3. CASE m # 0 /\ ~(m <= k)
      <4>1. m = k + 1 /\ m - 1 = k /\ k \in 0 .. k + 1
        BY <2>1, <3>3
      <4>2. g[m] = last /\ g[m - 1] = f[k]
        BY <2>1, <3>3, <4>1
      <4> QED BY <3>3, <4>2
    <3> QED BY <3>1, <3>2, <3>3
  <2>4. g = [m \in 0 .. k + 1 |-> g[m]]
    OBVIOUS
  <2>5. LoopIs(g, k + 1, space)
    <3> HIDE DEF g
    <3> QED BY <2>3, <2>4 DEF LoopIs
  <2> QED BY <2>1, <2>5
<1>3. S = Nat
  <2>1. S \in SUBSET Nat
    OBVIOUS
  <2> HIDE DEF S
  <2> QED BY <1>1, <1>2, <2>1, SetInduction
<1>4. n \in S
  BY <1>3
<1> QED BY <1>4

\* What holds of the squelch behind n passes.
Passed(s, n, space) ==
  /\ Good(s)
  /\ squelch.read <= s.read /\ s.read <= squelch.read + n
  /\ Len(squelch.items) <= Len(s.items)
  /\ Len(s.items) <= Len(squelch.items) + (IF squelch.gated THEN space ELSE n)

\* Types of a good state's fields.
LEMMA GoodTypes ==
  ASSUME NEW s, Good(s)
  PROVE  /\ s.read \in Nat /\ s.items \in Seq(Int) /\ Len(s.items) \in Nat
         /\ s.gated \in BOOLEAN /\ s.trailing \in 0 .. TrailingSamples
         /\ s.tracker \in Trackers /\ s.tags \in SUBSET Tags
BY LenProperties DEF Good, Records

\* One pass more, which touches no sample whose item might not fit.
LEMMA PassedStep ==
  ASSUME Good(squelch), NEW space \in Nat, NEW m \in Nat, NEW s, Passed(s, m, space),
         NEW q, Good(q), q.read \in {s.read, s.read + 1},
         \/ Len(q.items) = Len(s.items)
         \/ Len(q.items) = Len(s.items) + 1 /\ squelch.gated
            /\ Len(s.items) # Len(squelch.items) + space
         \/ Len(q.items) = Len(s.items) + 1 /\ ~squelch.gated
  PROVE  Passed(q, m + 1, space)
<1>1. PICK r0 \in Nat, l0 \in Nat : r0 = squelch.read /\ l0 = Len(squelch.items)
  BY GoodTypes
<1>2. PICK r1 \in Nat, l1 \in Nat : r1 = s.read /\ l1 = Len(s.items)
  BY GoodTypes DEF Passed
<1>3. PICK r2 \in Nat, l2 \in Nat : r2 = q.read /\ l2 = Len(q.items)
  BY GoodTypes
<1>0. l2 = l1 \/ (l2 = l1 + 1 /\ (squelch.gated => l1 # l0 + space))
  BY <1>1, <1>2, <1>3
<1>4. r0 <= r1 /\ r1 <= r0 + m /\ l0 <= l1
  BY <1>1, <1>2 DEF Passed
<1>5. r0 <= r2 /\ r2 <= r0 + (m + 1)
  BY <1>2, <1>3, <1>4
<1>6. CASE squelch.gated
  <2>1. l1 <= l0 + space
    BY <1>1, <1>2, <1>6 DEF Passed
  <2>2. l0 <= l2 /\ l2 <= l0 + space
    BY <1>0, <1>4, <1>6, <2>1
  <2> QED BY <1>1, <1>3, <1>5, <1>6, <2>2 DEF Passed
<1>7. CASE ~squelch.gated
  <2>1. l1 <= l0 + m
    BY <1>1, <1>2, <1>7 DEF Passed
  <2>2. l0 <= l2 /\ l2 <= l0 + (m + 1)
    BY <1>0, <1>4, <1>7, <2>1
  <2> QED BY <1>1, <1>3, <1>5, <1>7, <2>2 DEF Passed
<1> QED BY <1>6, <1>7

\* After n passes there is one state, and what it has read and written is bounded.
LEMMA LoopGood ==
  ASSUME AirOK, Good(squelch), NEW space \in Nat \ {0}, NEW n \in Nat,
         n <= arrived - squelch.read, NEW f, LoopIs(f, n, space)
  PROVE  \A s \in f[n] : Passed(s, n, space)
<1> DEFINE S == {m \in Nat : m <= n => \A s \in f[m] : Passed(s, m, space)}
<1>0. /\ squelch.read \in Nat /\ Len(squelch.items) \in Nat /\ arrived \in Nat
      /\ squelch.gated \in BOOLEAN
  BY GoodTypes, ArrivedType
<1>1. 0 \in S
  <2>1. f[0] = {squelch}
    BY DEF LoopIs
  <2>2. PICK r \in Nat, l \in Nat : r = squelch.read /\ l = Len(squelch.items)
    BY <1>0
  <2>3. r <= r /\ r <= r + 0 /\ l <= l /\ l <= l + (IF squelch.gated THEN space ELSE 0)
    OBVIOUS
  <2>4. Passed(squelch, 0, space)
    BY <2>2, <2>3 DEF Passed
  <2> QED BY <2>1, <2>4
<1>2. ASSUME NEW m \in S PROVE m + 1 \in S
  <2>1. m \in Nat /\ m + 1 \in Nat /\ (m + 1) - 1 = m
    OBVIOUS
  <2>2. ASSUME m + 1 <= n, NEW q \in f[m + 1] PROVE Passed(q, m + 1, space)
    <3>1. m <= n /\ m + 1 \in 0 .. n /\ m + 1 # 0
      BY <2>1, <2>2
    <3>2. f[m + 1] = {Pass(s, space) : s \in f[m]}
      BY <2>1, <3>1 DEF LoopIs
    <3>3. PICK s \in f[m] : q = Pass(s, space)
      BY <2>2, <3>2
    <3>4. Passed(s, m, space)
      BY <3>1
    <3>5. Good(s) /\ s.read \in Nat /\ Len(s.items) \in Nat
      BY <3>4, GoodTypes DEF Passed
    <3>6. s.read < arrived
      BY <1>0, <2>1, <2>2, <3>4, <3>5 DEF Passed
    <3>7. CASE squelch.gated /\ Len(s.items) = Len(squelch.items) + space
      <4>1. q = s
        BY <3>3, <3>7 DEF Pass
      <4> QED BY <2>1, <3>4, <3>5, <4>1, PassedStep
    <3>8. CASE squelch.gated /\ Len(s.items) # Len(squelch.items) + space
      <4>1. q = Sample(s)
        BY <3>3, <3>8 DEF Pass
      <4>2. /\ Good(q) /\ q.read = s.read + 1
            /\ Len(q.items) \in {Len(s.items), Len(s.items) + 1}
        BY <3>5, <3>6, <3>8, <4>1, SampleGood
      <4> QED BY <2>1, <3>4, <3>5, <3>8, <4>2, PassedStep
    <3>9. CASE ~squelch.gated
      <4>1. q = PassOrMute(s)
        BY <3>3, <3>9 DEF Pass
      <4>2. Good(q) /\ q.read = s.read + 1 /\ Len(q.items) = Len(s.items) + 1
        BY <3>5, <3>6, <3>9, <4>1, PassOrMuteGood
      <4> QED BY <2>1, <3>4, <3>5, <3>9, <4>2, PassedStep
    <3> QED BY <3>7, <3>8, <3>9
  <2> QED BY <2>1, <2>2
<1>3. S = Nat
  <2>1. S \in SUBSET Nat
    OBVIOUS
  <2> HIDE DEF S
  <2> QED BY <1>1, <1>2, <2>1, SetInduction
<1>4. n \in S
  <2> HIDE DEF S
  <2> QED BY <1>3
<1> QED BY <1>4

\* The work functions leave the squelch in a state that such passes lead to.
LEMMA SquelchPassed ==
  ASSUME AirOK, Good(squelch), NEW space \in Nat \ {0}, squelch.gated,
         NEW q \in Processed(space)
  PROVE  Passed(q, arrived - squelch.read, space)
<1> DEFINE n == arrived - squelch.read
           loop == CHOOSE f : f = [m \in 0 .. n |->
                     IF m = 0 THEN {squelch}
                     ELSE {IF Len(s.items) = Len(squelch.items) + space THEN s
                           ELSE Sample(s) : s \in f[m - 1]}]
<1>1. Processed(space) = loop[n]
  BY DEF Processed
<1>2. n \in Nat
  <2>1. squelch.read \in Nat /\ squelch.read <= arrived /\ arrived \in Nat
    BY GoodTypes, ArrivedType DEF Good
  <2> QED BY <2>1
<1> HIDE DEF n
<1>3. PICK f : LoopIs(f, n, space)
  BY <1>2, LoopExists
<1>4. \A s : Pass(s, space) =
               IF Len(s.items) = Len(squelch.items) + space THEN s ELSE Sample(s)
  BY DEF Pass
<1>5. f = [m \in 0 .. n |->
             IF m = 0 THEN {squelch}
             ELSE {IF Len(s.items) = Len(squelch.items) + space THEN s
                   ELSE Sample(s) : s \in f[m - 1]}]
  <2>1. \A m : {Pass(s, space) : s \in f[m - 1]}
                = {IF Len(s.items) = Len(squelch.items) + space THEN s
                   ELSE Sample(s) : s \in f[m - 1]}
    BY <1>4
  <2> QED BY <1>3, <2>1 DEF LoopIs
<1>6. PICK g : g = loop
  OBVIOUS
<1>7. g = [m \in 0 .. n |->
             IF m = 0 THEN {squelch}
             ELSE {IF Len(s.items) = Len(squelch.items) + space THEN s
                   ELSE Sample(s) : s \in g[m - 1]}]
  BY <1>5, <1>6
<1>8. LoopIs(g, n, space)
  <2>1. \A m : {Pass(s, space) : s \in g[m - 1]}
                = {IF Len(s.items) = Len(squelch.items) + space THEN s
                   ELSE Sample(s) : s \in g[m - 1]}
    BY <1>4
  <2> QED BY <1>7, <2>1 DEF LoopIs
<1>9. n <= arrived - squelch.read
  BY <1>2 DEF n
<1> HIDE DEF loop
<1>10. \A s \in g[n] : Passed(s, n, space)
  BY <1>2, <1>8, <1>9, LoopGood
<1> QED BY <1>1, <1>6, <1>10 DEF n

\* The same for the ungated squelch.
LEMMA MutePassed ==
  ASSUME AirOK, Good(squelch), ~squelch.gated, NEW n \in Nat \ {0},
         n <= arrived - squelch.read,
         NEW q \in (CHOOSE f : f = [m \in 0 .. n |->
                      IF m = 0 THEN {squelch} ELSE {PassOrMute(s) : s \in f[m - 1]}])[n]
  PROVE  Passed(q, n, n)
<1> DEFINE loop == CHOOSE f : f = [m \in 0 .. n |->
                     IF m = 0 THEN {squelch} ELSE {PassOrMute(s) : s \in f[m - 1]}]
<1>1. PICK f : LoopIs(f, n, n)
  BY LoopExists
<1>2. \A s : Pass(s, n) = PassOrMute(s)
  BY DEF Pass
<1>3. f = [m \in 0 .. n |->
             IF m = 0 THEN {squelch} ELSE {PassOrMute(s) : s \in f[m - 1]}]
  <2>1. \A m : {Pass(s, n) : s \in f[m - 1]} = {PassOrMute(s) : s \in f[m - 1]}
    BY <1>2
  <2> QED BY <1>1, <2>1 DEF LoopIs
<1>4. PICK g : g = loop
  OBVIOUS
<1>5. g = [m \in 0 .. n |->
             IF m = 0 THEN {squelch} ELSE {PassOrMute(s) : s \in g[m - 1]}]
  BY <1>3, <1>4
<1>6. LoopIs(g, n, n)
  <2>1. \A m : {Pass(s, n) : s \in g[m - 1]} = {PassOrMute(s) : s \in g[m - 1]}
    BY <1>2
  <2> QED BY <1>5, <2>1 DEF LoopIs
<1>7. q \in g[n]
  BY <1>4
<1> HIDE DEF loop
<1> QED BY <1>6, <1>7, LoopGood

-----------------------------------------------------------------------------
(***************************************************************************)
(* The squelch's part of the inductive invariant.                          *)
(***************************************************************************)
Buffers ==
  /\ arrived - squelch.read <= SquelchInput
  /\ drained \in 0 .. Len(squelch.items)
  /\ Len(squelch.items) - drained <= SquelchBuffer

SquelchInv == AirOK /\ Good(squelch) /\ Buffers

\* The marks on the items below n.
Starts(k) == [off |-> k, key |-> "squelch_sob"] \in squelch.tags

MarksKept ==
  /\ Len(squelch.items) <= Len(squelch.items)' /\ Len(squelch.items)' \in Nat
  /\ \A k \in 0 .. Len(squelch.items) - 1 :
       (Starts(k)' <=> Starts(k)) /\ (Ends(k)' <=> Ends(k))
  /\ \A k \in Nat : Ends(k) => Ends(k)'

\* Which samples the marks are of.
LEMMA TagFacts ==
  ASSUME Good(squelch), NEW k
  PROVE  /\ Starts(k) <=> \E i \in 0 .. squelch.read - 1 :
                            Open(i) /\ ~Follows(i) /\ k = Position(i) + Late
         /\ Ends(k) <=> \E i \in 0 .. squelch.read - 1 :
                          ~Open(i) /\ Follows(i) /\ k = Position(i)
<1>1. squelch.tags = Begins(squelch.read) \cup Finishes(squelch.read)
  BY DEF Good
<1>2. [off |-> k, key |-> "squelch_sob"] \notin Finishes(squelch.read)
  BY DEF Finishes
<1>3. [off |-> k, key |-> "squelch_eob"] \notin Begins(squelch.read)
  BY DEF Begins
<1>4. \A i : [off |-> k, key |-> "squelch_sob"]
               = [off |-> Position(i) + Late, key |-> "squelch_sob"]
             <=> k = Position(i) + Late
  OBVIOUS
<1>5. \A i : [off |-> k, key |-> "squelch_eob"]
               = [off |-> Position(i), key |-> "squelch_eob"]
             <=> k = Position(i)
  OBVIOUS
<1>6. Starts(k) <=> [off |-> k, key |-> "squelch_sob"] \in Begins(squelch.read)
  BY <1>1, <1>2 DEF Starts
<1>7. Ends(k) <=> [off |-> k, key |-> "squelch_eob"] \in Finishes(squelch.read)
  BY <1>1, <1>3 DEF Ends
<1>8. Starts(k) <=> \E i \in 0 .. squelch.read - 1 :
                      Open(i) /\ ~Follows(i) /\ k = Position(i) + Late
  BY <1>4, <1>6 DEF Begins
<1>9. Ends(k) <=> \E i \in 0 .. squelch.read - 1 :
                    ~Open(i) /\ Follows(i) /\ k = Position(i)
  BY <1>5, <1>7 DEF Finishes
<1> QED BY <1>8, <1>9

\* What more samples add to the tags is not on items that were written before.
LEMMA LaterTags ==
  ASSUME NEW r \in Nat, NEW q \in Nat, r <= q, NEW k \in Nat, k < Position(r)
  PROVE  /\ [off |-> k, key |-> "squelch_sob"] \in Begins(q) \cup Finishes(q)
              <=> [off |-> k, key |-> "squelch_sob"] \in Begins(r) \cup Finishes(r)
         /\ [off |-> k, key |-> "squelch_eob"] \in Begins(q) \cup Finishes(q)
              <=> [off |-> k, key |-> "squelch_eob"] \in Begins(r) \cup Finishes(r)
<1>1. \A i \in 0 .. r - 1 : i \in 0 .. q - 1
  OBVIOUS
<1>2. Late \in {0, 1} /\ Position(r) \in Nat
  BY PositionSteps DEF Late
<1>3. ASSUME NEW i \in 0 .. q - 1, i \notin 0 .. r - 1
      PROVE  k # Position(i) /\ k # Position(i) + Late
  <2>1. i \in Nat /\ r <= i
    BY <1>3
  <2>2. Position(r) <= Position(i) /\ Position(i) \in Nat
    BY <2>1, PositionMonotone, PositionSteps
  <2> QED BY <1>2, <2>2
<1>4. \A i : [off |-> k, key |-> "squelch_sob"]
               = [off |-> Position(i) + Late, key |-> "squelch_sob"]
             <=> k = Position(i) + Late
  OBVIOUS
<1>5. \A i : [off |-> k, key |-> "squelch_eob"]
               = [off |-> Position(i), key |-> "squelch_eob"]
             <=> k = Position(i)
  OBVIOUS
<1>6. [off |-> k, key |-> "squelch_sob"] \in Begins(q)
        <=> [off |-> k, key |-> "squelch_sob"] \in Begins(r)
  BY <1>1, <1>3, <1>4 DEF Begins
<1>7. [off |-> k, key |-> "squelch_eob"] \in Finishes(q)
        <=> [off |-> k, key |-> "squelch_eob"] \in Finishes(r)
  BY <1>1, <1>3, <1>5 DEF Finishes
<1>8. \A n : /\ [off |-> k, key |-> "squelch_sob"] \notin Finishes(n)
             /\ [off |-> k, key |-> "squelch_eob"] \notin Begins(n)
  BY DEF Begins, Finishes
<1> QED BY <1>6, <1>7, <1>8

\* A step of the squelch: what it becomes is good, and the marks on the items
\* written before stay as they were.
LEMMA SquelchMoves ==
  ASSUME SquelchInv, NEW q, squelch' = q, air' = air, drained' = drained,
         Good(q), squelch.read <= q.read, Len(squelch.items) <= Len(q.items),
         Len(q.items) - drained <= SquelchBuffer
  PROVE  SquelchInv' /\ MarksKept
<1>1. SamplesKept
  <2>1. arrived' = arrived /\ \A i : PowerOf(i)' = PowerOf(i)
    BY DEF arrived, PowerOf
  <2>2. q.gated = squelch.gated
    BY DEF Good
  <2> QED BY <2>1, <2>2, ArrivedType DEF SamplesKept, SquelchInv
<1>2. Good(squelch)'
  <2>1. Good(q)'
    BY <1>1, GoodKept DEF SquelchInv
  <2> QED BY <2>1 DEF Good
<1>3. AirOK'
  BY DEF SquelchInv, AirOK, arrived
<1>4. PICK a \in Nat, r \in Nat, n \in Nat, l \in Nat, m \in Nat, d \in Nat :
        /\ a = arrived /\ r = squelch.read /\ n = q.read
        /\ l = Len(squelch.items) /\ m = Len(q.items) /\ d = drained
  <2>1. arrived \in Nat /\ squelch.read \in Nat /\ Len(squelch.items) \in Nat
        /\ q.read \in Nat /\ Len(q.items) \in Nat
    BY ArrivedType, GoodTypes DEF SquelchInv
  <2>2. drained \in Nat
    BY <2>1 DEF SquelchInv, Buffers
  <2> QED BY <2>1, <2>2
<1>5. Buffers'
  <2>1. a - r <= SquelchInput /\ r <= n /\ d <= l /\ l <= m /\ m - d <= SquelchBuffer
    BY <1>4 DEF SquelchInv, Buffers
  <2>2. SquelchInput \in Nat
    BY ConstantFacts
  <2>3. a - n <= SquelchInput /\ d \in 0 .. m
    BY <2>1, <2>2
  <2>4. arrived' = a /\ squelch'.read = n /\ drained' = d /\ Len(squelch.items)' = m
    BY <1>4 DEF arrived
  <2> QED BY <2>1, <2>3, <2>4 DEF Buffers
<1>6. MarksKept
  <2>1. Len(squelch.items)' = m
    BY <1>4
  <2>2. ASSUME NEW k \in 0 .. l - 1
        PROVE  (Starts(k)' <=> Starts(k)) /\ (Ends(k)' <=> Ends(k))
    <3>1. Position(r) = l /\ k \in Nat /\ k < l
      BY <1>4 DEF SquelchInv, Good, Written
    <3>2. q.tags = Begins(n) \cup Finishes(n)
      BY <1>4 DEF Good
    <3>3. squelch.tags = Begins(r) \cup Finishes(r)
      BY <1>4 DEF SquelchInv, Good
    <3>4. r <= n
      BY <1>4
    <3> QED BY <3>1, <3>2, <3>3, <3>4, LaterTags DEF Starts, Ends
  <2>3. ASSUME NEW k \in Nat, Ends(k) PROVE Ends(k)'
    <3>1. squelch.tags \subseteq q.tags
      <4>1. q.tags = Begins(n) \cup Finishes(n)
        BY <1>4 DEF Good
      <4>2. squelch.tags = Begins(r) \cup Finishes(r)
        BY <1>4 DEF SquelchInv, Good
      <4>3. \A i \in 0 .. r - 1 : i \in 0 .. n - 1
        <5>1. r <= n
          BY <1>4
        <5> QED BY <5>1
      <4> QED BY <4>1, <4>2, <4>3 DEF Begins, Finishes
    <3> QED BY <2>3, <3>1 DEF Ends
  <2> QED BY <1>4, <2>1, <2>2, <2>3 DEF MarksKept
<1> QED BY <1>2, <1>3, <1>5, <1>6 DEF SquelchInv

\* Both squelches keep the invariant and the marks there are.
LEMMA SquelchStepKeeps ==
  ASSUME SquelchInv, SquelchStep
  PROVE  SquelchInv' /\ MarksKept
<1>1. PICK a \in Nat, r \in Nat, l \in Nat, d \in Nat :
        /\ a = arrived /\ r = squelch.read /\ l = Len(squelch.items) /\ d = drained
        /\ r <= a
  <2>1. arrived \in Nat /\ squelch.read \in Nat /\ Len(squelch.items) \in Nat
    BY ArrivedType, GoodTypes DEF SquelchInv
  <2>2. drained \in Nat
    BY <2>1 DEF SquelchInv, Buffers
  <2>3. squelch.read <= arrived
    BY DEF SquelchInv, Good
  <2> QED BY <2>1, <2>2, <2>3
<1>2. SquelchBuffer \in Nat
  BY ConstantFacts
<1>3. CASE Squelch
  <2>1. squelch.gated /\ air' = air /\ drained' = drained
    BY <1>3 DEF Squelch
  <2>2. PICK space \in 1 .. SquelchBuffer - (l - d) : squelch' \in Processed(space)
    BY <1>1, <1>3 DEF Squelch
  <2>3. PICK q \in Processed(space) : squelch' = q
    BY <2>2
  <2>4. space \in Nat \ {0} /\ l + space - d <= SquelchBuffer
    BY <1>1, <1>2
  <2>5. Passed(q, a - r, space)
    BY <1>1, <2>1, <2>4, SquelchPassed DEF SquelchInv
  <2>6. PICK n \in Nat, m \in Nat : n = q.read /\ m = Len(q.items)
    BY <2>5, GoodTypes DEF Passed
  <2>7. r <= n /\ l <= m /\ m <= l + space
    BY <1>1, <2>1, <2>5, <2>6 DEF Passed
  <2>8. m - d <= SquelchBuffer
    BY <1>1, <1>2, <2>4, <2>7
  <2>9. squelch.read <= q.read /\ Len(squelch.items) <= Len(q.items)
        /\ Len(q.items) - drained <= SquelchBuffer
    BY <1>1, <2>6, <2>7, <2>8
  <2> QED BY <2>1, <2>3, <2>5, <2>9, SquelchMoves DEF Passed
<1>4. CASE Mute
  <2>1. ~squelch.gated /\ air' = air /\ drained' = drained
    BY <1>4 DEF Mute
  <2>2. PICK n \in 1 .. Min({a - r, SquelchBuffer - (l - d)}) :
          squelch' \in (CHOOSE f : f = [k \in 0 .. n |->
             IF k = 0 THEN {squelch} ELSE {PassOrMute(s) : s \in f[k - 1]}])[n]
    BY <1>1, <1>4 DEF Mute
  <2>3. SquelchBuffer - (l - d) \in Nat
    <3>1. l - d <= SquelchBuffer
      BY <1>1 DEF SquelchInv, Buffers
    <3> QED BY <1>1, <1>2, <3>1
  <2>4. a - r \in Nat
    BY <1>1
  <2>5. Min({a - r, SquelchBuffer - (l - d)})
          = IF a - r <= SquelchBuffer - (l - d) THEN a - r ELSE SquelchBuffer - (l - d)
    BY <2>3, <2>4, MinPair
  <2>6. n \in Nat \ {0} /\ n <= a - r /\ n <= SquelchBuffer - (l - d)
    BY <2>3, <2>4, <2>5
  <2>7. PICK q \in (CHOOSE f : f = [k \in 0 .. n |->
             IF k = 0 THEN {squelch} ELSE {PassOrMute(s) : s \in f[k - 1]}])[n] :
             squelch' = q
    BY <2>2
  <2>8. Passed(q, n, n)
    BY <1>1, <2>1, <2>6, MutePassed DEF SquelchInv
  <2>9. PICK z \in Nat, m \in Nat : z = q.read /\ m = Len(q.items)
    BY <2>8, GoodTypes DEF Passed
  <2>10. r <= z /\ l <= m /\ m <= l + n
    BY <1>1, <2>1, <2>8, <2>9 DEF Passed
  <2>11. m - d <= SquelchBuffer
    BY <1>1, <1>2, <2>6, <2>10
  <2>12. squelch.read <= q.read /\ Len(squelch.items) <= Len(q.items)
         /\ Len(q.items) - drained <= SquelchBuffer
    BY <1>1, <2>9, <2>10, <2>11
  <2> QED BY <2>1, <2>7, <2>8, <2>12, SquelchMoves DEF Passed
<1> QED BY <1>3, <1>4 DEF SquelchStep

\* So does another sample.
LEMMA ArriveKeeps ==
  ASSUME SquelchInv, Arrive
  PROVE  SquelchInv' /\ MarksKept
<1>1. PICK p \in Powers : air' = Append(air, p)
  BY DEF Arrive
<1>2. squelch' = squelch /\ drained' = drained
      /\ arrived < AirHorizon /\ arrived - squelch.read < SquelchInput
  BY DEF Arrive
<1>3. air \in Seq(Powers) /\ arrived \in Nat /\ AirHorizon \in Nat /\ SquelchInput \in Nat
  BY ArrivedType, ConstantFacts DEF SquelchInv, AirOK
<1>4. /\ air' \in Seq(Powers) /\ Len(air') = Len(air) + 1
      /\ \A i \in 1 .. Len(air) : air'[i] = air[i]
  BY <1>1, <1>3, AppendProperties
<1>5. arrived' = arrived + 1
  BY <1>4 DEF arrived
<1>6. AirOK'
  BY <1>2, <1>3, <1>4, <1>5 DEF AirOK
<1>7. SamplesKept
  <2>1. \A i \in 0 .. arrived - 1 : i + 1 \in 1 .. Len(air)
    BY <1>3 DEF arrived
  <2>2. \A i \in 0 .. arrived - 1 : PowerOf(i)' = PowerOf(i)
    BY <1>4, <2>1 DEF PowerOf
  <2> QED BY <1>2, <1>3, <1>5, <2>2 DEF SamplesKept
<1>8. Good(squelch)'
  <2>1. PICK s : s = squelch
    OBVIOUS
  <2>2. Good(s)
    BY <2>1 DEF SquelchInv
  <2>3. Good(s)'
    BY <1>7, <2>2, GoodKept DEF SquelchInv
  <2>4. s = squelch'
    BY <1>2, <2>1
  <2> QED BY <2>3, <2>4 DEF Good
<1>9. Len(squelch.items) \in Nat /\ squelch.read \in Nat
  BY GoodTypes DEF SquelchInv
<1>10. Buffers'
  <2>1. (arrived + 1) - squelch.read <= SquelchInput
    BY <1>2, <1>3, <1>9
  <2> QED BY <1>2, <1>5, <2>1 DEF Buffers, SquelchInv
<1>11. MarksKept
  BY <1>2, <1>9 DEF MarksKept, Starts, Ends
<1> QED BY <1>6, <1>8, <1>10, <1>11 DEF SquelchInv

-----------------------------------------------------------------------------
(***************************************************************************)
(* What follows from it for the squelch.                                   *)
(***************************************************************************)

\* The types of the squelch.
LEMMA SquelchTyped ==
  ASSUME SquelchInv
  PROVE  SquelchTypeOK
<1>1. /\ squelch.read \in Nat /\ squelch.items \in Seq(Int) /\ Len(squelch.items) \in Nat
      /\ squelch.gated \in BOOLEAN /\ squelch.trailing \in 0 .. TrailingSamples
      /\ squelch.tracker \in Trackers /\ squelch.tags \in SUBSET Tags
      /\ squelch.read <= arrived /\ arrived \in Nat
  BY GoodTypes, ArrivedType DEF SquelchInv, Good
<1>2. squelch.read \in 0 .. arrived
  BY <1>1
<1>3. Len(squelch.items) = Position(squelch.read)
  BY DEF SquelchInv, Good, Written
<1>4. ~squelch.gated => Len(squelch.items) = squelch.read
  BY <1>1, <1>3, PositionSteps
<1>5. ASSUME NEW t \in squelch.tags
      PROVE  t.off \in 0 .. Len(squelch.items) - (IF squelch.gated THEN 1 ELSE 0)
  <2>1. t \in Tags
    BY <1>1
  <2>2. t = [off |-> t.off, key |-> t.key] /\ t.key \in {"squelch_sob", "squelch_eob"}
    BY <2>1 DEF Tags
  <2>3. Starts(t.off) \/ Ends(t.off)
    BY <2>2 DEF Starts, Ends
  <2>4. PICK i \in 0 .. squelch.read - 1 :
          /\ t.off = Position(i) \/ t.off = Position(i) + Late
          /\ Open(i) \/ Follows(i)
    BY <2>3, TagFacts DEF SquelchInv
  <2>5. i \in Nat /\ i < squelch.read
    BY <1>1
  <2>6. Emits(i) /\ Position(i) \in Nat
    BY <2>4, <2>5, EmitsFacts, PositionSteps
  <2>7. Position(i) < Position(squelch.read) /\ Position(squelch.read) \in Nat
    BY <1>1, <2>5, <2>6, PositionOrder, PositionSteps
  <2>8. Late = IF squelch.gated THEN 0 ELSE 1
    BY DEF Late
  <2> QED BY <1>3, <2>4, <2>6, <2>7, <2>8
<1> QED BY <1>1, <1>2, <1>4, <1>5 DEF SquelchTypeOK, SquelchInv, AirOK, Buffers

\* The floor is the lowest power of one to two half windows.
LEMMA FloorRight ==
  ASSUME SquelchInv
  PROVE  FloorIsRecentMinimum
<1> DEFINE r == squelch.read
           k == r - Settling
           m == k % HalfWindow
<1>1. /\ r \in Nat /\ Settling \in Nat /\ HalfWindow \in Nat \ {0}
      /\ Tracks(squelch.tracker, r)
  BY GoodTypes, ConstantFacts DEF SquelchInv, Good
<1>2. CASE k <= 0
  <2>1. r <= Settling
    BY <1>1, <1>2
  <2>2. squelch.tracker.floor = FullScale
    BY <1>1, <2>1 DEF Tracks, Warmup
  <2> QED BY <1>2, <2>2 DEF FloorIsRecentMinimum
<1>3. CASE ~(k <= 0)
  <2>1. k \in Nat \ {0} /\ r >= Settling /\ r - 1 \in Nat /\ r - 1 >= Settling
        /\ (r - 1) - Settling + 1 = k /\ k # 0
    BY <1>1, <1>3
  <2>2. squelch.tracker.floor = Lowest(WindowStart(r - 1), r - 1)
    <3>1. Settled(squelch.tracker, r)
      BY <1>1, <2>1 DEF Tracks
    <3> QED BY <2>1, <3>1 DEF Settled
  <2>3. /\ WindowStart(r - 1) =
             IF m = 0 THEN (r - 1) - HalfWindow + 1
             ELSE IF k < HalfWindow THEN Settling
             ELSE ((r - 1) + 1) - m - HalfWindow
    <3> HIDE DEF r
    <3> QED BY <2>1, WindowFacts
  <2>4. m \in Nat /\ m < HalfWindow /\ m <= k /\ (k >= HalfWindow => m + HalfWindow <= k)
        /\ (k < HalfWindow => m = k)
    <3> HIDE DEF k
    <3>1. m \in Nat /\ m < HalfWindow /\ m <= k /\ (k >= HalfWindow => m + HalfWindow <= k)
      BY <1>1, <2>1, RemainderBounds
    <3>2. k < HalfWindow => m = k
      BY <1>1, <2>1, RemainderSteps
    <3> QED BY <3>1, <3>2
  <2>5. k = r - Settling
    OBVIOUS
  <2> DEFINE n == HalfWindow + m
  <2> HIDE DEF k, m
  <2>6. n \in HalfWindow .. 2 * HalfWindow - 1
    BY <1>1, <2>4
  <2>7. Min({n, k}) = IF n <= k THEN n ELSE k
    BY <1>1, <2>1, <2>4, MinPair
  <2>8. r - Min({n, k}) = WindowStart(r - 1)
    <3>1. CASE k < HalfWindow
      <4>1. m = k /\ m # 0 /\ ~(n <= k)
        BY <1>1, <2>1, <2>4, <3>1
      <4>2. WindowStart(r - 1) = Settling
        BY <2>3, <3>1, <4>1
      <4> QED BY <1>1, <2>1, <2>5, <2>7, <4>1, <4>2
    <3>2. CASE ~(k < HalfWindow)
      <4>1. n <= k
        BY <1>1, <2>1, <2>4, <3>2
      <4>2. WindowStart(r - 1) = r - m - HalfWindow
        BY <1>1, <2>3, <2>4, <3>2
      <4> QED BY <1>1, <2>4, <2>7, <4>1, <4>2
    <3> QED BY <3>1, <3>2
  <2>9. squelch.tracker.floor
          = Min({PowerOf(i) : i \in r - Min({n, k}) .. r - 1})
    BY <2>2, <2>8 DEF Lowest
  <2>10. \E x \in HalfWindow .. 2 * HalfWindow - 1 :
           squelch.tracker.floor = Min({PowerOf(i) : i \in r - Min({x, k}) .. r - 1})
    <3> HIDE DEF n
    <3> QED BY <2>6, <2>9
  <2> QED BY <1>3, <2>10 DEF FloorIsRecentMinimum, k
<1> QED BY <1>2, <1>3

\* Samples, zeros and marks are as the powers say.
LEMMA BurstsRight ==
  ASSUME SquelchInv
  PROVE  BurstsMarked
<1>1. Written(squelch.items, squelch.read)
      /\ squelch.tags = Begins(squelch.read) \cup Finishes(squelch.read)
  BY DEF SquelchInv, Good
<1> QED BY <1>1 DEF BurstsMarked, Written, Begins, Finishes, Late

-----------------------------------------------------------------------------
(***************************************************************************)
(* Bursts in the output of the squelch.                                    *)
(***************************************************************************)
\* The burst that starts at item b has not ended before item k, nor on it.
Inside(k, b) == Starts(b) /\ b \in 0 .. k /\ \A e \in b .. k : ~Ends(e)

\* Behind an open sample the first one that is not.
LEMMA Closing ==
  ASSUME NEW i \in Nat, NEW j \in Nat, i < j, Open(i), ~Open(j)
  PROVE  \E c \in i + 1 .. j : ~Open(c) /\ Follows(c)
<1> DEFINE S == {c \in i + 1 .. j : ~Open(c)}
<1>1. S \in SUBSET Nat /\ j \in S
  OBVIOUS
<1>2. PICK c \in S : \A d \in S : c <= d
  <2> HIDE DEF S
  <2> QED BY <1>1, LeastNatural
<1>3. c \in i + 1 .. j /\ ~Open(c) /\ c > 0 /\ c - 1 \in Nat
  OBVIOUS
<1>4. Open(c - 1)
  <2>1. CASE c - 1 = i
    BY <2>1
  <2>2. CASE c - 1 # i
    <3>1. c - 1 \in i + 1 .. j /\ ~(c <= c - 1)
      BY <1>3, <2>2
    <3> QED BY <1>2, <3>1
  <2> QED BY <2>1, <2>2
<1> QED BY <1>3, <1>4 DEF Follows

\* Between two starts there is an end.
LEMMA EndBetweenStarts ==
  ASSUME Good(squelch), NEW a \in Nat, NEW b \in Nat, a < b, Starts(a), Starts(b)
  PROVE  \E e \in a .. b - 1 : Ends(e)
<1>1. PICK i \in 0 .. squelch.read - 1 : Open(i) /\ ~Follows(i) /\ a = Position(i) + Late
  BY TagFacts
<1>2. PICK j \in 0 .. squelch.read - 1 : Open(j) /\ ~Follows(j) /\ b = Position(j) + Late
  BY TagFacts
<1>3. squelch.read \in Nat /\ i \in Nat /\ j \in Nat /\ squelch.gated \in BOOLEAN
  BY GoodTypes
<1>4. Emits(i) /\ Emits(j) /\ Position(i) \in Nat /\ Position(j) \in Nat
  BY <1>1, <1>2, <1>3, EmitsFacts, PositionSteps
<1>5. Late \in {0, 1}
  BY DEF Late
<1>6. i < j
  <2>1. CASE j <= i
    <3>1. Position(j) <= Position(i)
      BY <1>3, <2>1, PositionMonotone
    <3> QED BY <1>1, <1>2, <1>4, <1>5, <3>1
  <2> QED BY <1>3, <2>1
<1>7. j - 1 \in Nat /\ ~Open(j - 1) /\ i < j - 1
  <2>1. ~Open(j - 1)
    BY <1>2, <1>3, <1>6 DEF Follows
  <2>2. i # j - 1
    BY <1>1, <2>1
  <2> QED BY <1>3, <1>6, <2>1, <2>2
<1>8. PICK c \in i + 1 .. j - 1 : ~Open(c) /\ Follows(c)
  BY <1>1, <1>3, <1>7, Closing
<1>9. c \in Nat /\ i < c /\ c < j /\ c \in 0 .. squelch.read - 1
  BY <1>3
<1>10. Emits(c) /\ Position(c) \in Nat
  BY <1>8, <1>9, EmitsFacts, PositionSteps
<1>11. Position(i) < Position(c) /\ Position(c) < Position(j)
  BY <1>3, <1>4, <1>9, <1>10, PositionOrder
<1>12. Ends(Position(c))
  BY <1>8, <1>9, TagFacts
<1>13. Position(c) \in a .. b - 1
  BY <1>1, <1>2, <1>4, <1>5, <1>10, <1>11
<1> QED BY <1>12, <1>13

\* An item is inside one burst at most.
LEMMA InsideOnce ==
  ASSUME Good(squelch), NEW k \in Nat, NEW a, NEW b, Inside(k, a), Inside(k, b)
  PROVE  a = b
<1>1. /\ a \in Nat /\ b \in Nat /\ a <= k /\ b <= k /\ Starts(a) /\ Starts(b)
      /\ \A e \in a .. k : ~Ends(e)
      /\ \A e \in b .. k : ~Ends(e)
  BY DEF Inside
<1>2. CASE a < b
  <2>1. PICK e \in a .. b - 1 : Ends(e)
    BY <1>1, <1>2, EndBetweenStarts
  <2> QED BY <1>1, <2>1
<1>3. CASE b < a
  <2>1. PICK e \in b .. a - 1 : Ends(e)
    BY <1>1, <1>3, EndBetweenStarts
  <2> QED BY <1>1, <2>1
<1> QED BY <1>1, <1>2, <1>3

\* A sample behind which all to i pass, and in front of which one does not, is the
\* one the burst of i starts with.
LEMMA BurstStartIs ==
  ASSUME NEW i \in Nat, NEW b \in 0 .. i, \A k \in b .. i : Passes(k),
         b > 0 => ~Passes(b - 1)
  PROVE  BurstStart(i) = b
<1> DEFINE s == BurstStart(i)
<1>1. /\ s \in 0 .. i /\ \A k \in s .. i : Passes(k)
      /\ s > 0 => ~Passes(s - 1)
  BY DEF BurstStart
<1> HIDE DEF s
<1>2. CASE s < b
  <2>1. b - 1 \in s .. i /\ b > 0
    BY <1>1, <1>2
  <2> QED BY <1>1, <2>1
<1>3. CASE b < s
  <2>1. s - 1 \in b .. i /\ s > 0
    BY <1>1, <1>3
  <2> QED BY <1>1, <2>1
<1>4. s = b
  BY <1>1, <1>2, <1>3
<1> QED BY <1>4 DEF s

\* A burst in the output: samples one after the other, from the first of a burst on.
Run(k, b) ==
  LET first == squelch.items[b + 1]
  IN  /\ first \in Nat
      /\ \A j \in b .. k :
           /\ squelch.items[j + 1] = first + (j - b)
           /\ BurstStart(first + (j - b)) = first

\* Items inside a burst are such a run.
LEMMA InsideRuns ==
  ASSUME Good(squelch), NEW k \in Nat, k < Len(squelch.items), NEW b, Inside(k, b)
  PROVE  Run(k, b)
<1> DEFINE r == squelch.read
<1>1. /\ r \in Nat /\ Len(squelch.items) = Position(r) /\ Position(r) \in Nat
      /\ squelch.gated \in BOOLEAN
      /\ \A i \in 0 .. r - 1 :
           Emits(i) => squelch.items[Position(i) + 1] = IF Passes(i) THEN i ELSE Zero
  BY GoodTypes, PositionSteps DEF Good, Written
<1>2. b \in Nat /\ b <= k /\ Starts(b) /\ \A e \in b .. k : ~Ends(e)
  BY DEF Inside
<1>3. PICK i \in 0 .. r - 1 : Open(i) /\ ~Follows(i) /\ b = Position(i) + Late
  BY <1>2, TagFacts
<1>4. i \in Nat /\ i < r /\ Emits(i) /\ Position(i) \in Nat
  <2>1. i \in Nat /\ i < r
    BY <1>1, <1>3
  <2>2. Emits(i)
    BY <1>3, <2>1, EmitsFacts
  <2> HIDE DEF r
  <2> QED BY <2>1, <2>2, PositionSteps
\* Sample x is put out as item b + d, and passed.
<1> DEFINE first == IF squelch.gated THEN i ELSE i + 1
           At(d) == LET x == first + d
                    IN  /\ x < r /\ Position(x) = b + d /\ Emits(x) /\ Passes(x)
           S == {d \in Nat : b + d <= k => At(d)}
<1>5. first \in Nat
  BY <1>4
<1>6. 0 \in S
  <2>1. CASE squelch.gated
    <3>1. first + 0 = i /\ Late = 0 /\ Position(i) = b + 0 /\ Passes(i)
      BY <1>3, <1>4, <2>1 DEF Late, Passes
    <3> QED BY <1>4, <3>1
  <2>2. CASE ~squelch.gated
    <3>1. Late = 1 /\ Position(i) = i /\ b = i + 1 /\ first + 0 = i + 1 /\ i + 1 \in Nat
      BY <1>3, <1>4, <2>2, PositionSteps DEF Late
    <3>2. Position(i + 1) = i + 1 /\ Emits(i + 1) /\ Position(r) = r
      BY <1>1, <2>2, <3>1, PositionSteps
    <3>3. i + 1 < r
      BY <1>1, <1>2, <3>1, <3>2
    <3>4. Passes(i + 1)
      BY <1>3, <1>4, <2>2, FollowsStep DEF Passes
    <3> QED BY <3>1, <3>2, <3>3, <3>4
  <2> QED BY <1>1, <2>1, <2>2
<1>7. ASSUME NEW d \in S PROVE d + 1 \in S
  <2>1. d \in Nat /\ d + 1 \in Nat
    OBVIOUS
  <2>2. ASSUME b + (d + 1) <= k PROVE At(d + 1)
    <3>1. b + d <= k /\ At(d)
      BY <1>2, <2>1, <2>2
    <3>2. PICK x \in Nat : x = first + d
      BY <1>5, <2>1
    <3>3. x < r /\ Position(x) = b + d /\ Emits(x) /\ Passes(x)
      BY <3>1, <3>2
    <3>4. Position(x + 1) = b + (d + 1)
      <4>1. Position(x + 1) = Position(x) + 1
        BY <3>2, <3>3, PositionSteps
      <4> QED BY <1>2, <2>1, <3>3, <4>1
    <3>5. x + 1 < r
      <4>1. x + 1 # r
        BY <1>1, <1>2, <2>1, <2>2, <3>4
      <4> QED BY <1>1, <3>2, <3>3, <4>1
    <3>6. ~Ends(b + d) /\ ~Ends(b + (d + 1))
      BY <1>2, <2>1, <2>2
    <3>7. x \in 0 .. r - 1 /\ x + 1 \in 0 .. r - 1 /\ x + 1 \in Nat
      BY <1>1, <3>2, <3>3, <3>5
    <3>8. Passes(x + 1)
      <4>1. CASE squelch.gated
        <5>1. Open(x)
          BY <3>3, <4>1 DEF Passes
        <5>2. Follows(x + 1)
          BY <3>2, <5>1, FollowsStep
        <5>3. Open(x + 1)
          BY <3>4, <3>6, <3>7, <5>2, TagFacts
        <5> QED BY <4>1, <5>3 DEF Passes
      <4>2. CASE ~squelch.gated
        <5>1. Follows(x)
          BY <3>3, <4>2 DEF Passes
        <5>2. Open(x)
          BY <3>3, <3>6, <3>7, <5>1, TagFacts
        <5> QED BY <3>2, <4>2, <5>2, FollowsStep DEF Passes
      <4> QED BY <1>1, <4>1, <4>2
    <3>9. Emits(x + 1)
      BY <3>7, <3>8, EmitsFacts
    <3>10. first + (d + 1) = x + 1
      BY <1>5, <2>1, <3>2
    <3> QED BY <3>4, <3>5, <3>8, <3>9, <3>10
  <2> QED BY <2>1, <2>2
<1>8. S = Nat
  <2>1. S \in SUBSET Nat
    OBVIOUS
  <2> HIDE DEF S
  <2> QED BY <1>6, <1>7, <2>1, SetInduction
<1>9. ASSUME NEW j \in b .. k
      PROVE  /\ j - b \in Nat /\ first + (j - b) \in Nat /\ first + (j - b) < r
             /\ Passes(first + (j - b))
             /\ squelch.items[j + 1] = first + (j - b)
  <2>1. j - b \in Nat /\ b + (j - b) = j /\ j <= k
    BY <1>2
  <2>2. j - b \in S
    <3> HIDE DEF S
    <3> QED BY <1>8, <2>1
  <2>3. At(j - b)
    BY <2>1, <2>2
  <2>4. PICK x \in Nat : x = first + (j - b)
    BY <1>5, <2>1
  <2>5. x < r /\ Position(x) = j /\ Emits(x) /\ Passes(x)
    BY <2>1, <2>3, <2>4
  <2>6. x \in 0 .. r - 1
    BY <1>1, <2>4, <2>5
  <2> QED BY <1>1, <2>1, <2>4, <2>5, <2>6
<1>10. first > 0 => ~Passes(first - 1)
  <2>1. CASE squelch.gated
    BY <1>3, <1>4, <2>1 DEF Passes, Follows
  <2>2. CASE ~squelch.gated
    BY <1>3, <1>4, <2>2 DEF Passes
  <2> QED BY <1>1, <2>1, <2>2
<1> HIDE DEF first, S, r
<1>11. squelch.items[b + 1] = first
  <2>1. b \in b .. k
    BY <1>2
  <2>2. squelch.items[b + 1] = first + (b - b)
    BY <1>9, <2>1
  <2> QED BY <1>2, <1>5, <2>2
<1>12. ASSUME NEW j \in b .. k PROVE BurstStart(first + (j - b)) = first
  <2>1. PICK x \in Nat : x = first + (j - b) /\ first <= x
    BY <1>5, <1>9
  <2>2. ASSUME NEW y \in first .. x PROVE Passes(y)
    <3>1. PICK z \in b .. k : y = first + (z - b)
      <4>1. b + (y - first) \in b .. k /\ y = first + ((b + (y - first)) - b)
        BY <1>2, <1>5, <2>1
      <4> QED BY <4>1
    <3> QED BY <1>9, <3>1
  <2>3. first \in 0 .. x
    BY <1>5, <2>1
  <2> QED BY <1>10, <2>1, <2>2, <2>3, BurstStartIs
<1> QED BY <1>5, <1>9, <1>11, <1>12 DEF Run

\* A sample in the output that has no end mark is inside a burst.
LEMMA SampleInside ==
  ASSUME Good(squelch), NEW k \in Nat, k < Len(squelch.items), ~Ends(k),
         squelch.items[k + 1] # Zero
  PROVE  \E b \in 0 .. k : Inside(k, b)
<1> DEFINE r == squelch.read
<1>1. /\ r \in Nat /\ Len(squelch.items) = Position(r) /\ Position(r) \in Nat
      /\ squelch.gated \in BOOLEAN
      /\ \A i \in 0 .. r - 1 :
           Emits(i) => squelch.items[Position(i) + 1] = IF Passes(i) THEN i ELSE Zero
  BY GoodTypes, PositionSteps DEF Good, Written
<1>2. PICK i \in 0 .. r - 1 : Emits(i) /\ Position(i) = k
  <2> HIDE DEF r
  <2> QED BY <1>1, PositionOnto
<1>3. i \in Nat /\ i < r /\ Passes(i)
  BY <1>1, <1>2
\* The sample that opened the squelch for this burst.
<1> DEFINE o == IF squelch.gated THEN i ELSE i - 1
           T == {j \in 0 .. o : \A x \in j .. o : Open(x)}
<1>4. o \in Nat /\ o <= i /\ Open(o) /\ o < r
  BY <1>1, <1>3 DEF Passes, Follows
<1>5. T \in SUBSET Nat /\ o \in T
  BY <1>4
<1>6. PICK s \in T : \A j \in T : s <= j
  <2> HIDE DEF T, o
  <2> QED BY <1>5, LeastNatural
<1>7. s \in 0 .. o /\ s \in Nat /\ \A x \in s .. o : Open(x)
  BY <1>4
<1> HIDE DEF o
<1>8. ~Follows(s)
  <2>1. ASSUME s > 0, Open(s - 1) PROVE FALSE
    <3>1. \A x \in s - 1 .. o : x = s - 1 \/ x \in s .. o
      BY <1>7
    <3>2. s - 1 \in T /\ ~(s <= s - 1)
      BY <1>4, <1>7, <2>1, <3>1
    <3> HIDE DEF T
    <3> QED BY <1>6, <3>2
  <2> QED BY <2>1 DEF Follows
<1> DEFINE b == Position(s) + Late
<1>9. s \in 0 .. r - 1 /\ Open(s) /\ Emits(s) /\ Position(s) \in Nat /\ Late \in {0, 1}
  <2>1. s \in 0 .. r - 1 /\ s \in s .. o
    BY <1>1, <1>4, <1>7
  <2>2. Open(s)
    BY <1>7, <2>1
  <2>3. Emits(s)
    BY <1>7, <2>2, EmitsFacts
  <2>4. Position(s) \in Nat
    BY <1>7, PositionSteps
  <2> QED BY <2>1, <2>2, <2>3, <2>4 DEF Late
<1>10. Starts(b) /\ b \in Nat
  BY <1>8, <1>9, TagFacts
<1>11. b <= k
  <2>1. CASE squelch.gated
    <3>1. s <= i /\ Late = 0
      BY <1>4, <1>7, <2>1 DEF Late
    <3>2. Position(s) <= Position(i)
      BY <1>3, <1>7, <3>1, PositionMonotone
    <3> QED BY <1>2, <1>9, <3>1, <3>2
  <2>2. CASE ~squelch.gated
    <3>1. Position(s) = s /\ Position(i) = i /\ Late = 1
      BY <1>3, <1>7, <2>2, PositionSteps DEF Late
    <3>2. o = i - 1
      BY <2>2 DEF o
    <3> QED BY <1>2, <1>3, <1>7, <3>1, <3>2
  <2> QED BY <1>1, <2>1, <2>2
<1>12. ASSUME NEW e \in b .. k, Ends(e) PROVE FALSE
  <2>1. PICK x \in 0 .. r - 1 : ~Open(x) /\ Follows(x) /\ e = Position(x)
    BY <1>12, TagFacts
  <2>2. x \in Nat /\ Emits(x) /\ Position(x) \in Nat
    BY <1>1, <2>1, EmitsFacts, PositionSteps
  <2>3. s <= x
    <3>1. ASSUME x < s PROVE FALSE
      <4>1. Position(x) < Position(s)
        BY <1>7, <2>2, <3>1, PositionOrder
      <4> QED BY <1>9, <1>10, <2>1, <2>2, <4>1
    <3> QED BY <1>7, <2>2, <3>1
  <2>4. x <= i
    <3>1. ASSUME i < x PROVE FALSE
      <4>1. Position(i) < Position(x)
        BY <1>2, <1>3, <2>2, <3>1, PositionOrder
      <4> QED BY <1>2, <2>1, <2>2, <4>1
    <3> QED BY <1>3, <2>2, <3>1
  <2>5. ~(x <= o)
    BY <1>4, <1>7, <2>1, <2>2, <2>3
  <2>6. ~squelch.gated /\ x = i
    <3>1. squelch.gated => o = i
      BY DEF o
    <3>2. ~squelch.gated => o = i - 1
      BY DEF o
    <3> QED BY <1>1, <1>3, <2>2, <2>4, <2>5, <3>1, <3>2
  <2> QED BY <1>2, <1>12, <2>1, <2>6
<1>13. b \in 0 .. k
  BY <1>10, <1>11
<1> HIDE DEF b
<1>14. Inside(k, b)
  BY <1>10, <1>12, <1>13 DEF Inside
<1> QED BY <1>13, <1>14

\* The item behind a burst of the gated squelch is a zero.
LEMMA EndIsZero ==
  ASSUME Good(squelch), squelch.gated, NEW k, Ends(k)
  PROVE  squelch.items[k + 1] = Zero
<1>1. PICK i \in 0 .. squelch.read - 1 : ~Open(i) /\ Follows(i) /\ k = Position(i)
  BY TagFacts
<1>2. i \in Nat
  BY GoodTypes
<1>3. Emits(i) /\ ~Passes(i)
  BY <1>1, <1>2, EmitsFacts DEF Passes
<1> QED BY <1>1, <1>3 DEF Good, Written

-----------------------------------------------------------------------------
(***************************************************************************)
(* The DC correction's part of the inductive invariant.                    *)
(***************************************************************************)
\* What may be subtracted from item k: inside a burst, nothing until the samples
\* to estimate from are through and exactly those from then on; nothing outside
\* of the bursts, and anything from before on an item with an end mark.
Item(k, offsets) ==
  /\ offsets = D!Stale \/ offsets \subseteq 0 .. k - 1
  /\ ~Ends(k) =>
       /\ \A b \in 0 .. k : Inside(k, b) =>
            offsets = IF k < b + EstimationLength THEN {}
                      ELSE b .. (b + EstimationLength) - 1
       /\ (\A b \in 0 .. k : ~Inside(k, b)) => offsets = {}

\* The state in front of item n: outside of the bursts, every burst begun has
\* ended, on item n at the latest; inside, the burst is the one that begins at
\* start, and the estimate is of its first items.
DcState(c, n) ==
  /\ c \in [state : {"no_signal", "estimating", "correcting"},
            estimate : SUBSET (0 .. n - 1), start : 0 .. Len(squelch.items)]
  /\ Cardinality(c.estimate) <= EstimationLength
  /\ c.state = "no_signal" =>
       \A b \in 0 .. n - 1 : Starts(b) => \E e \in b .. n : Ends(e)
  /\ c.state # "no_signal" =>
       /\ Starts(c.start) /\ c.start <= n /\ c.start < Len(squelch.items)
       /\ \A e \in c.start .. n - 1 : ~Ends(e)
  /\ c.state = "estimating" =>
       c.estimate = c.start .. n - 1 /\ n < c.start + EstimationLength
  /\ c.state = "correcting" =>
       /\ c.estimate = c.start .. (c.start + EstimationLength) - 1
       /\ c.start + EstimationLength <= n

Corrects(f, c, n) ==
  /\ n \in Nat /\ n <= Len(squelch.items)
  /\ DOMAIN f = 0 .. n - 1
  /\ \A k \in 0 .. n - 1 : Item(k, f[k])
  /\ DcState(c, n)

DcInv == Corrects(corrected, dc, D!done)

\* The operators of the module the correction is an instance of are the same.
LEMMA SameOperators ==
  /\ D!done = Cardinality(DOMAIN corrected)
  /\ \A S : D!Min(S) = Min(S)
  /\ \A S : D!Cardinality(S) = Cardinality(S)
<1>1. \A S : D!Cardinality(S) = Cardinality(S)
  BY DEF D!Cardinality, Cardinality
<1>2. \A S : D!Min(S) = Min(S)
  BY DEF D!Min, Min
<1>3. D!done = Cardinality(DOMAIN corrected)
  BY <1>1 DEF D!done
<1> QED BY <1>1, <1>2, <1>3

\* How many numbers there are from a to b.
LEMMA IntervalSize ==
  ASSUME NEW a \in Nat, NEW b \in Nat, a <= b
  PROVE  Cardinality(a .. b - 1) = b - a /\ IsFiniteSet(a .. b - 1)
<1>1. Cardinality(a .. b - 1) = IF a > b - 1 THEN 0 ELSE (b - 1) - a + 1
  BY FS_Interval
<1>2. IsFiniteSet(a .. b - 1)
  BY FS_Interval
<1>3. (IF a > b - 1 THEN 0 ELSE (b - 1) - a + 1) = b - a
  OBVIOUS
<1> QED BY <1>1, <1>2, <1>3

\* What the squelch adds later is not about the items the correction has read.
LEMMA CorrectsKept ==
  ASSUME Good(squelch), MarksKept, NEW f, NEW c, NEW n, Corrects(f, c, n)
  PROVE  Corrects(f, c, n)'
<1>1. PICK l \in Nat : l = Len(squelch.items)
  BY GoodTypes
<1>2. PICK m \in Nat : m = Len(squelch.items)' /\ l <= m
  BY <1>1 DEF MarksKept
<1>3. n \in Nat /\ n <= l /\ n <= m
  BY <1>1, <1>2 DEF Corrects
<1>4. \A k \in 0 .. l - 1 : (Starts(k)' <=> Starts(k)) /\ (Ends(k)' <=> Ends(k))
  BY <1>1 DEF MarksKept
<1>5. ASSUME NEW k \in 0 .. n - 1 PROVE Item(k, f[k])'
  <2>1. Item(k, f[k]) /\ k \in 0 .. l - 1
    BY <1>3 DEF Corrects
  <2>2. \A b \in 0 .. k : Inside(k, b)' <=> Inside(k, b)
    <3>1. ASSUME NEW b \in 0 .. k PROVE Inside(k, b)' <=> Inside(k, b)
      <4>1. \A e \in b .. k : e \in 0 .. l - 1
        BY <2>1
      <4> QED BY <1>4, <2>1, <4>1 DEF Inside
    <3> QED BY <3>1
  <2>3. Ends(k)' <=> Ends(k)
    BY <1>4, <2>1
  <2>4. D!Stale' = D!Stale
    BY DEF D!Stale
  <2> QED BY <2>1, <2>2, <2>3, <2>4 DEF Item
<1>6. DcState(c, n)'
  <2>1. DcState(c, n)
    BY DEF Corrects
  <2>2. c.start \in 0 .. m
    BY <1>1, <1>2, <2>1 DEF DcState
  <2>3. c \in [state : {"no_signal", "estimating", "correcting"},
               estimate : SUBSET (0 .. n - 1), start : 0 .. m]
    BY <2>1, <2>2 DEF DcState
  <2>4. ASSUME c.state = "no_signal", NEW b \in 0 .. n - 1, Starts(b)'
        PROVE  \E e \in b .. n : Ends(e)'
    <3>1. b \in 0 .. l - 1
      BY <1>3
    <3>2. Starts(b)
      BY <1>4, <2>4, <3>1
    <3>3. PICK e \in b .. n : Ends(e)
      BY <2>1, <2>4, <3>2 DEF DcState
    <3>4. e \in Nat
      BY <3>1
    <3>5. Ends(e)'
      BY <3>3, <3>4 DEF MarksKept
    <3> QED BY <3>5
  <2>5. ASSUME c.state # "no_signal"
        PROVE  /\ Starts(c.start)' /\ c.start <= n /\ c.start < m
               /\ \A e \in c.start .. n - 1 : ~Ends(e)'
    <3>1. /\ Starts(c.start) /\ c.start <= n /\ c.start < l
          /\ \A e \in c.start .. n - 1 : ~Ends(e)
      BY <1>1, <2>1, <2>5 DEF DcState
    <3>2. PICK s \in Nat : s = c.start
      BY <2>2
    <3>3. s \in 0 .. l - 1 /\ s < m /\ \A e \in s .. n - 1 : e \in 0 .. l - 1
      BY <1>2, <1>3, <3>1, <3>2
    <3> QED BY <1>4, <3>1, <3>2, <3>3
  <2>6. /\ Cardinality(c.estimate) <= EstimationLength
        /\ c.state = "estimating" =>
             c.estimate = c.start .. n - 1 /\ n < c.start + EstimationLength
        /\ c.state = "correcting" =>
             /\ c.estimate = c.start .. (c.start + EstimationLength) - 1
             /\ c.start + EstimationLength <= n
    BY <2>1 DEF DcState
  <2> QED BY <1>2, <2>3, <2>4, <2>5, <2>6 DEF DcState
<1>7. DOMAIN f = 0 .. n - 1
  BY DEF Corrects
<1> QED BY <1>2, <1>3, <1>5, <1>6, <1>7 DEF Corrects

\* So a step of the squelch keeps the correction's part of the invariant.
LEMMA DcKept ==
  ASSUME Good(squelch), MarksKept, corrected' = corrected, dc' = dc, DcInv
  PROVE  DcInv'
<1>1. PICK f, c, n : f = corrected /\ c = dc /\ n = D!done
  OBVIOUS
<1>2. Corrects(f, c, n)'
  BY <1>1, CorrectsKept DEF DcInv
<1>3. f = corrected' /\ c = dc' /\ n = D!done'
  <2>1. D!done' = D!done
    BY DEF D!done
  <2> QED BY <1>1, <2>1
<1> QED BY <1>2, <1>3 DEF DcInv, Corrects

\* Offsets are those of the items next in line that have the tag.
LEMMA OffsetsAre ==
  ASSUME Good(squelch), NEW n, NEW key
  PROVE  D!Offsets(key, n)
           = {k \in D!done .. D!done + n - 1 : [off |-> k, key |-> key] \in squelch.tags}
<1>1. squelch.tags \in SUBSET Tags
  BY GoodTypes
<1>2. \A t \in squelch.tags : t = [off |-> t.off, key |-> t.key]
  BY <1>1 DEF Tags
<1> QED BY <1>2 DEF D!Offsets

\* Producing n items keeps the invariant if each gets what is right for it and the
\* new state is one in front of the item that follows.
LEMMA Produced ==
  ASSUME DcInv, Good(squelch), squelch' = squelch, NEW d \in Nat, d = D!done,
         NEW n \in Nat, d + n <= Len(squelch.items), NEW offsets, NEW next,
         D!Produce(n, offsets, next), DcState(next, d + n),
         \A k \in d .. d + n - 1 : Item(k, offsets)
  PROVE  DcInv' /\ D!done <= D!done'
<1>1. PICK f, g : f = corrected /\ g = corrected'
  OBVIOUS
<1>2. g = [k \in 0 .. d + n - 1 |-> IF k < d THEN f[k] ELSE offsets] /\ dc' = next
  BY <1>1 DEF D!Produce
<1>3. d + n \in Nat /\ DOMAIN g = 0 .. d + n - 1
  BY <1>2
<1>4. Corrects(g, next, d + n)
  <2>1. ASSUME NEW k \in 0 .. d + n - 1 PROVE Item(k, g[k])
    <3>1. CASE k < d
      <4>1. k \in 0 .. d - 1
        BY <3>1
      <4>2. Item(k, f[k])
        BY <1>1, <4>1 DEF DcInv, Corrects
      <4> QED BY <1>2, <3>1, <4>2
    <3>2. CASE ~(k < d)
      <4>1. k \in d .. d + n - 1
        BY <3>2
      <4> QED BY <1>2, <3>2, <4>1
    <3> QED BY <3>1, <3>2
  <2> QED BY <1>3, <2>1 DEF Corrects
<1>5. MarksKept
  BY GoodTypes DEF MarksKept, Starts, Ends
<1>6. PICK z \in Nat : z = d + n
  BY <1>3
<1>7. Corrects(g, next, z)'
  BY <1>4, <1>5, <1>6, CorrectsKept
<1>8. D!done' = z
  <2>1. D!done' = Cardinality(DOMAIN corrected')
    BY DEF D!done, D!Cardinality, Cardinality
  <2>2. Cardinality(0 .. z - 1) = z - 0
    BY IntervalSize
  <2> QED BY <1>1, <1>3, <1>6, <2>1, <2>2
<1>9. DcInv'
  BY <1>1, <1>2, <1>7, <1>8 DEF DcInv, Corrects
<1> QED BY <1>6, <1>8, <1>9

\* Outside of the bursts.
LEMMA SeekSignalKeeps ==
  ASSUME DcInv, Good(squelch), squelch' = squelch, NEW n \in Nat, n > 0,
         D!done + n <= Len(squelch.items), D!SeekSignal(n)
  PROVE  DcInv' /\ D!done <= D!done'
<1>1. PICK d \in Nat : d = D!done
  BY DEF DcInv, Corrects
<1> DEFINE starts == D!Offsets("squelch_sob", n)
<1>2. starts = {k \in d .. d + n - 1 : Starts(k)}
  BY <1>1, OffsetsAre DEF Starts
<1>3. dc.state = "no_signal" /\ DcState(dc, d)
  BY <1>1 DEF D!SeekSignal, DcInv, Corrects
<1>4. \A b \in 0 .. d - 1 : Starts(b) => \E e \in b .. d : Ends(e)
  BY <1>3 DEF DcState
<1>5. PICK l \in Nat : l = Len(squelch.items) /\ d + n <= l
  BY <1>1, GoodTypes
<1>6. D!Copied = {} /\ EstimationLength \in Nat \ {0}
  BY EstimationConstant DEF D!Copied
\* Items up to the next start are outside of the bursts.
<1>7. ASSUME NEW m \in Nat, m <= n, \A k \in starts : d + m <= k
      PROVE  \A k \in d .. d + m - 1 : Item(k, {})
  <2>1. ASSUME NEW k \in d .. d + m - 1, ~Ends(k), NEW b \in 0 .. k PROVE ~Inside(k, b)
    <3>1. CASE b < d
      <4>1. ASSUME Starts(b) PROVE \E e \in b .. k : Ends(e)
        <5>1. PICK e \in b .. d : Ends(e)
          BY <1>4, <3>1, <4>1
        <5> QED BY <5>1
      <4> QED BY <4>1 DEF Inside
    <3>2. CASE ~(b < d)
      <4>1. b \in d .. d + n - 1 /\ ~(d + m <= b)
        BY <1>7, <2>1, <3>2
      <4>2. ~Starts(b)
        <5> HIDE DEF starts
        <5> QED BY <1>2, <1>7, <4>1
      <4> QED BY <4>2 DEF Inside
    <3> QED BY <3>1, <3>2
  <2> QED BY <2>1 DEF Item
<1>8. CASE starts = {}
  <2>1. D!Produce(n, {}, dc)
    BY <1>6, <1>8 DEF D!SeekSignal
  <2>2. \A k \in d .. d + n - 1 : Item(k, {})
    <3> HIDE DEF starts
    <3> QED BY <1>7, <1>8
  <2>3. DcState(dc, d + n)
    <3>1. ASSUME NEW b \in 0 .. d + n - 1, Starts(b) PROVE \E e \in b .. d + n : Ends(e)
      <4>1. b < d
        <5>1. b \notin d .. d + n - 1
          <6> HIDE DEF starts
          <6> QED BY <1>2, <1>8, <3>1
        <5> QED BY <5>1
      <4>2. PICK e \in b .. d : Ends(e)
        BY <1>4, <3>1, <4>1
      <4> QED BY <4>2
    <3>2. dc.estimate \in SUBSET (0 .. d + n - 1)
      <4>1. dc.estimate \in SUBSET (0 .. d - 1)
        BY <1>3 DEF DcState
      <4>2. 0 .. d - 1 \subseteq 0 .. d + n - 1
        OBVIOUS
      <4> QED BY <4>1, <4>2
    <3> QED BY <1>3, <3>1, <3>2 DEF DcState
  <2> QED BY <1>1, <2>1, <2>2, <2>3, Produced
<1>9. CASE starts # {}
  <2>1. PICK s \in starts : s = Min(starts) /\ \A k \in starts : s <= k
    <3>1. starts \in SUBSET Nat
      <4> HIDE DEF starts
      <4> QED BY <1>2
    <3> HIDE DEF starts
    <3> QED BY <1>9, <3>1, MinFacts
  <2>2. s \in d .. d + n - 1 /\ Starts(s)
    <3> HIDE DEF starts
    <3> QED BY <1>2
  <2>3. PICK m \in Nat : m = s - d /\ d + m = s /\ m <= n
    <3>1. s - d \in Nat /\ d + (s - d) = s /\ s - d <= n
      BY <2>2
    <3> QED BY <3>1
  <2> DEFINE next == [state |-> "estimating", estimate |-> {}, start |-> s]
  <2>4. D!Produce(m, {}, next)
    <3>1. D!Produce(D!Min(starts) - D!done, D!Copied, D!StartEstimation(D!Min(starts)))
      BY <1>9 DEF D!SeekSignal
    <3>2. D!Min(starts) = s
      BY <2>1, SameOperators
    <3>3. D!StartEstimation(s) = next
      BY DEF D!StartEstimation
    <3> HIDE DEF starts, next
    <3> QED BY <1>1, <1>6, <2>3, <3>1, <3>2, <3>3
  <2>5. \A k \in d .. d + m - 1 : Item(k, {})
    <3> HIDE DEF starts
    <3> QED BY <1>7, <2>1, <2>3
  <2>6. DcState(next, d + m)
    <3>1. Cardinality({}) = 0
      BY FS_EmptySet
    <3>2. s \in 0 .. l /\ s < l
      BY <1>5, <2>2
    <3>3. next \in [state : {"no_signal", "estimating", "correcting"},
                    estimate : SUBSET (0 .. s - 1), start : 0 .. l]
      BY <3>2
    <3>4. {} = s .. s - 1 /\ s < s + EstimationLength
      BY <1>6, <2>2
    <3>5. \A e \in s .. s - 1 : ~Ends(e)
      BY <2>2
    <3>6. 0 <= EstimationLength /\ s <= s
      BY <1>6, <2>2
    <3> QED BY <1>5, <2>2, <2>3, <3>1, <3>2, <3>3, <3>4, <3>5, <3>6 DEF DcState
  <2>7. d + m <= Len(squelch.items)
    BY <1>5, <2>3
  <2> HIDE DEF next
  <2> QED BY <1>1, <2>4, <2>5, <2>6, <2>7, Produced
<1> QED BY <1>8, <1>9

\* On the item with the end mark.
LEMMA LostAtStartKeeps ==
  ASSUME DcInv, Good(squelch), squelch' = squelch, NEW n \in Nat, n > 0,
         D!done + n <= Len(squelch.items), D!LostAtStart(n)
  PROVE  DcInv' /\ D!done <= D!done'
<1>1. PICK d \in Nat : d = D!done
  BY DEF DcInv, Corrects
<1>2. Ends(d)
  BY <1>1, OffsetsAre DEF D!LostAtStart, Ends
<1>3. PICK next : next = [dc EXCEPT !.state = "no_signal"]
  OBVIOUS
<1>4. D!Produce(1, D!Stale, next)
  BY <1>3 DEF D!LostAtStart
<1>5. \A k \in d .. (d + 1) - 1 : Item(k, D!Stale)
  <2>1. \A k \in d .. (d + 1) - 1 : k = d
    OBVIOUS
  <2> QED BY <1>2, <2>1 DEF Item
<1>6. DcState(next, d + 1)
  <2>1. DcState(dc, d)
    BY <1>1 DEF DcInv, Corrects
  <2>2. dc.estimate \in SUBSET (0 .. (d + 1) - 1)
    <3>1. dc.estimate \in SUBSET (0 .. d - 1)
      BY <2>1 DEF DcState
    <3>2. 0 .. d - 1 \subseteq 0 .. (d + 1) - 1
      OBVIOUS
    <3> QED BY <3>1, <3>2
  <2>3. /\ next \in [state : {"no_signal", "estimating", "correcting"},
                     estimate : SUBSET (0 .. (d + 1) - 1), start : 0 .. Len(squelch.items)]
        /\ next.state = "no_signal" /\ next.estimate = dc.estimate
    BY <1>3, <2>1, <2>2 DEF DcState
  <2>4. ASSUME NEW b \in 0 .. (d + 1) - 1 PROVE \E e \in b .. d + 1 : Ends(e)
    <3>1. d \in b .. d + 1
      OBVIOUS
    <3> QED BY <1>2, <3>1
  <2>5. Cardinality(next.estimate) <= EstimationLength
    BY <2>1, <2>3 DEF DcState
  <2> QED BY <2>3, <2>4, <2>5 DEF DcState
<1>7. d + 1 <= Len(squelch.items)
  BY <1>1, GoodTypes
<1> QED BY <1>1, <1>4, <1>5, <1>6, <1>7, Produced

\* Inside a burst: u items can be used, behind which it ends or not.  No burst
\* begins on them, so nothing is renewed.
Used(d, n, u, lost) ==
  /\ u \in Nat \ {0} /\ u <= n /\ lost \in BOOLEAN
  /\ \A e \in d .. d + u - 1 : ~Ends(e)
  /\ lost => Ends(d + u)
  /\ D!Usable(n) = [n |-> u, lost |-> lost, dc |-> dc]

\* The squelch ends a burst before it starts another, so of n items those up to the
\* next end are used.
LEMMA UsableIs ==
  ASSUME DcInv, Good(squelch), NEW d \in Nat, d = D!done, NEW n \in Nat, n > 0,
         d + n <= Len(squelch.items), D!InBurst(n)
  PROVE  \E u \in Nat, lost \in BOOLEAN : Used(d, n, u, lost)
<1> DEFINE ends == D!Offsets("squelch_eob", n)
<1>1. ends = {k \in d .. d + n - 1 : Ends(k)}
  BY OffsetsAre DEF Ends
<1>2. d \notin ends /\ dc.state # "no_signal"
  BY DEF D!InBurst
<1>3. PICK s \in Nat : /\ s = dc.start /\ Starts(s) /\ s <= d
                       /\ \A e \in s .. d - 1 : ~Ends(e)
  <2>1. DcState(dc, d)
    BY DEF DcInv, Corrects
  <2> QED BY <1>2, <2>1, GoodTypes DEF DcState
<1>4. PICK u \in Nat \ {0} :
        /\ u <= n /\ u = IF ends = {} THEN n ELSE D!Min(ends) - D!done
        /\ \A e \in d .. d + u - 1 : ~Ends(e)
        /\ ends # {} => Ends(d + u)
  <2>1. CASE ends = {}
    <3>1. \A e \in d .. d + n - 1 : ~Ends(e)
      <4> HIDE DEF ends
      <4> QED BY <1>1, <2>1
    <3> QED BY <2>1, <3>1
  <2>2. CASE ends # {}
    <3>1. ends \in SUBSET Nat
      <4> HIDE DEF ends
      <4> QED BY <1>1
    <3>2. PICK m : m = D!Min(ends) /\ m \in ends /\ \A k \in ends : m <= k
      <4>1. D!Min(ends) = Min(ends)
        BY SameOperators
      <4> HIDE DEF ends
      <4> QED BY <2>2, <3>1, <4>1, MinFacts
    <3>3. m \in d .. d + n - 1 /\ Ends(m) /\ m # d
      <4> HIDE DEF ends
      <4> QED BY <1>1, <1>2, <3>2
    <3>4. \A e \in d .. m - 1 : ~Ends(e)
      <4>1. \A e \in d .. m - 1 : e \in d .. d + n - 1 /\ ~(m <= e)
        BY <3>3
      <4> HIDE DEF ends
      <4> QED BY <1>1, <3>2, <4>1
    <3>5. m - d \in Nat \ {0} /\ d + (m - d) = m /\ m - d <= n
          /\ d + (m - d) - 1 = m - 1
      BY <3>3
    <3>6. \A e \in d .. d + (m - d) - 1 : ~Ends(e)
      BY <3>4, <3>5
    <3>7. Ends(d + (m - d))
      BY <3>3, <3>5
    <3> HIDE DEF ends
    <3> QED BY <2>2, <3>2, <3>5, <3>6, <3>7
  <2> QED BY <2>1, <2>2
<1> DEFINE lost == ends # {}
           restarts == {k \in D!Offsets("squelch_sob", u) : k > dc.start}
<1>5. restarts = {}
  <2>1. D!Offsets("squelch_sob", u) = {k \in d .. d + u - 1 : Starts(k)}
    BY OffsetsAre DEF Starts
  <2>2. ASSUME NEW k \in d .. d + u - 1, Starts(k), k > s PROVE FALSE
    <3>1. PICK e \in s .. k - 1 : Ends(e)
      BY <1>3, <2>2, EndBetweenStarts
    <3>2. e \in s .. d - 1 \/ e \in d .. d + u - 1
      BY <1>3, <1>4, <2>2, <3>1
    <3> QED BY <1>3, <1>4, <3>1, <3>2
  <2> QED BY <1>3, <2>1, <2>2
<1>6. D!Usable(n) = [n |-> u, lost |-> lost, dc |-> dc]
  <2>1. (IF ends = {} THEN n ELSE D!Min(ends) - D!done) = u
    BY <1>4
  <2>2. {k \in D!Offsets("squelch_sob", IF ends = {} THEN n ELSE D!Min(ends) - D!done) :
           k > dc.start} = {}
    <3> HIDE DEF ends
    <3> QED BY <1>5, <2>1
  <2> QED BY <2>1, <2>2 DEF D!Usable
<1>7. Used(d, n, u, lost)
  <2> HIDE DEF ends
  <2> QED BY <1>4, <1>6 DEF Used
<1> QED BY <1>7

\* Items of the burst the correction is in get what its state says.
LEMMA BurstItem ==
  ASSUME Good(squelch), NEW k \in Nat, NEW s, Inside(k, s),
         NEW offsets, offsets \subseteq 0 .. k - 1,
         offsets = IF k < s + EstimationLength THEN {}
                   ELSE s .. (s + EstimationLength) - 1
  PROVE  Item(k, offsets)
<1>1. s \in 0 .. k
  BY DEF Inside
<1>2. \A b \in 0 .. k : Inside(k, b) => b = s
  BY InsideOnce
<1> QED BY <1>1, <1>2 DEF Item

\* A burst's end behind the items used: the correction is outside of the bursts.
LEMMA LostState ==
  ASSUME NEW d \in Nat, NEW u \in Nat, Ends(d + u),
         d + u <= Len(squelch.items), DcState(dc, d)
  PROVE  DcState([dc EXCEPT !.state = "no_signal"], d + u)
<1>1. PICK next : next = [dc EXCEPT !.state = "no_signal"]
  OBVIOUS
<1>2. PICK z \in Nat : z = d + u /\ d <= z
  OBVIOUS
<1>3. dc.estimate \in SUBSET (0 .. z - 1)
  <2>1. dc.estimate \in SUBSET (0 .. d - 1)
    BY DEF DcState
  <2>2. 0 .. d - 1 \subseteq 0 .. z - 1
    BY <1>2
  <2> QED BY <2>1, <2>2
<1>4. /\ next \in [state : {"no_signal", "estimating", "correcting"},
                   estimate : SUBSET (0 .. z - 1), start : 0 .. Len(squelch.items)]
      /\ next.state = "no_signal" /\ next.estimate = dc.estimate
  BY <1>1, <1>3 DEF DcState
<1>5. \A b \in 0 .. z - 1 : \E e \in b .. z : Ends(e)
  <2>1. \A b \in 0 .. z - 1 : z \in b .. z
    OBVIOUS
  <2> QED BY <1>2, <2>1
<1>6. Cardinality(next.estimate) <= EstimationLength
  BY <1>4 DEF DcState
<1> QED BY <1>1, <1>2, <1>4, <1>5, <1>6 DEF DcState

\* In a burst, while estimating.
LEMMA EstimateKeeps ==
  ASSUME DcInv, Good(squelch), squelch' = squelch, NEW n \in Nat, n > 0,
         D!done + n <= Len(squelch.items), D!Estimate(n)
  PROVE  DcInv' /\ D!done <= D!done'
<1>1. PICK d \in Nat : d = D!done
  BY DEF DcInv, Corrects
<1>2. D!InBurst(n)
  BY DEF D!Estimate
<1>3. PICK v \in Nat, lost \in BOOLEAN : Used(d, n, v, lost)
  BY <1>1, <1>2, UsableIs
<1>4. /\ v \in Nat \ {0} /\ v <= n
      /\ \A e \in d .. d + v - 1 : ~Ends(e)
      /\ lost => Ends(d + v)
      /\ D!Usable(n) = [n |-> v, lost |-> lost, dc |-> dc]
  BY <1>3 DEF Used
<1>5. PICK l \in Nat : l = Len(squelch.items) /\ d + n <= l
  BY <1>1, GoodTypes
<1>6. PICK L \in Nat \ {0} : L = EstimationLength
  BY EstimationConstant
<1>7. dc.state = "estimating" /\ DcState(dc, d)
  BY <1>1, <1>4 DEF D!Estimate, DcInv, Corrects
<1>8. PICK s \in Nat : /\ s = dc.start /\ Starts(s) /\ s <= d /\ s < l
                       /\ \A e \in s .. d - 1 : ~Ends(e)
                       /\ dc.estimate = s .. d - 1 /\ d < s + L
  BY <1>5, <1>6, <1>7, GoodTypes DEF DcState
<1>9. PICK missing \in Nat \ {0} :
        missing = EstimationLength - D!Cardinality(dc.estimate) /\ d + missing = s + L
  <2>1. D!Cardinality(dc.estimate) = d - s
    BY <1>8, IntervalSize, SameOperators
  <2>2. L - (d - s) \in Nat \ {0} /\ d + (L - (d - s)) = s + L
    BY <1>8
  <2> QED BY <1>6, <2>1, <2>2
\* The items used are inside the burst and not behind the estimate.
<1>10. ASSUME NEW w \in Nat, w <= v, w <= missing
       PROVE  \A k \in d .. d + w - 1 : Item(k, {})
  <2>1. ASSUME NEW k \in d .. d + w - 1 PROVE Item(k, {})
    <3>1. k \in Nat /\ s \in 0 .. k /\ k < s + EstimationLength
      BY <1>6, <1>8, <1>9, <1>10
    <3>2. \A e \in s .. k : e \in s .. d - 1 \/ e \in d .. d + v - 1
      BY <1>4, <1>8, <1>10, <2>1
    <3>3. Inside(k, s)
      BY <1>4, <1>8, <3>1, <3>2 DEF Inside
    <3> QED BY <3>1, <3>3, BurstItem
  <2> QED BY <2>1
<1>11. D!Copied = {}
  BY DEF D!Copied
<1>12. CASE lost /\ v <= missing
  <2>1. PICK next : next = [dc EXCEPT !.state = "no_signal"]
    OBVIOUS
  <2>2. D!Produce(v, {}, next)
    BY <1>4, <1>9, <1>11, <1>12, <2>1 DEF D!Estimate
  <2>3. d + v <= l
    BY <1>4, <1>5
  <2>4. DcState(next, d + v)
    BY <1>4, <1>5, <1>7, <1>12, <2>1, <2>3, LostState
  <2>5. \A k \in d .. d + v - 1 : Item(k, {})
    BY <1>10, <1>12
  <2> QED BY <1>1, <1>5, <2>2, <2>3, <2>4, <2>5, Produced
<1>13. CASE ~(lost /\ v <= missing)
  <2>1. PICK w \in Nat : w = IF v <= missing THEN v ELSE missing
    OBVIOUS
  <2>2. D!Min({v, missing}) = w
    BY <2>1, MinPair, SameOperators
  <2>3. PICK next : next = [dc EXCEPT !.estimate = dc.estimate \cup (d .. d + w - 1),
                   !.state = IF w = missing THEN "correcting" ELSE "estimating"]
    OBVIOUS
  <2>4. D!Produce(w, {}, next)
    <3>1. PICK used : used = D!Min({v, missing}) /\ used = w
      BY <2>2
    <3>2. D!Produce(used, D!Copied, [dc EXCEPT
                !.estimate = dc.estimate \cup (d .. d + used - 1),
                !.state = IF used = missing THEN "correcting" ELSE "estimating"])
      BY <1>1, <1>4, <1>9, <1>13, <3>1 DEF D!Estimate
    <3> QED BY <1>11, <2>3, <3>1, <3>2
  <2>5. PICK z \in Nat : /\ z = d + w /\ d < z /\ z <= l /\ z <= s + L /\ w <= v
                         /\ w = missing <=> z = s + L
    <3>1. d + w \in Nat /\ d < d + w /\ d + w <= l /\ d + w <= s + L /\ w <= v
      BY <1>4, <1>5, <1>9, <2>1
    <3>2. w = missing <=> d + w = s + L
      BY <1>9
    <3> QED BY <3>1, <3>2
  <2>6. dc.estimate \cup (d .. d + w - 1) = s .. z - 1
    <3>1. (s .. d - 1) \cup (d .. z - 1) = s .. z - 1
      BY <1>8, <2>5
    <3> QED BY <1>8, <2>5, <3>1
  <2>7. DcState(next, z)
    <3>1. s .. z - 1 \in SUBSET (0 .. z - 1) /\ s <= z
      BY <1>8, <2>5
    <3>2. dc \in [state : {"no_signal", "estimating", "correcting"},
                  estimate : SUBSET (0 .. d - 1), start : 0 .. l]
      BY <1>5, <1>7 DEF DcState
    <3>3. /\ next.estimate = s .. z - 1 /\ next.start = s
          /\ next.state = IF z = s + L THEN "correcting" ELSE "estimating"
      BY <1>8, <2>3, <2>5, <2>6, <3>2
    <3>4. next \in [state : {"no_signal", "estimating", "correcting"},
                    estimate : SUBSET (0 .. z - 1), start : 0 .. l]
      BY <2>3, <2>6, <3>1, <3>2
    <3>5. Cardinality(next.estimate) <= EstimationLength
      <4>1. Cardinality(s .. z - 1) = z - s
        BY <3>1, IntervalSize
      <4>2. z - s <= L
        BY <2>5
      <4> QED BY <1>6, <3>3, <4>1, <4>2
    <3>6. \A e \in s .. z - 1 : ~Ends(e)
      <4>1. \A e \in s .. z - 1 : e \in s .. d - 1 \/ e \in d .. d + v - 1
        BY <1>4, <1>8, <2>5
      <4> QED BY <1>4, <1>8, <4>1
    <3>7. next.state = "estimating" => z < s + L
      BY <2>5, <3>3
    <3>8. next.state = "correcting" => z = s + L
      BY <3>3
    <3>9. next.state # "no_signal"
      BY <3>3
    <3> QED BY <1>5, <1>6, <1>8, <3>1, <3>3, <3>4, <3>5, <3>6, <3>7, <3>8, <3>9
            DEF DcState
  <2>8. \A k \in d .. d + w - 1 : Item(k, {})
    BY <1>10, <2>1
  <2> QED BY <1>1, <1>5, <2>4, <2>5, <2>7, <2>8, Produced
<1> QED BY <1>12, <1>13

\* In a burst, behind the estimate.
LEMMA CorrectKeeps ==
  ASSUME DcInv, Good(squelch), squelch' = squelch, NEW n \in Nat, n > 0,
         D!done + n <= Len(squelch.items), D!Correct(n)
  PROVE  DcInv' /\ D!done <= D!done'
<1>1. PICK d \in Nat : d = D!done
  BY DEF DcInv, Corrects
<1>2. D!InBurst(n)
  BY DEF D!Correct
<1>3. PICK v \in Nat, lost \in BOOLEAN : Used(d, n, v, lost)
  BY <1>1, <1>2, UsableIs
<1>4. /\ v \in Nat \ {0} /\ v <= n
      /\ \A e \in d .. d + v - 1 : ~Ends(e)
      /\ lost => Ends(d + v)
      /\ D!Usable(n) = [n |-> v, lost |-> lost, dc |-> dc]
  BY <1>3 DEF Used
<1>5. PICK l \in Nat : l = Len(squelch.items) /\ d + n <= l
  BY <1>1, GoodTypes
<1>6. PICK L \in Nat \ {0} : L = EstimationLength
  BY EstimationConstant
<1>7. dc.state = "correcting" /\ DcState(dc, d)
  BY <1>1, <1>4 DEF D!Correct, DcInv, Corrects
<1>8. PICK s \in Nat : /\ s = dc.start /\ Starts(s) /\ s <= d /\ s < l
                       /\ \A e \in s .. d - 1 : ~Ends(e)
                       /\ dc.estimate = s .. (s + L) - 1 /\ s + L <= d
  <2>1. /\ Starts(dc.start) /\ dc.start <= d /\ dc.start < l
        /\ dc.start \in 0 .. l
        /\ \A e \in dc.start .. d - 1 : ~Ends(e)
    BY <1>5, <1>7 DEF DcState
  <2>2. /\ dc.estimate = dc.start .. (dc.start + L) - 1
        /\ dc.start + L <= d
    BY <1>6, <1>7 DEF DcState
  <2>3. PICK s \in Nat : s = dc.start
    BY <2>1
  <2> QED BY <2>1, <2>2, <2>3
<1>9. PICK z \in Nat : z = d + v /\ d <= z /\ z <= l
  <2>1. d + v \in Nat /\ d <= d + v /\ d + v <= l
    BY <1>4, <1>5
  <2> QED BY <2>1
<1>10. PICK next : next = IF lost THEN [dc EXCEPT !.state = "no_signal"] ELSE dc
  OBVIOUS
<1>11. D!Produce(v, dc.estimate, next)
  BY <1>4, <1>10 DEF D!Correct
<1>12. \A e \in s .. z - 1 : ~Ends(e)
  <2>1. \A e \in s .. z - 1 : e \in s .. d - 1 \/ e \in d .. d + v - 1
    BY <1>8, <1>9
  <2> QED BY <1>4, <1>8, <2>1
<1>13. DcState(next, z)
  <2>1. CASE lost
    BY <1>4, <1>5, <1>7, <1>9, <1>10, <2>1, LostState
  <2>2. CASE ~lost
    <3>1. dc.estimate \in SUBSET (0 .. z - 1)
      <4>1. s .. (s + L) - 1 \subseteq 0 .. z - 1
        BY <1>8, <1>9
      <4> QED BY <1>8, <4>1
    <3>2. dc \in [state : {"no_signal", "estimating", "correcting"},
                  estimate : SUBSET (0 .. z - 1), start : 0 .. l]
      BY <1>5, <1>7, <3>1 DEF DcState
    <3>3. s <= z /\ s + L <= z
      BY <1>8, <1>9
    <3>4. Cardinality(dc.estimate) <= EstimationLength
      BY <1>7 DEF DcState
    <3>5. DcState(dc, z)
      BY <1>5, <1>6, <1>7, <1>8, <1>12, <3>2, <3>3, <3>4 DEF DcState
    <3> QED BY <1>10, <2>2, <3>5
  <2> QED BY <2>1, <2>2
<1>14. ASSUME NEW k \in d .. d + v - 1 PROVE Item(k, dc.estimate)
  <2>1. k \in Nat /\ s \in 0 .. k /\ ~(k < s + L) /\ \A e \in s .. k : e \in s .. z - 1
    BY <1>8, <1>9
  <2>2. Inside(k, s)
    BY <1>8, <1>12, <2>1 DEF Inside
  <2>3. s .. (s + L) - 1 \subseteq 0 .. k - 1
    BY <2>1
  <2>4. PICK offsets : offsets = dc.estimate
    OBVIOUS
  <2> QED BY <1>6, <1>8, <2>1, <2>2, <2>3, <2>4, BurstItem
<1> QED BY <1>1, <1>4, <1>5, <1>9, <1>11, <1>13, <1>14, Produced

-----------------------------------------------------------------------------
(***************************************************************************)
(* The inductive invariant and what follows from it.                       *)
(***************************************************************************)
PathInv == SquelchInv /\ DcInv /\ drained = D!done

\* A call of the DC correction keeps the invariant.
LEMMA CorrectStepKeeps ==
  ASSUME PathInv, CorrectStep
  PROVE  PathInv'
<1>1. DcInv /\ Good(squelch) /\ squelch' = squelch /\ air' = air
  BY DEF PathInv, SquelchInv, CorrectStep
<1>2. PICK d \in Nat, l \in Nat : d = D!done /\ l = Len(squelch.items)
  BY <1>1, GoodTypes DEF DcInv, Corrects
<1>3. PICK n \in 1 .. l - d :
        D!SeekSignal(n) \/ D!LostAtStart(n) \/ D!Estimate(n) \/ D!Correct(n)
  BY <1>2 DEF CorrectStep, D!CorrectDc
<1>4. n \in Nat /\ n > 0 /\ D!done + n <= Len(squelch.items)
  BY <1>2
<1>5. DcInv' /\ D!done <= D!done'
  BY <1>1, <1>3, <1>4, SeekSignalKeeps, LostAtStartKeeps, EstimateKeeps, CorrectKeeps
<1>6. drained' = D!done'
  BY DEF CorrectStep, D!done, D!Cardinality, Cardinality
<1>7. SquelchInv /\ MarksKept
  BY <1>1, GoodTypes DEF PathInv, MarksKept, Starts, Ends
<1>8. PICK m \in Nat : m = D!done' /\ d <= m /\ m <= l
  BY <1>1, <1>2, <1>5 DEF DcInv, Corrects
<1>9. Buffers'
  <2>1. arrived' - squelch'.read <= SquelchInput
    BY <1>1, <1>7 DEF SquelchInv, Buffers, arrived
  <2>2. l - d <= SquelchBuffer
    BY <1>2 DEF PathInv, SquelchInv, Buffers
  <2>3. m \in 0 .. l /\ l - m <= SquelchBuffer
    <3>1. SquelchBuffer \in Nat
      BY ConstantFacts
    <3>2. d <= m /\ m <= l /\ d <= l
      BY <1>8
    <3>3. l - m <= l - d /\ m \in 0 .. l
      BY <3>2
    <3>4. l - m \in Int /\ l - d \in Int
      OBVIOUS
    <3> QED BY <2>2, <3>1, <3>3, <3>4
  <2> QED BY <1>1, <1>2, <1>6, <1>8, <2>1, <2>3 DEF Buffers
<1>10. SamplesKept
  <2>1. arrived' = arrived /\ \A i : PowerOf(i)' = PowerOf(i)
    BY <1>1 DEF arrived, PowerOf
  <2> QED BY <1>1, <2>1, ArrivedType DEF SamplesKept, PathInv, SquelchInv
<1>11. Good(squelch)'
  <2>1. PICK s : s = squelch
    OBVIOUS
  <2>2. Good(s)'
    BY <1>1, <1>7, <1>10, <2>1, GoodKept DEF SquelchInv
  <2> QED BY <1>1, <2>1, <2>2 DEF Good
<1>12. AirOK'
  BY <1>1, <1>7 DEF SquelchInv, AirOK, arrived
<1> QED BY <1>5, <1>6, <1>9, <1>11, <1>12 DEF PathInv, SquelchInv

\* The invariant holds at first,
LEMMA PathStarts ==
  ASSUME Init PROVE PathInv
<1>1. /\ air = <<>> /\ drained = 0 /\ squelch.read = 0 /\ squelch.items = <<>>
      /\ squelch.tags = {} /\ squelch.active = FALSE /\ squelch.trailing = 0
      /\ squelch.tracker = NewTracker /\ squelch.gated \in BOOLEAN
      /\ \E gated \in BOOLEAN :
           squelch = [gated |-> gated, tracker |-> NewTracker, active |-> FALSE,
                      trailing |-> 0, read |-> 0, items |-> <<>>, tags |-> {}]
  <2>1. /\ air = <<>> /\ drained = 0
        /\ \E gated \in BOOLEAN :
             squelch = [gated |-> gated, tracker |-> NewTracker, active |-> FALSE,
                        trailing |-> 0, read |-> 0, items |-> <<>>, tags |-> {}]
    BY DEF Init, InitSquelch
  <2>2. PICK gated \in BOOLEAN :
          squelch = [gated |-> gated, tracker |-> NewTracker, active |-> FALSE,
                     trailing |-> 0, read |-> 0, items |-> <<>>, tags |-> {}]
    BY <2>1
  <2>3. /\ squelch.read = 0 /\ squelch.items = <<>> /\ squelch.tags = {}
        /\ squelch.active = FALSE /\ squelch.trailing = 0
        /\ squelch.tracker = NewTracker /\ squelch.gated \in BOOLEAN
    BY <2>2
  <2> QED BY <2>1, <2>3
<1>2. Len(<<>>) = 0 /\ <<>> \in Seq(Powers) /\ <<>> \in Seq(Int)
  BY EmptySeq
<1>3. /\ SquelchInput \in Nat /\ SquelchBuffer \in Nat /\ TrailingSamples \in Nat
      /\ EstimationLength \in Nat
  BY ConstantFacts, EstimationConstant
<1>4. AirOK
  BY <1>1, <1>2, SquelchConstants DEF AirOK, arrived
<1>5. Tracks(NewTracker, 0) /\ NewTracker \in Trackers
  BY NewTrackerTracks DEF Tracks
<1>6. Good(squelch)
  <2>1. squelch \in Records
    BY <1>1, <1>2, <1>3, <1>5 DEF Records
  <2>2. ~Follows(0)
    BY DEF Follows
  <2>3. Zeros(0, 0)
    <3>1. \A j : ~(j \in 0 .. 0 - 1)
      OBVIOUS
    <3> QED BY <3>1, <1>3 DEF Zeros
  <2>4. Position(0) = 0
    BY PositionSteps
  <2>5. Written(<<>>, 0)
    BY <1>2, <2>4 DEF Written
  <2>6. Begins(0) = {} /\ Finishes(0) = {}
    BY DEF Begins, Finishes
  <2>7. arrived = 0
    BY <1>1, <1>2 DEF arrived
  <2> QED BY <1>1, <1>5, <2>1, <2>2, <2>3, <2>5, <2>6, <2>7 DEF Good
<1>7. Buffers
  BY <1>1, <1>2, <1>3 DEF Buffers, arrived
<1>8. corrected = [k \in {} |-> D!Copied] /\ DOMAIN corrected = {} /\ D!done = 0
  <2>1. corrected = [k \in {} |-> D!Copied]
    BY DEF Init, D!InitCorrection
  <2> QED BY <2>1, SameOperators, FS_EmptySet
<1>9. dc = [state |-> "no_signal", estimate |-> {}, start |-> 0]
  BY DEF Init, D!InitCorrection
<1>10. DcState(dc, 0)
  <2>1. Cardinality({}) = 0
    BY FS_EmptySet
  <2> QED BY <1>1, <1>2, <1>3, <1>9, <2>1 DEF DcState
<1>11. DcInv
  <2>1. 0 .. 0 - 1 = {}
    OBVIOUS
  <2> QED BY <1>1, <1>2, <1>8, <1>10, <2>1 DEF DcInv, Corrects
<1> QED BY <1>1, <1>4, <1>6, <1>7, <1>8, <1>11 DEF PathInv, SquelchInv

\* every step keeps it,
LEMMA PathStep ==
  ASSUME PathInv, [Next]_burstVars
  PROVE  PathInv'
<1>1. SquelchInv /\ DcInv /\ Good(squelch) /\ drained = D!done
  BY DEF PathInv, SquelchInv
<1>2. ASSUME ArriveStep \/ SquelchStep PROVE PathInv'
  <2>1. SquelchInv' /\ MarksKept
    BY <1>1, <1>2, ArriveKeeps, SquelchStepKeeps DEF ArriveStep
  <2>2. corrected' = corrected /\ dc' = dc /\ drained' = drained
    BY <1>2 DEF ArriveStep, SquelchStep, Arrive, Squelch, Mute
  <2>3. DcInv'
    BY <1>1, <2>1, <2>2, DcKept
  <2>4. D!done' = D!done
    BY <2>2 DEF D!done
  <2> QED BY <1>1, <2>1, <2>2, <2>3, <2>4 DEF PathInv
<1>3. CASE CorrectStep
  BY <1>3, CorrectStepKeeps
<1>4. CASE UNCHANGED burstVars
  <2>1. squelch' = squelch /\ air' = air /\ drained' = drained
        /\ corrected' = corrected /\ dc' = dc
    BY <1>4 DEF burstVars, squelchVars
  <2>2. MarksKept
    BY <1>1, <2>1, GoodTypes DEF MarksKept, Starts, Ends
  <2>3. DcInv'
    BY <1>1, <2>1, <2>2, DcKept
  <2>4. SamplesKept
    <3>1. arrived' = arrived /\ \A i : PowerOf(i)' = PowerOf(i)
      BY <2>1 DEF arrived, PowerOf
    <3> QED BY <1>1, <2>1, <3>1, ArrivedType DEF SamplesKept, SquelchInv
  <2>5. Good(squelch)'
    <3>1. PICK s : s = squelch
      OBVIOUS
    <3>2. Good(s)'
      BY <1>1, <2>4, <3>1, GoodKept DEF SquelchInv
    <3> QED BY <2>1, <3>1, <3>2 DEF Good
  <2>6. AirOK' /\ Buffers'
    BY <1>1, <2>1 DEF SquelchInv, AirOK, Buffers, arrived
  <2>7. D!done' = D!done
    BY <2>1 DEF D!done
  <2> QED BY <1>1, <2>1, <2>3, <2>5, <2>6, <2>7 DEF PathInv, SquelchInv
<1> QED BY <1>2, <1>3, <1>4 DEF Next

\* and so it always holds.
LEMMA PathInvariant == Spec => []PathInv
<1>1. Init => PathInv
  BY PathStarts
<1>2. PathInv /\ [Next]_burstVars => PathInv'
  BY PathStep
<1> QED BY <1>1, <1>2, PTL DEF Spec

\* The buffers, positions and states have their types.
LEMMA PathTyped ==
  ASSUME PathInv PROVE TypeOK
<1>1. SquelchTypeOK
  BY SquelchTyped DEF PathInv
<1>2. PICK d \in Nat, l \in Nat :
        d = D!done /\ l = Len(squelch.items) /\ d <= l
  BY GoodTypes DEF PathInv, SquelchInv, DcInv, Corrects
<1>3. DOMAIN corrected = 0 .. d - 1 /\ DcState(dc, d)
  BY <1>2 DEF PathInv, DcInv, Corrects
<1>4. \A k \in DOMAIN corrected :
        corrected[k] = D!Stale \/ corrected[k] \subseteq 0 .. k - 1
  BY <1>2, <1>3 DEF PathInv, DcInv, Corrects, Item
<1>5. D!Cardinality(dc.estimate) <= EstimationLength
  BY <1>3, SameOperators DEF DcState
<1>6. D!DcTypeOK
  BY <1>2, <1>3, <1>4, <1>5 DEF D!DcTypeOK, DcState
<1> QED BY <1>1, <1>6 DEF TypeOK

\* Every sample is corrected by the beginning of its burst.
LEMMA CorrectionRight ==
  ASSUME PathInv PROVE CorrectedByOwnBurst
<1>1. Good(squelch) /\ squelch.gated \in BOOLEAN
  BY GoodTypes DEF PathInv, SquelchInv
<1>2. PICK d \in Nat, l \in Nat :
        /\ d = D!done /\ l = Len(squelch.items) /\ d <= l
        /\ DOMAIN corrected = 0 .. d - 1
  BY <1>1, GoodTypes DEF PathInv, DcInv, Corrects
<1>3. PICK L \in Nat \ {0} : L = EstimationLength
  BY EstimationConstant
<1>4. ASSUME NEW k \in DOMAIN corrected, squelch.items[k + 1] # Zero,
             ~(Ends(k) /\ ~squelch.gated)
      PROVE  SamplesAt(corrected[k]) = OwnPreamble(squelch.items[k + 1])
  <2>1. k \in Nat /\ k < l /\ Item(k, corrected[k])
    BY <1>2 DEF PathInv, DcInv, Corrects
  <2>2. ~Ends(k)
    BY <1>1, <1>4, EndIsZero
  <2>3. PICK b \in 0 .. k : Inside(k, b)
    BY <1>1, <1>2, <1>4, <2>1, <2>2, SampleInside
  <2>4. corrected[k] = IF k < b + L THEN {} ELSE b .. (b + L) - 1
    BY <1>3, <2>1, <2>2, <2>3 DEF Item
  <2>5. Run(k, b)
    BY <1>1, <1>2, <2>1, <2>3, InsideRuns
  <2>6. PICK first \in Nat :
          \A j \in b .. k : /\ squelch.items[j + 1] = first + (j - b)
                            /\ BurstStart(first + (j - b)) = first
    BY <2>5 DEF Run
  <2>7. PICK i \in Nat : /\ i = squelch.items[k + 1] /\ i = first + (k - b)
                         /\ BurstStart(i) = first
    <3>1. k \in b .. k /\ first + (k - b) \in Nat
      BY <2>1
    <3> QED BY <2>6, <3>1
  <2>8. OwnPreamble(i) = IF i < first + L THEN {} ELSE first .. (first + L) - 1
    BY <1>3, <2>7 DEF OwnPreamble
  <2>9. i < first + L <=> k < b + L
    BY <2>1, <2>7
  <2>10. CASE k < b + L
    BY <2>4, <2>7, <2>8, <2>9, <2>10 DEF SamplesAt
  <2>11. CASE ~(k < b + L)
    <3>1. \A j \in b .. (b + L) - 1 : j \in b .. k
      BY <2>1, <2>11
    <3>2. SamplesAt(corrected[k]) = {first + (j - b) : j \in b .. (b + L) - 1}
      <4>1. \A j \in b .. (b + L) - 1 : squelch.items[j + 1] = first + (j - b)
        BY <2>6, <3>1
      <4> QED BY <2>4, <2>11, <4>1 DEF SamplesAt
    <3>3. {first + (j - b) : j \in b .. (b + L) - 1} = first .. (first + L) - 1
      <4>1. ASSUME NEW x \in first .. (first + L) - 1
            PROVE  \E j \in b .. (b + L) - 1 : x = first + (j - b)
        <5>1. b + (x - first) \in b .. (b + L) - 1 /\ x = first + ((b + (x - first)) - b)
          OBVIOUS
        <5> QED BY <5>1
      <4>2. \A j \in b .. (b + L) - 1 : first + (j - b) \in first .. (first + L) - 1
        OBVIOUS
      <4> QED BY <4>1, <4>2
    <3> QED BY <2>7, <2>8, <2>9, <2>11, <3>2, <3>3
  <2> QED BY <2>10, <2>11
<1>5. ASSUME NEW k \in DOMAIN corrected, squelch.items[k + 1] = Zero, ~Ends(k)
      PROVE  corrected[k] = D!Copied
  <2>1. k \in Nat /\ k < l /\ Item(k, corrected[k])
    BY <1>2 DEF PathInv, DcInv, Corrects
  <2>2. ASSUME NEW b \in 0 .. k, Inside(k, b) PROVE FALSE
    <3>1. Run(k, b)
      BY <1>1, <1>2, <2>1, <2>2, InsideRuns
    <3>2. PICK first \in Nat : squelch.items[k + 1] = first + (k - b)
      <4>1. k \in b .. k
        BY <2>1
      <4> QED BY <3>1, <4>1 DEF Run
    <3>3. first + (k - b) >= 0
      BY <2>1
    <3> QED BY <1>5, <3>2, <3>3 DEF Zero
  <2> QED BY <1>5, <2>1, <2>2 DEF Item, D!Copied
<1> QED BY <1>4, <1>5 DEF CorrectedByOwnBurst

-----------------------------------------------------------------------------

\* TypeOK: no block reads more than there is or overfills the buffer behind it, every
\* tag is on an item that was written or, ungated, on the next one, and what the
\* correction subtracts was received before and never of more samples than
\* d_estimation_length.
THEOREM BurstPathTypes == Spec => []TypeOK
BY PathInvariant, PathTyped, PTL

\* FloorIsRecentMinimum: whatever the powers and the calls, the tracker's two half
\* windows amount to the lowest power of the last samples, at least one half window
\* and less than two (noise_floor_tracker.h:82-84).
THEOREM FloorAlwaysRecent == Spec => []FloorIsRecentMinimum
<1>1. PathInv => FloorIsRecentMinimum
  BY FloorRight DEF PathInv
<1> QED BY <1>1, PathInvariant, PTL

\* BurstsMarked: the output of either squelch and its tags depend on the powers of
\* the samples only, not on where the scheduler cuts the input into calls nor on how
\* many items it asks for (gated_power_squelch_relative_cc_impl.cc:74-129,
\* power_squelch_relative_cc_impl.cc:52-78).
THEOREM BurstsAlwaysMarked == Spec => []BurstsMarked
<1>1. PathInv => BurstsMarked
  BY BurstsRight DEF PathInv
<1> QED BY <1>1, PathInvariant, PTL

\* CorrectedByOwnBurst: for any calls of both blocks, a sample is corrected by the
\* first samples of its own burst, and by all of them or none
\* (tag_based_dc_correction_ff_impl.cc:68-177).
THEOREM AlwaysOwnCorrection == Spec => []CorrectedByOwnBurst
BY PathInvariant, CorrectionRight, PTL

\* The case of a burst that starts inside of another, for which the correction has
\* code (tag_based_dc_correction_ff_impl.cc:107-134), never occurs behind a
\* squelch: from a start mark to the next there is an end mark.
THEOREM StartsAlternate ==
  Spec => [](\A a, b \in Nat :
               a < b /\ Starts(a) /\ Starts(b) => \E e \in a .. b - 1 : Ends(e))
<1>1. PathInv => \A a, b \in Nat :
                   a < b /\ Starts(a) /\ Starts(b) => \E e \in a .. b - 1 : Ends(e)
  BY EndBetweenStarts DEF PathInv, SquelchInv
<1> QED BY <1>1, PathInvariant, PTL
=============================================================================

----------------------- MODULE SyncWordCorrelatorProofs -----------------------
(***************************************************************************)
(* The correlator tags exactly the starts of frames of the stream, however *)
(* it is cut into calls and whatever its constants; and the delimiters of  *)
(* the standard never let two starts be close together.                    *)
(***************************************************************************)
EXTENDS SyncWordCorrelator, InductionLemmas, FiniteSetTheorems

-----------------------------------------------------------------------------
(***************************************************************************)
(* Powers of two, and the numbers that bits spell.                         *)
(***************************************************************************)
LEMMA PowerFacts ==
  /\ Power2(0) = 1
  /\ \A n \in Nat : /\ Power2(n) \in Nat /\ Power2(n) > 0
                    /\ Power2(n + 1) = 2 * Power2(n)
<1> DEFINE Powers(n) == CHOOSE p : p = [i \in 0 .. n |-> IF i = 0 THEN 1 ELSE 2 * p[i - 1]]
<1>1. \A n : Power2(n) = Powers(n)[n]
  BY DEF Power2
<1>2. ASSUME NEW n \in Nat
      PROVE  /\ Powers(n) = [i \in 0 .. n |-> IF i = 0 THEN 1 ELSE 2 * Powers(n)[i - 1]]
             /\ Powers(n) \in [0 .. n -> Nat]
  <2> DEFINE step == [i \in Nat |-> [x \in Nat |-> 2 * x]]
  <2>1. step \in [Nat -> [Nat -> Nat]] /\ 1 \in Nat
    OBVIOUS
  <2>2. PICK f \in [0 .. n -> Nat] : Recursive(f, n, 1, step)
    <3> HIDE DEF step
    <3> QED BY <2>1, FiniteRecursion
  <2>3. f[0] = 1 /\ \A i \in 1 .. n : f[i] = 2 * f[i - 1]
    <3>1. \A i \in 1 .. n : i \in Nat /\ i - 1 \in 0 .. n
      OBVIOUS
    <3>2. \A i \in 1 .. n : f[i - 1] \in Nat
      BY <3>1
    <3>3. \A i \in 1 .. n : step[i][f[i - 1]] = 2 * f[i - 1]
      BY <3>1, <3>2
    <3> HIDE DEF step
    <3> QED BY <2>2, <3>3 DEF Recursive
  <2>4. f = [i \in 0 .. n |-> IF i = 0 THEN 1 ELSE 2 * f[i - 1]]
    <3>1. \A i \in 0 .. n : i # 0 => i \in 1 .. n
      OBVIOUS
    <3>2. \A i \in 0 .. n : f[i] = IF i = 0 THEN 1 ELSE 2 * f[i - 1]
      BY <2>3, <3>1
    <3> QED BY <3>2
  <2>5. PICK g : g = Powers(n)
    OBVIOUS
  <2>6. g = [i \in 0 .. n |-> IF i = 0 THEN 1 ELSE 2 * g[i - 1]]
    BY <2>4, <2>5
  <2>7. Equal(g, f, n)
    <3>1. \A i \in 1 .. n : i \in 0 .. n /\ i # 0
      OBVIOUS
    <3>2. Alike(g, f, n)
      BY <2>4, <2>6, <3>1 DEF Alike
    <3> QED BY <3>2, RecursionUnique
  <2>8. g \in [0 .. n -> Nat]
    BY <2>6, <2>7 DEF Equal
  <2> HIDE DEF Powers
  <2> QED BY <2>5, <2>6, <2>8
<1> HIDE DEF Powers
<1>3. Power2(0) = 1
  BY <1>1, <1>2
<1>4. ASSUME NEW n \in Nat
      PROVE  Power2(n) \in Nat /\ Power2(n + 1) = 2 * Power2(n)
  <2>1. n + 1 \in Nat /\ n + 1 \in 0 .. n + 1 /\ n + 1 # 0 /\ (n + 1) - 1 = n /\ n \in 0 .. n
    OBVIOUS
  <2>2. Powers(n + 1)[n + 1] = 2 * Powers(n + 1)[n]
    BY <1>2, <2>1
  <2>3. Equal(Powers(n + 1), Powers(n), n)
    <3>1. Powers(n + 1)[0] = Powers(n)[0]
      BY <1>2
    <3>2. ASSUME NEW i \in 1 .. n
          PROVE  /\ Powers(n + 1)[i] = 2 * Powers(n + 1)[i - 1]
                 /\ Powers(n)[i] = 2 * Powers(n)[i - 1]
      <4>1. i \in 0 .. n /\ i \in 0 .. n + 1 /\ i # 0
        OBVIOUS
      <4> QED BY <1>2, <2>1, <4>1
    <3>3. Alike(Powers(n + 1), Powers(n), n)
      BY <3>1, <3>2 DEF Alike
    <3> QED BY <3>3, RecursionUnique
  <2>4. Powers(n + 1)[n] = Powers(n)[n] /\ Powers(n)[n] \in Nat
    BY <1>2, <2>1, <2>3 DEF Equal
  <2> QED BY <1>1, <2>2, <2>4
<1>5. \A n \in Nat : Power2(n) > 0
  <2> DEFINE S == {n \in Nat : Power2(n) > 0}
  <2>1. 0 \in S /\ \A n \in S : n + 1 \in S
    BY <1>3, <1>4
  <2>2. S = Nat
    <3>1. S \in SUBSET Nat
      OBVIOUS
    <3> HIDE DEF S
    <3> QED BY <2>1, <3>1, SetInduction
  <2> QED BY <2>2
<1> QED BY <1>3, <1>4, <1>5

Bits(s, k, n) == \A i \in Nat : k <= i /\ i < k + n => s[i] \in {0, 1}

\* The number gains its last bit.
LEMMA NumberFacts ==
  ASSUME NEW s, NEW k \in Nat, NEW n \in Nat, Bits(s, k, n)
  PROVE  /\ Number(s, k, 0) = 0
         /\ Number(s, k, n) \in Nat
         /\ n > 0 => Number(s, k, n) = 2 * Number(s, k, n - 1) + s[k + (n - 1)]
<1> DEFINE Values(m) == CHOOSE v : v = [i \in 0 .. m |->
                          IF i = 0 THEN 0 ELSE 2 * v[i - 1] + s[k + (i - 1)]]
<1>1. \A m : Number(s, k, m) = Values(m)[m]
  BY DEF Number
<1>2. ASSUME NEW m \in Nat, m <= n
      PROVE  /\ Values(m) = [i \in 0 .. m |->
                  IF i = 0 THEN 0 ELSE 2 * Values(m)[i - 1] + s[k + (i - 1)]]
             /\ \A i \in 0 .. m : Values(m)[i] \in Nat
  <2> DEFINE bit(i) == IF i \in 1 .. m THEN s[k + (i - 1)] ELSE 0
             step == [i \in Nat |-> [x \in Nat |-> 2 * x + bit(i)]]
  <2>1. \A i \in Nat : bit(i) \in {0, 1}
    <3>1. ASSUME NEW i \in 1 .. m PROVE s[k + (i - 1)] \in {0, 1}
      <4>1. k + (i - 1) \in Nat /\ k <= k + (i - 1) /\ k + (i - 1) < k + n
        BY <1>2
      <4> QED BY <4>1 DEF Bits
    <3> QED BY <3>1
  <2>2. step \in [Nat -> [Nat -> Nat]] /\ 0 \in Nat
    <3> HIDE DEF bit
    <3>1. \A i, x \in Nat : 2 * x + bit(i) \in Nat
      BY <2>1
    <3> QED BY <3>1
  <2>3. PICK f \in [0 .. m -> Nat] : Recursive(f, m, 0, step)
    <3> HIDE DEF step
    <3> QED BY <2>2, FiniteRecursion
  <2>4. f[0] = 0 /\ \A i \in 1 .. m : f[i] = 2 * f[i - 1] + s[k + (i - 1)]
    <3>1. \A i \in 1 .. m : i \in Nat /\ i - 1 \in 0 .. m
      OBVIOUS
    <3>2. \A i \in 1 .. m : f[i - 1] \in Nat /\ bit(i) = s[k + (i - 1)]
      BY <3>1
    <3>3. \A i \in 1 .. m : step[i][f[i - 1]] = 2 * f[i - 1] + bit(i)
      <4> HIDE DEF bit
      <4> QED BY <3>1, <3>2
    <3> HIDE DEF step, bit
    <3> QED BY <2>3, <3>2, <3>3 DEF Recursive
  <2>5. f = [i \in 0 .. m |-> IF i = 0 THEN 0 ELSE 2 * f[i - 1] + s[k + (i - 1)]]
    <3>1. \A i \in 0 .. m : i # 0 => i \in 1 .. m
      OBVIOUS
    <3>2. \A i \in 0 .. m : f[i] = IF i = 0 THEN 0 ELSE 2 * f[i - 1] + s[k + (i - 1)]
      BY <2>4, <3>1
    <3> QED BY <3>2
  <2>6. PICK g : g = Values(m)
    OBVIOUS
  <2>7. g = [i \in 0 .. m |-> IF i = 0 THEN 0 ELSE 2 * g[i - 1] + s[k + (i - 1)]]
    BY <2>5, <2>6
  <2>8. Equal(g, f, m)
    <3>1. \A i \in 1 .. m : i \in 0 .. m /\ i # 0
      OBVIOUS
    <3>2. Alike(g, f, m)
      BY <2>5, <2>7, <3>1 DEF Alike
    <3> QED BY <3>2, RecursionUnique
  <2>9. \A i \in 0 .. m : g[i] \in Nat
    BY <2>8 DEF Equal
  <2> HIDE DEF Values
  <2> QED BY <2>6, <2>7, <2>9
<1> HIDE DEF Values
<1>3. Number(s, k, 0) = 0
  BY <1>1, <1>2
<1>4. Number(s, k, n) \in Nat
  BY <1>1, <1>2
<1>5. ASSUME n > 0
      PROVE  Number(s, k, n) = 2 * Number(s, k, n - 1) + s[k + (n - 1)]
  <2>1. PICK m \in Nat : n = m + 1
    <3>1. n - 1 \in Nat /\ n = (n - 1) + 1
      BY <1>5
    <3> QED BY <3>1
  <2>2. /\ n \in 0 .. n /\ n # 0 /\ n - 1 = m /\ m \in 0 .. m /\ m <= n
    BY <2>1
  <2>3. Values(n)[n] = 2 * Values(n)[m] + s[k + (n - 1)]
    BY <1>2, <2>2
  <2>4. Equal(Values(n), Values(m), m)
    <3>1. Values(n)[0] = Values(m)[0]
      BY <1>2, <2>2
    <3>2. ASSUME NEW i \in 1 .. m
          PROVE  /\ Values(n)[i] = 2 * Values(n)[i - 1] + s[k + (i - 1)]
                 /\ Values(m)[i] = 2 * Values(m)[i - 1] + s[k + (i - 1)]
      <4>1. i \in 0 .. n /\ i \in 0 .. m /\ i # 0
        BY <2>1
      <4> QED BY <1>2, <2>2, <4>1
    <3>3. Alike(Values(n), Values(m), m)
      BY <3>1, <3>2 DEF Alike
    <3> QED BY <3>3, RecursionUnique
  <2> QED BY <1>1, <2>2, <2>3, <2>4 DEF Equal
<1> QED BY <1>3, <1>4, <1>5

LEMMA NumberGrows ==
  ASSUME NEW s, NEW k \in Nat, NEW n \in Nat, NEW m \in Nat, m + 1 <= n, Bits(s, k, n)
  PROVE  /\ Number(s, k, m + 1) = 2 * Number(s, k, m) + s[k + m]
         /\ Number(s, k, m) \in Nat /\ s[k + m] \in {0, 1}
<1>1. m + 1 \in Nat /\ m + 1 > 0 /\ (m + 1) - 1 = m
  OBVIOUS
<1>2. Bits(s, k, m + 1) /\ Bits(s, k, m)
  BY DEF Bits
<1>3. s[k + m] \in {0, 1}
  <2>1. k + m \in Nat /\ k <= k + m /\ k + m < k + n
    OBVIOUS
  <2> QED BY <2>1 DEF Bits
<1>4. Number(s, k, m + 1) = 2 * Number(s, k, (m + 1) - 1) + s[k + ((m + 1) - 1)]
  BY <1>1, <1>2, NumberFacts
<1>5. Number(s, k, m) \in Nat
  BY <1>2, NumberFacts
<1> QED BY <1>1, <1>3, <1>4, <1>5

\* The number that n bits spell fits into n bits.
LEMMA NumberBound ==
  ASSUME NEW s, NEW k \in Nat, NEW n \in Nat, Bits(s, k, n)
  PROVE  Number(s, k, n) \in Register(n)
<1> DEFINE Fits == {m \in Nat : m <= n => Number(s, k, m) < Power2(m)}
<1>1. \A m \in Nat : m <= n => Bits(s, k, m)
  BY DEF Bits
<1>2. 0 \in Fits
  BY <1>1, NumberFacts, PowerFacts
<1>3. ASSUME NEW m \in Fits PROVE m + 1 \in Fits
  <2>1. m \in Nat /\ m + 1 \in Nat /\ m + 1 > 0 /\ (m + 1) - 1 = m
    OBVIOUS
  <2>2. ASSUME m + 1 <= n PROVE Number(s, k, m + 1) < Power2(m + 1)
    <3>1. /\ Number(s, k, m + 1) = 2 * Number(s, k, m) + s[k + m]
          /\ Number(s, k, m) \in Nat /\ s[k + m] \in {0, 1}
      BY <2>1, <2>2, NumberGrows
    <3>2. m <= n
      BY <2>1, <2>2
    <3>3. Number(s, k, m) < Power2(m)
      BY <3>2
    <3>4. Power2(m + 1) = 2 * Power2(m) /\ Power2(m) \in Nat
      BY <2>1, PowerFacts
    <3> QED BY <3>1, <3>3, <3>4
  <2> QED BY <2>1, <2>2
<1>4. Fits = Nat
  <2>1. Fits \in SUBSET Nat
    OBVIOUS
  <2> HIDE DEF Fits
  <2> QED BY <1>2, <1>3, <2>1, SetInduction
<1>5. Number(s, k, n) < Power2(n)
  BY <1>4
<1>6. Number(s, k, n) \in Nat /\ Power2(n) \in Nat
  BY NumberFacts, PowerFacts
<1> QED BY <1>5, <1>6 DEF Register

\* The number one bit further: the first bit leaves at the top.
LEMMA NumberSlides ==
  ASSUME NEW s, NEW k \in Nat, NEW n \in Nat, Bits(s, k, n + 1)
  PROVE  2 * Number(s, k, n) + s[k + n] = s[k] * Power2(n) + Number(s, k + 1, n)
<1>1. PICK b \in {0, 1} : b = s[k]
  BY DEF Bits
<1> DEFINE Slides == {m \in Nat : m <= n =>
                        Number(s, k, m + 1) = b * Power2(m) + Number(s, k + 1, m)}
<1>2. ASSUME NEW m \in Nat, m <= n
      PROVE  /\ Number(s, k, m + 1) = 2 * Number(s, k, m) + s[k + m]
             /\ Number(s, k, m) \in Nat /\ s[k + m] \in {0, 1}
             /\ Number(s, k + 1, m) \in Nat
  <2>1. Bits(s, k + 1, m) /\ k + 1 \in Nat
    BY <1>2 DEF Bits
  <2>2. m + 1 <= n + 1 /\ n + 1 \in Nat
    BY <1>2
  <2> QED BY <2>1, <2>2, NumberFacts, NumberGrows
<1>3. 0 \in Slides
  <2>1. Number(s, k, 0) = 0 /\ Number(s, k + 1, 0) = 0
    <3>1. Bits(s, k, 0) /\ Bits(s, k + 1, 0)
      BY DEF Bits
    <3> QED BY <3>1, NumberFacts
  <2>2. Number(s, k, 0 + 1) = s[k + 0]
    BY <1>2, <2>1
  <2> QED BY <1>1, <2>1, <2>2, PowerFacts
<1>4. ASSUME NEW m \in Slides PROVE m + 1 \in Slides
  <2>1. m \in Nat /\ m + 1 \in Nat
    OBVIOUS
  <2>2. ASSUME m + 1 <= n
        PROVE  Number(s, k, (m + 1) + 1) = b * Power2(m + 1) + Number(s, k + 1, m + 1)
    <3>1. /\ Number(s, k, (m + 1) + 1) = 2 * Number(s, k, m + 1) + s[k + (m + 1)]
          /\ Number(s, k, m + 1) = b * Power2(m) + Number(s, k + 1, m)
          /\ Number(s, k + 1, m) \in Nat /\ s[k + (m + 1)] \in {0, 1}
      BY <1>2, <2>1, <2>2
    <3>2. Number(s, k + 1, m + 1) = 2 * Number(s, k + 1, m) + s[(k + 1) + m]
      <4>1. k + 1 \in Nat /\ Bits(s, k + 1, m + 1)
        BY <2>1, <2>2 DEF Bits
      <4> QED BY <2>1, <4>1, NumberGrows
    <3>3. (k + 1) + m = k + (m + 1)
      BY <2>1
    <3>4. Power2(m + 1) = 2 * Power2(m) /\ Power2(m) \in Nat
      BY <2>1, PowerFacts
    <3> QED BY <3>1, <3>2, <3>3, <3>4
  <2> QED BY <2>1, <2>2
<1>5. Slides = Nat
  <2>1. Slides \in SUBSET Nat
    OBVIOUS
  <2> HIDE DEF Slides
  <2> QED BY <1>3, <1>4, <2>1, SetInduction
<1>6. Number(s, k, n + 1) = b * Power2(n) + Number(s, k + 1, n)
  BY <1>5
<1> QED BY <1>1, <1>2, <1>6

\* It is a matter of its bits alone.
LEMMA NumberSame ==
  ASSUME NEW s, NEW t, NEW k \in Nat, NEW n \in Nat, Bits(s, k, n),
         \A i \in Nat : k <= i /\ i < k + n => s[i] = t[i]
  PROVE  Number(s, k, n) = Number(t, k, n)
<1> DEFINE Same == {m \in Nat : m <= n => Number(s, k, m) = Number(t, k, m)}
<1>1. \A m \in Nat : m <= n => Bits(s, k, m) /\ Bits(t, k, m)
  BY DEF Bits
<1>2. 0 \in Same
  BY <1>1, NumberFacts
<1>3. ASSUME NEW m \in Same PROVE m + 1 \in Same
  <2>1. m \in Nat /\ m + 1 \in Nat
    OBVIOUS
  <2>2. ASSUME m + 1 <= n PROVE Number(s, k, m + 1) = Number(t, k, m + 1)
    <3>1. /\ Number(s, k, m + 1) = 2 * Number(s, k, m) + s[k + m]
          /\ Number(t, k, m + 1) = 2 * Number(t, k, m) + t[k + m]
      <4>1. Bits(t, k, n)
        BY DEF Bits
      <4> QED BY <2>1, <2>2, <4>1, NumberGrows
    <3>2. s[k + m] = t[k + m] /\ Number(s, k, m) = Number(t, k, m)
      BY <2>1, <2>2
    <3> QED BY <3>1, <3>2
  <2> QED BY <2>1, <2>2
<1>4. Same = Nat
  <2>1. Same \in SUBSET Nat
    OBVIOUS
  <2> HIDE DEF Same
  <2> QED BY <1>2, <1>3, <2>1, SetInduction
<1> QED BY <1>4

-----------------------------------------------------------------------------
(***************************************************************************)
(* Shift registers.                                                        *)
(***************************************************************************)

\* A remainder is known by its quotient.
LEMMA Remainder ==
  ASSUME NEW m \in Nat, m > 0, NEW q \in Nat, NEW r \in Nat, r < m
  PROVE  (q * m + r) % m = r
<1>1. PICK x \in Nat : x = q * m + r
  OBVIOUS
<1>2. x % m = r
  BY <1>1
<1> QED BY <1>1, <1>2

LEMMA Quotient ==
  ASSUME NEW m \in Nat, m > 0, NEW x \in Nat
  PROVE  \E q \in Nat : x = q * m + (x % m) /\ x % m \in 0 .. m - 1
<1>1. /\ x \div m \in Int /\ x % m \in 0 .. m - 1
      /\ x = m * (x \div m) + (x % m)
  OBVIOUS
<1>2. PICK q \in Int, r \in 0 .. m - 1 : q = x \div m /\ r = x % m /\ x = m * q + r
  BY <1>1
<1>3. q >= 0
  <2>1. SUFFICES ASSUME q <= -1 PROVE FALSE
    OBVIOUS
  <2>2. m * q <= -m
    BY <2>1
  <2> QED BY <1>2, <2>2
<1> QED BY <1>2

\* A register of more bits is a register of fewer ones as well.
LEMMA PowerDivides ==
  ASSUME NEW n \in Nat, NEW d \in Nat
  PROVE  \E f \in Nat : f > 0 /\ Power2(n + d) = f * Power2(n)
<1> DEFINE Divides == {e \in Nat : \E f \in Nat : f > 0 /\ Power2(n + e) = f * Power2(n)}
<1>1. 0 \in Divides
  <2>1. n + 0 = n /\ Power2(n) \in Nat
    BY PowerFacts
  <2>2. Power2(n + 0) = 1 * Power2(n)
    BY <2>1
  <2> QED BY <2>2
<1>2. ASSUME NEW e \in Divides PROVE e + 1 \in Divides
  <2>1. PICK f \in Nat : f > 0 /\ Power2(n + e) = f * Power2(n)
    OBVIOUS
  <2>2. e \in Nat /\ n + e \in Nat /\ n + (e + 1) = (n + e) + 1
    OBVIOUS
  <2>3. Power2(n + (e + 1)) = 2 * (f * Power2(n))
    BY <2>1, <2>2, PowerFacts
  <2>4. 2 * f \in Nat /\ 2 * f > 0 /\ 2 * (f * Power2(n)) = (2 * f) * Power2(n)
    BY <2>1, PowerFacts
  <2>5. PICK h \in Nat : h = 2 * f
    BY <2>4
  <2>6. h > 0 /\ Power2(n + (e + 1)) = h * Power2(n)
    BY <2>3, <2>4, <2>5
  <2> QED BY <2>2, <2>6
<1>3. Divides \in SUBSET Nat
  OBVIOUS
<1>4. Divides = Nat
  <2> HIDE DEF Divides
  <2> QED BY <1>1, <1>2, <1>3, SetInduction
<1>5. d \in Divides
  <2> HIDE DEF Divides
  <2> QED BY <1>4
<1> QED BY <1>5

LEMMA RemainderOfRemainder ==
  ASSUME NEW m \in Nat, m > 0, NEW f \in Nat, f > 0, NEW x \in Nat
  PROVE  (x % (f * m)) % m = x % m
<1>1. PICK M \in Nat : M = f * m /\ M > 0
  OBVIOUS
<1>2. PICK q \in Nat : x = q * M + (x % M) /\ x % M \in 0 .. M - 1
  BY <1>1, Quotient
<1>3. PICK y \in Nat : y = x % M
  BY <1>2
<1>4. PICK p \in Nat : y = p * m + (y % m) /\ y % m \in 0 .. m - 1
  BY Quotient
<1>5. PICK r \in Nat : r = y % m /\ r < m /\ y = p * m + r
  BY <1>4
<1>6. x = (q * f + p) * m + r
  BY <1>1, <1>2, <1>3, <1>5
<1>7. x % m = r
  <2>1. PICK h \in Nat : h = q * f + p
    OBVIOUS
  <2>2. x = h * m + r
    BY <1>6, <2>1
  <2> QED BY <1>5, <2>2, Remainder
<1> QED BY <1>1, <1>3, <1>5, <1>7

\* A register whose low n bits spell the bits from k on spells those from k + 1
\* on once the next bit is shifted in.
LEMMA ShiftLaw ==
  ASSUME NEW s, NEW k \in Nat, NEW n \in Nat, Bits(s, k, n + 1),
         NEW r \in Nat, r % Power2(n) = Number(s, k, n)
  PROVE  (2 * r + s[k + n]) % Power2(n) = Number(s, k + 1, n)
<1>1. PICK P \in Nat : P = Power2(n) /\ P > 0
  BY PowerFacts
<1>2. PICK a \in {0, 1}, b \in {0, 1} : a = s[k] /\ b = s[k + n]
  <2>1. k + n \in Nat
    OBVIOUS
  <2> QED BY <2>1 DEF Bits
<1>3. Bits(s, k, n) /\ Bits(s, k + 1, n) /\ k + 1 \in Nat
  BY DEF Bits
<1>4. PICK u \in Nat, v \in Nat : u = Number(s, k, n) /\ v = Number(s, k + 1, n) /\ v < P
  BY <1>1, <1>3, NumberBound DEF Register
<1>5. PICK q \in Nat : r = q * P + u
  <2>1. \E q \in Nat : r = q * P + (r % P) /\ r % P \in 0 .. P - 1
    BY <1>1, Quotient
  <2>2. r % P = u
    BY <1>1, <1>4
  <2> QED BY <2>1, <2>2
<1>6. 2 * u + b = a * P + v
  BY <1>1, <1>2, <1>4, NumberSlides
<1>7. PICK h \in Nat : h = 2 * q + a
  BY <1>2
<1>8. 2 * r + b = h * P + v
  <2>1. 2 * r + b = 2 * (q * P) + (a * P + v)
    BY <1>1, <1>2, <1>4, <1>5, <1>6
  <2>2. h * P = 2 * (q * P) + a * P
    BY <1>1, <1>2, <1>7
  <2>3. q * P \in Nat /\ a * P \in Nat
    BY <1>1, <1>2
  <2> QED BY <1>2, <1>4, <2>1, <2>2, <2>3
<1> QED BY <1>1, <1>2, <1>4, <1>8, Remainder

-----------------------------------------------------------------------------
(***************************************************************************)
(* The registers hold what the stream holds around the offset reached.     *)
(***************************************************************************)
\* c bits alternate up to offset k, and no more.
RunAt(c, k) ==
  /\ c \in 0 .. k /\ (k > 0 => c > 0)
  /\ \A i \in (k - c) + 1 .. k - 1 : air[i] # air[i - 1]
  /\ c < k => air[k - c] = air[(k - c) - 1]
RegistersAt(r, k) ==
  /\ RunAt(r.counter, k)
  /\ r.lastBit = IF k = 0 THEN 2 ELSE air[k - 1]
  /\ r.sfdData = Number(air, k, SfdBits)
  /\ r.phrData \in Register(RegisterBits)
  /\ Header(r) = Number(air, k + SfdBits, OnAirPhrBits)
Registers == [counter |-> counter, lastBit |-> lastBit,
              sfdData |-> sfdData, phrData |-> phrData]

CorrelatorInv ==
  /\ TypeOK
  /\ RegistersAt(Registers, processed)
  /\ DetectionsAreStarts

LEMMA Constants ==
  /\ PreambleBits \in Nat /\ PreambleBits > 0 /\ SfdBits \in Nat /\ SfdBits > 0
  /\ OnAirPhrBits \in Nat /\ OnAirPhrBits > 0
  /\ LookAhead \in Nat /\ LookAhead = SfdBits + OnAirPhrBits
  /\ \E d \in Nat : RegisterBits = OnAirPhrBits + d
  /\ RegisterBits \in Nat /\ AirHorizon \in Nat
<1>1. RegisterBits - OnAirPhrBits \in Nat
      /\ RegisterBits = OnAirPhrBits + (RegisterBits - OnAirPhrBits)
  BY CorrelatorConstants
<1> QED BY <1>1, CorrelatorConstants DEF LookAhead

LEMMA AirBits ==
  ASSUME TypeOK
  PROVE  /\ size \in Nat /\ processed \in Nat /\ LookAhead <= size
         /\ processed + LookAhead <= size
         /\ \A k \in Nat : k < size => air[k] \in {0, 1}
         /\ \A k, n \in Nat : k + n <= size => Bits(air, k, n)
<1>1. size \in Nat /\ processed \in Nat /\ LookAhead <= size /\ processed + LookAhead <= size
  BY Constants DEF TypeOK
<1>2. \A k \in Nat : k < size => air[k] \in {0, 1}
  <2>1. \A k \in Nat : k < size => k \in 0 .. size - 1
    BY <1>1
  <2> QED BY <2>1 DEF TypeOK
<1>3. \A k, n \in Nat : k + n <= size => Bits(air, k, n)
  BY <1>1, <1>2 DEF Bits
<1> QED BY <1>1, <1>2, <1>3

\* The run of alternating bits after one more.
LEMMA RunStep ==
  ASSUME NEW k \in Nat, NEW c, RunAt(c, k),
         NEW last, last = (IF k = 0 THEN 2 ELSE air[k - 1]), air[k] \in {0, 1}
  PROVE  RunAt(IF air[k] # last THEN c + 1 ELSE 1, k + 1)
<1>1. c \in Nat /\ c <= k /\ (k > 0 => c > 0)
  BY DEF RunAt
<1>2. CASE air[k] # last
  <2>1. ASSUME NEW i \in ((k + 1) - (c + 1)) + 1 .. (k + 1) - 1 PROVE air[i] # air[i - 1]
    <3>1. i \in (k - c) + 1 .. k - 1 \/ i = k
      BY <1>1
    <3>2. ASSUME i = k PROVE air[i] # air[i - 1]
      <4>1. k # 0
        BY <1>1, <2>1, <3>2
      <4> QED BY <1>2, <3>2, <4>1
    <3> QED BY <3>1, <3>2 DEF RunAt
  <2>2. c + 1 < k + 1 => air[(k + 1) - (c + 1)] = air[((k + 1) - (c + 1)) - 1]
    <3>1. (k + 1) - (c + 1) = k - c
      BY <1>1
    <3> QED BY <1>1, <3>1 DEF RunAt
  <2>3. c + 1 \in 0 .. k + 1 /\ c + 1 > 0
    BY <1>1
  <2> QED BY <1>2, <2>1, <2>2, <2>3 DEF RunAt
<1>3. CASE air[k] = last
  <2>1. k # 0 /\ air[k] = air[k - 1]
    BY <1>3
  <2>2. (k + 1) - 1 = k /\ 1 \in 0 .. k + 1 /\ ((k + 1) - 1) + 1 .. (k + 1) - 1 = {}
    OBVIOUS
  <2>3. RunAt(1, k + 1)
    BY <2>1, <2>2 DEF RunAt
  <2> QED BY <1>3, <2>3
<1> QED BY <1>2, <1>3

\* One step of the registers.
LEMMA StepAt ==
  ASSUME TypeOK, NEW k \in Nat, k + LookAhead < size, NEW r, RegistersAt(r, k)
  PROVE  RegistersAt(Step(r, k), k + 1)
<1> DEFINE q == Step(r, k)
<1>1. /\ air[k] \in {0, 1}
      /\ Bits(air, k, SfdBits + 1) /\ Bits(air, k, SfdBits)
      /\ Bits(air, k + SfdBits, OnAirPhrBits + 1)
      /\ k + SfdBits \in Nat /\ (k + SfdBits) + OnAirPhrBits = k + LookAhead
      /\ (k + 1) + SfdBits = (k + SfdBits) + 1
      /\ air[k + LookAhead] \in {0, 1}
  BY AirBits, Constants
<1>2. RunAt(q.counter, k + 1)
  BY <1>1, RunStep DEF RegistersAt, Step
<1>3. q.lastBit = IF k + 1 = 0 THEN 2 ELSE air[(k + 1) - 1]
  <2>1. (k + 1) - 1 = k /\ k + 1 # 0
    OBVIOUS
  <2> QED BY <2>1 DEF Step
<1>4. q.sfdData = Number(air, k + 1, SfdBits)
  <2>1. q.sfdData = (2 * r.sfdData + air[k + SfdBits]) % Power2(SfdBits)
    BY DEF Step, Shifted
  <2>2. r.sfdData = Number(air, k, SfdBits) /\ r.sfdData \in Register(SfdBits)
    BY <1>1, Constants, NumberBound DEF RegistersAt
  <2>3. r.sfdData \in Nat /\ r.sfdData < Power2(SfdBits)
    BY <2>2, Constants, PowerFacts DEF Register
  <2>4. r.sfdData % Power2(SfdBits) = r.sfdData
    <3>1. PICK x \in Nat, P \in Nat : x = r.sfdData /\ P = Power2(SfdBits) /\ x < P
      BY <2>3, Constants, PowerFacts
    <3>2. x % P = x
      BY <3>1
    <3> QED BY <3>1, <3>2
  <2>5. r.sfdData % Power2(SfdBits) = Number(air, k, SfdBits)
    BY <2>2, <2>4
  <2> QED BY <1>1, <2>1, <2>3, <2>5, Constants, ShiftLaw
<1>5. /\ q.phrData \in Register(RegisterBits)
      /\ Header(q) = Number(air, (k + 1) + SfdBits, OnAirPhrBits)
  <2>1. q.phrData = (2 * r.phrData + air[k + LookAhead]) % Power2(RegisterBits)
    BY DEF Step, Shifted
  <2>2. r.phrData \in Nat
    BY Constants, PowerFacts DEF RegistersAt, Register
  <2>3. PICK x \in Nat : x = 2 * r.phrData + air[k + LookAhead]
    BY <1>1, <2>2
  <2>4. PICK R \in Nat : R = Power2(RegisterBits) /\ R > 0
    BY Constants, PowerFacts
  <2>5. q.phrData \in Register(RegisterBits)
    BY <2>1, <2>3, <2>4 DEF Register
  <2>6. PICK P \in Nat : P = Power2(OnAirPhrBits) /\ P > 0
    BY Constants, PowerFacts
  <2>7. PICK f \in Nat : f > 0 /\ R = f * P
    <3>1. PICK d \in Nat : RegisterBits = OnAirPhrBits + d
      BY Constants
    <3>2. \E f \in Nat : f > 0 /\ Power2(OnAirPhrBits + d) = f * Power2(OnAirPhrBits)
      BY Constants, PowerDivides
    <3> QED BY <2>4, <2>6, <3>1, <3>2
  <2>8. Header(q) = x % P
    <3>1. (x % (f * P)) % P = x % P
      BY <2>6, <2>7, RemainderOfRemainder
    <3>2. (x % R) % P = x % P
      BY <2>7, <3>1
    <3>3. Header(q) = q.phrData % P /\ q.phrData = x % R
      BY <2>1, <2>3, <2>4, <2>6 DEF Header
    <3> QED BY <3>2, <3>3
  <2>9. x % P = Number(air, (k + SfdBits) + 1, OnAirPhrBits)
    <3>1. r.phrData % Power2(OnAirPhrBits) = Number(air, k + SfdBits, OnAirPhrBits)
      BY DEF RegistersAt, Header
    <3>2. air[(k + SfdBits) + OnAirPhrBits] = air[k + LookAhead]
      BY <1>1
    <3>3. (2 * r.phrData + air[(k + SfdBits) + OnAirPhrBits]) % Power2(OnAirPhrBits)
            = Number(air, (k + SfdBits) + 1, OnAirPhrBits)
      BY <1>1, <2>2, <3>1, Constants, ShiftLaw
    <3> QED BY <2>3, <2>6, <3>2, <3>3
  <2> QED BY <1>1, <2>5, <2>8, <2>9
<1> HIDE DEF q
<1>6. RegistersAt(q, k + 1)
  BY <1>2, <1>3, <1>4, <1>5 DEF RegistersAt
<1> QED BY <1>6 DEF q

\* The counter counts the preamble.
LEMMA RunIsPreamble ==
  ASSUME NEW k \in Nat, NEW c, RunAt(c, k)
  PROVE  /\ c = Preamble(k)
         /\ k > 0 => (c >= PreambleBits <=>
                        /\ k >= PreambleBits
                        /\ \A j \in k - PreambleBits + 1 .. k - 1 : air[j] # air[j - 1])
<1>1. c \in Nat /\ c <= k /\ (k > 0 => c > 0)
  BY DEF RunAt
<1> DEFINE S == {j \in 0 .. k - 1 : \A i \in j + 1 .. k - 1 : air[i] # air[i - 1]}
<1>2. S = k - c .. k - 1
  <2>1. ASSUME NEW j \in k - c .. k - 1 PROVE j \in S
    <3>1. j \in 0 .. k - 1 /\ \A i \in j + 1 .. k - 1 : i \in (k - c) + 1 .. k - 1
      BY <1>1
    <3> QED BY <3>1 DEF RunAt
  <2>2. ASSUME NEW j \in S, ~(j \in k - c .. k - 1) PROVE FALSE
    <3>1. j \in Nat /\ j < k - c /\ c < k /\ k - c \in j + 1 .. k - 1
      BY <1>1, <2>2
    <3> QED BY <3>1 DEF RunAt
  <2>3. \A j \in S : j \in k - c .. k - 1
    BY <2>2
  <2> HIDE DEF S
  <2> QED BY <2>1, <2>3
<1>3. Preamble(k) = c
  <2>1. Preamble(k) = Cardinality(k - c .. k - 1)
    BY <1>2 DEF Preamble
  <2> QED BY <1>1, <2>1, FS_Interval
<1>4. ASSUME k > 0, c >= PreambleBits
      PROVE  k >= PreambleBits /\ \A j \in k - PreambleBits + 1 .. k - 1 : air[j] # air[j - 1]
  <2>1. \A j \in k - PreambleBits + 1 .. k - 1 : j \in (k - c) + 1 .. k - 1
    BY <1>1, <1>4, Constants
  <2> QED BY <1>1, <1>4, <2>1, Constants DEF RunAt
<1>5. ASSUME k > 0, k >= PreambleBits, ~(c >= PreambleBits),
             \A j \in k - PreambleBits + 1 .. k - 1 : air[j] # air[j - 1]
      PROVE  FALSE
  <2>1. c < k /\ k - c \in k - PreambleBits + 1 .. k - 1
    BY <1>1, <1>5, Constants
  <2> QED BY <1>5, <2>1 DEF RunAt
<1> QED BY <1>3, <1>4, <1>5

\* Where the registers hold what the stream holds, they detect what it starts.
LEMMA DetectedIsStart ==
  ASSUME NEW k \in Nat, k > 0, NEW r, RegistersAt(r, k)
  PROVE  /\ Detected(r) <=> IsStart(k)
         /\ Header(r) = Number(air, k + SfdBits, OnAirPhrBits)
         /\ r.counter = Preamble(k)
<1>1. /\ r.counter >= PreambleBits <=>
           /\ k >= PreambleBits
           /\ \A j \in k - PreambleBits + 1 .. k - 1 : air[j] # air[j - 1]
      /\ r.counter = Preamble(k)
  BY RunIsPreamble DEF RegistersAt
<1>2. r.lastBit = air[k - 1]
  BY DEF RegistersAt
<1> QED BY <1>1, <1>2 DEF RegistersAt, Detected, IsStart

\* The registers after each of the items a call processes.
LEMMA AfterFacts ==
  ASSUME TypeOK, RegistersAt(Registers, processed),
         NEW n \in Nat, n > 0, (processed + n) + LookAhead <= size
  PROVE  \A i \in 0 .. n : RegistersAt(RegistersAfter(n)[i], processed + i)
<1> DEFINE Kinds == [counter : Nat, lastBit : 0 .. 2, sfdData : Nat, phrData : Nat]
           After == RegistersAfter(n)
           step == [i \in Nat |-> [x \in Kinds |->
                      IF i \in 1 .. n THEN Step(x, processed + (i - 1)) ELSE x]]
<1>1. /\ processed \in Nat /\ size \in Nat
      /\ \A k \in Nat : k < size => air[k] \in {0, 1}
      /\ SfdBits \in Nat /\ LookAhead \in Nat /\ SfdBits <= LookAhead
      /\ Power2(SfdBits) \in Nat /\ Power2(SfdBits) > 0
      /\ Power2(RegisterBits) \in Nat /\ Power2(RegisterBits) > 0
  <2>1. SfdBits \in Nat /\ LookAhead \in Nat /\ SfdBits <= LookAhead /\ RegisterBits \in Nat
    BY Constants
  <2>2. Power2(SfdBits) \in Nat /\ Power2(SfdBits) > 0
    BY <2>1, PowerFacts
  <2>3. Power2(RegisterBits) \in Nat /\ Power2(RegisterBits) > 0
    BY <2>1, PowerFacts
  <2> QED BY <2>1, <2>2, <2>3, AirBits
<1>2. ASSUME NEW i \in 1 .. n, NEW x \in Kinds PROVE Step(x, processed + (i - 1)) \in Kinds
  <2>1. PICK k \in Nat : k = processed + (i - 1) /\ k + LookAhead < size
    BY <1>1
  <2>2. air[k] \in {0, 1} /\ air[k + SfdBits] \in {0, 1} /\ air[k + LookAhead] \in {0, 1}
    BY <1>1, <2>1
  <2>3. \A a \in Nat, b \in {0, 1} : /\ Shifted(a, b, SfdBits) \in Nat
                                     /\ Shifted(a, b, RegisterBits) \in Nat
    <3>1. PICK P \in Nat, R \in Nat : /\ P = Power2(SfdBits) /\ P > 0
                                      /\ R = Power2(RegisterBits) /\ R > 0
      BY <1>1
    <3>2. \A y \in Nat : y % P \in Nat /\ y % R \in Nat
      BY <3>1
    <3>3. \A a \in Nat, b \in {0, 1} : 2 * a + b \in Nat
      OBVIOUS
    <3> QED BY <3>1, <3>2, <3>3 DEF Shifted
  <2> QED BY <2>1, <2>2, <2>3 DEF Step
<1>3. step \in [Nat -> [Kinds -> Kinds]]
  <2> HIDE DEF Kinds
  <2> QED BY <1>2
<1>4. Registers \in Kinds
  <2>1. /\ counter \in Nat /\ lastBit \in 0 .. 2 /\ sfdData \in Nat /\ phrData \in Nat
    BY <1>1 DEF TypeOK, Register
  <2> QED BY <2>1 DEF Registers
<1>5. PICK f \in [0 .. n -> Kinds] : Recursive(f, n, Registers, step)
  <2> HIDE DEF Kinds, step
  <2> QED BY <1>3, <1>4, FiniteRecursion
<1>6. f = [i \in 0 .. n |-> IF i = 0 THEN [counter |-> counter, lastBit |-> lastBit,
                                            sfdData |-> sfdData, phrData |-> phrData]
                            ELSE Step(f[i - 1], processed + (i - 1))]
  <2>1. \A i \in 0 .. n : i # 0 => i \in 1 .. n /\ i \in Nat /\ i - 1 \in 0 .. n
    OBVIOUS
  <2>2. \A i \in 1 .. n : f[i - 1] \in Kinds
    <3> HIDE DEF Kinds
    <3> QED BY <2>1
  <2>3. \A i \in 1 .. n : step[i][f[i - 1]] = Step(f[i - 1], processed + (i - 1))
    <3> HIDE DEF Kinds
    <3> QED BY <2>1, <2>2
  <2>4. \A i \in 1 .. n : f[i] = Step(f[i - 1], processed + (i - 1))
    <3> HIDE DEF Kinds, step
    <3> QED BY <1>5, <2>3 DEF Recursive
  <2>5. f[0] = Registers
    BY <1>5 DEF Recursive
  <2>6. \A i \in 0 .. n : f[i] = IF i = 0 THEN Registers
                                 ELSE Step(f[i - 1], processed + (i - 1))
    BY <2>1, <2>4, <2>5
  <2> HIDE DEF Kinds, step
  <2> QED BY <2>6 DEF Registers
<1>7. After = [i \in 0 .. n |-> IF i = 0 THEN Registers
                                ELSE Step(After[i - 1], processed + (i - 1))]
  <2> HIDE DEF Kinds, step
  <2> QED BY <1>6 DEF RegistersAfter, Registers
<1> HIDE DEF After, Kinds, step
<1> DEFINE Right == {i \in Nat : i <= n => RegistersAt(After[i], processed + i)}
<1>8. 0 \in Right
  <2>1. After[0] = Registers /\ processed + 0 = processed
    BY <1>1, <1>7
  <2> QED BY <2>1
<1>9. ASSUME NEW i \in Right PROVE i + 1 \in Right
  <2>1. i \in Nat /\ i + 1 \in Nat /\ (i + 1) - 1 = i
    OBVIOUS
  <2>2. ASSUME i + 1 <= n PROVE RegistersAt(After[i + 1], processed + (i + 1))
    <3>1. RegistersAt(After[i], processed + i)
      BY <2>1, <2>2
    <3>2. After[i + 1] = Step(After[i], processed + i)
      <4>1. i + 1 \in 0 .. n /\ i + 1 # 0
        BY <2>1, <2>2
      <4> QED BY <1>7, <2>1, <4>1
    <3>3. processed + i \in Nat /\ (processed + i) + LookAhead < size
          /\ (processed + i) + 1 = processed + (i + 1)
      BY <1>1, <2>1, <2>2
    <3> QED BY <3>1, <3>2, <3>3, StepAt
  <2> QED BY <2>1, <2>2
<1>10. Right = Nat
  <2>1. Right \in SUBSET Nat
    OBVIOUS
  <2> HIDE DEF Right
  <2> QED BY <1>8, <1>9, <2>1, SetInduction
<1>11. \A i \in 0 .. n : RegistersAt(After[i], processed + i)
  BY <1>10
<1> QED BY <1>11 DEF After

LEMMA CorrelateStep ==
  ASSUME CorrelatorInv, Correlate
  PROVE  CorrelatorInv'
<1>1. TypeOK /\ RegistersAt(Registers, processed) /\ DetectionsAreStarts
  BY DEF CorrelatorInv
<1>2. PICK n \in 1 .. size - LookAhead - processed :
        /\ processed' = processed + n
        /\ counter' = RegistersAfter(n)[n].counter
        /\ lastBit' = RegistersAfter(n)[n].lastBit
        /\ sfdData' = RegistersAfter(n)[n].sfdData
        /\ phrData' = RegistersAfter(n)[n].phrData
        /\ detections' = detections \cup
             {[off |-> processed + i, length |-> FrameLength[Header(RegistersAfter(n)[i])],
               preamble |-> RegistersAfter(n)[i].counter] :
                i \in {j \in 1 .. n : Detected(RegistersAfter(n)[j])}}
        /\ UNCHANGED <<air, size>>
  BY DEF Correlate
<1>3. PICK after : after = RegistersAfter(n)
  OBVIOUS
<1>4. /\ n \in Nat /\ n > 0 /\ (processed + n) + LookAhead <= size
      /\ processed \in Nat /\ size \in Nat /\ LookAhead \in Nat
  BY <1>1, <1>2, AirBits, Constants
<1>5. \A i \in 0 .. n : RegistersAt(after[i], processed + i)
  BY <1>1, <1>3, <1>4, AfterFacts
<1>6. ASSUME NEW i \in 1 .. n
      PROVE  /\ Detected(after[i]) <=> IsStart(processed + i)
             /\ Header(after[i]) = Number(air, (processed + i) + SfdBits, OnAirPhrBits)
             /\ after[i].counter = Preamble(processed + i)
             /\ processed + i \in 1 .. processed + n
  <2>1. processed + i \in Nat /\ processed + i > 0 /\ i \in 0 .. n
        /\ processed + i \in 1 .. processed + n
    BY <1>4
  <2> QED BY <1>5, <2>1, DetectedIsStart
<1> DEFINE Found(k) == [off |-> k, length |-> FrameLength[Number(air, k + SfdBits, OnAirPhrBits)],
                        preamble |-> Preamble(k)]
<1>7. detections' = {Found(k) : k \in {j \in 1 .. processed + n : IsStart(j)}}
  <2>1. detections = {Found(k) : k \in {j \in 1 .. processed : IsStart(j)}}
    BY <1>1 DEF DetectionsAreStarts
  <2>2. detections' = detections \cup
          {[off |-> processed + i, length |-> FrameLength[Header(after[i])],
            preamble |-> after[i].counter] : i \in {j \in 1 .. n : Detected(after[j])}}
    BY <1>2, <1>3
  <2>3. \A i \in 1 .. n : /\ Detected(after[i]) <=> IsStart(processed + i)
                          /\ [off |-> processed + i, length |-> FrameLength[Header(after[i])],
                              preamble |-> after[i].counter] = Found(processed + i)
    BY <1>6
  <2> HIDE DEF Found
  <2>4. detections' = detections \cup {Found(processed + i) : i \in {j \in 1 .. n : IsStart(processed + j)}}
    BY <2>2, <2>3
  <2>5. \A k : k \in 1 .. processed + n <=>
                 k \in 1 .. processed \/ \E i \in 1 .. n : k = processed + i
    <3>1. \A k \in 1 .. processed + n : k \in 1 .. processed \/ (k - processed \in 1 .. n /\ k = processed + (k - processed))
      BY <1>4
    <3>2. \A i \in 1 .. n : processed + i \in 1 .. processed + n
      BY <1>6
    <3>3. \A k \in 1 .. processed : k \in 1 .. processed + n
      BY <1>4
    <3> QED BY <3>1, <3>2, <3>3
  <2> QED BY <2>1, <2>4, <2>5
<1>8. DetectionsAreStarts'
  <2>1. \A k : /\ IsStart(k)' = IsStart(k) /\ Found(k)' = Found(k)
    BY <1>2 DEF IsStart, Preamble
  <2> QED BY <1>2, <1>7, <2>1 DEF DetectionsAreStarts
<1>9. RegistersAt(after[n], processed + n)
  BY <1>4, <1>5
<1>10. /\ Registers' = [counter |-> after[n].counter, lastBit |-> after[n].lastBit,
                        sfdData |-> after[n].sfdData, phrData |-> after[n].phrData]
  BY <1>2, <1>3 DEF Registers
<1>11. RegistersAt(Registers, processed)'
  <2>1. RegistersAt(Registers', processed + n)
    BY <1>9, <1>10 DEF RegistersAt, Header
  <2>2. \A r, k : RegistersAt(r, k)' = RegistersAt(r, k)
    BY <1>2 DEF RegistersAt, RunAt, Header
  <2> QED BY <1>2, <2>1 DEF RegistersAt, RunAt, Header
<1>12. TypeOK'
  <2>1. processed' \in 0 .. size - LookAhead /\ processed' \in Nat
    BY <1>2, <1>4
  <2>2. counter' \in 0 .. processed' /\ lastBit' \in 0 .. 2
    BY <1>2, <1>3, <1>4, <1>9, AirBits, <1>1 DEF RegistersAt, RunAt
  <2>3. sfdData' \in Register(SfdBits)
    <3>1. Bits(air, processed + n, SfdBits) /\ processed + n \in Nat
      BY <1>1, <1>4, AirBits, Constants
    <3> QED BY <1>2, <1>3, <1>9, <3>1, NumberBound, Constants DEF RegistersAt
  <2>4. phrData' \in Register(RegisterBits)
    BY <1>2, <1>3, <1>9 DEF RegistersAt
  <2>5. \A d \in detections' : d.off \in 1 .. processed' /\ d.length > 0
    <3>1. \A k \in 1 .. processed + n : IsStart(k) => Found(k).off = k /\ Found(k).length > 0
      <4> TAKE k \in 1 .. processed + n
      <4> HAVE IsStart(k)
      <4>1. Bits(air, k + SfdBits, OnAirPhrBits) /\ k + SfdBits \in Nat
        BY <1>1, <1>4, AirBits, Constants
      <4>2. Number(air, k + SfdBits, OnAirPhrBits) \in Register(OnAirPhrBits)
        BY <4>1, Constants, NumberBound
      <4>3. FrameLength[Number(air, k + SfdBits, OnAirPhrBits)] \in Nat
        BY <4>2, CorrelatorConstants
      <4> QED BY <4>3 DEF IsStart
    <3> HIDE DEF Found
    <3> QED BY <1>2, <1>7, <3>1
  <2> QED BY <1>1, <1>2, <2>1, <2>2, <2>3, <2>4, <2>5 DEF TypeOK
<1> QED BY <1>8, <1>11, <1>12 DEF CorrelatorInv

\* A bit that arrives changes nothing of what has been processed.
LEMMA ReceiveStep ==
  ASSUME CorrelatorInv, Receive
  PROVE  CorrelatorInv'
<1>1. TypeOK /\ RegistersAt(Registers, processed) /\ DetectionsAreStarts
  BY DEF CorrelatorInv
<1>2. PICK b \in {0, 1} : air' = [k \in 0 .. size |-> IF k < size THEN air[k] ELSE b]
  BY DEF Receive
<1>3. /\ size' = size + 1 /\ size < LookAhead + AirHorizon
      /\ processed' = processed /\ detections' = detections
      /\ counter' = counter /\ lastBit' = lastBit /\ sfdData' = sfdData /\ phrData' = phrData
  BY DEF Receive, registers
<1>4. /\ size \in Nat /\ processed \in Nat /\ LookAhead \in Nat /\ AirHorizon \in Nat
      /\ processed + LookAhead <= size /\ LookAhead = SfdBits + OnAirPhrBits
      /\ SfdBits \in Nat /\ OnAirPhrBits \in Nat /\ PreambleBits \in Nat
  BY <1>1, AirBits, Constants
<1>5. \A k \in Nat : k < size => air'[k] = air[k]
  <2>1. \A k \in Nat : k < size => k \in 0 .. size
    BY <1>4
  <2> QED BY <1>2, <2>1
<1>6. \A k, n \in Nat : k + n <= size => Number(air', k, n) = Number(air, k, n)
  <2> TAKE k, n \in Nat
  <2> HAVE k + n <= size
  <2>1. Bits(air, k, n)
    BY <1>1, AirBits
  <2>2. PICK t : t = air'
    OBVIOUS
  <2>3. \A i \in Nat : k <= i /\ i < k + n => air[i] = t[i]
    BY <1>4, <1>5, <2>2
  <2>4. Number(air, k, n) = Number(t, k, n)
    BY <2>1, <2>3, NumberSame
  <2> QED BY <2>2, <2>4
<1>7. TypeOK'
  <2>1. air' \in [0 .. size' - 1 -> {0, 1}]
    <3>1. 0 .. size' - 1 = 0 .. size
      BY <1>3, <1>4
    <3>2. \A k \in 0 .. size : k < size => air[k] \in {0, 1}
      BY <1>1, AirBits
    <3> QED BY <1>2, <3>1, <3>2
  <2>2. size' \in LookAhead .. LookAhead + AirHorizon /\ processed \in 0 .. size' - LookAhead
    BY <1>3, <1>4
  <2> QED BY <1>1, <1>3, <2>1, <2>2 DEF TypeOK
<1>8. \A k \in 1 .. processed :
        /\ Number(air', k, SfdBits) = Number(air, k, SfdBits)
        /\ Number(air', k + SfdBits, OnAirPhrBits) = Number(air, k + SfdBits, OnAirPhrBits)
  <2> TAKE k \in 1 .. processed
  <2>1. k \in Nat /\ k + SfdBits \in Nat /\ k + SfdBits <= size
        /\ (k + SfdBits) + OnAirPhrBits <= size
    BY <1>4
  <2> QED BY <1>4, <1>6, <2>1
<1>9. \A k \in 1 .. processed : IsStart(k)' <=> IsStart(k)
  <2> TAKE k \in 1 .. processed
  <2>1. k >= PreambleBits => \A j \in k - PreambleBits + 1 .. k - 1 :
                               j \in Nat /\ j - 1 \in Nat /\ j < size /\ j - 1 < size
    BY <1>4
  <2>2. k - 1 \in Nat /\ k - 1 < size
    BY <1>4
  <2>3. air'[k - 1] = air[k - 1]
    BY <1>5, <2>2
  <2>4. k >= PreambleBits =>
          \A j \in k - PreambleBits + 1 .. k - 1 : air'[j] = air[j] /\ air'[j - 1] = air[j - 1]
    BY <1>5, <2>1
  <2> QED BY <1>8, <2>3, <2>4 DEF IsStart
<1>10. \A k \in 1 .. processed : Preamble(k)' = Preamble(k)
  <2> TAKE k \in 1 .. processed
  <2>1. \A j \in 0 .. k - 1, i \in Nat : i \in j + 1 .. k - 1 =>
          i - 1 \in Nat /\ i < size /\ i - 1 < size
    BY <1>4
  <2>2. \A j \in 0 .. k - 1 : \A i \in j + 1 .. k - 1 :
          air'[i] = air[i] /\ air'[i - 1] = air[i - 1]
    <3>1. \A j \in 0 .. k - 1 : \A i \in j + 1 .. k - 1 : i \in Nat
      OBVIOUS
    <3> QED BY <1>5, <2>1, <3>1
  <2>3. {j \in 0 .. k - 1 : \A i \in j + 1 .. k - 1 : air[i] # air[i - 1]}'
          = {j \in 0 .. k - 1 : \A i \in j + 1 .. k - 1 : air[i] # air[i - 1]}
    BY <2>2
  <2> QED BY <2>3 DEF Preamble
<1>11. DetectionsAreStarts'
  <2> DEFINE Found(k) == [off |-> k, length |-> FrameLength[Number(air, k + SfdBits, OnAirPhrBits)],
                          preamble |-> Preamble(k)]
  <2>1. \A k \in 1 .. processed : Found(k)' = Found(k)
    BY <1>8, <1>10
  <2>2. {j \in 1 .. processed : IsStart(j)}' = {j \in 1 .. processed : IsStart(j)}
    BY <1>3, <1>9
  <2>3. detections = {Found(k) : k \in {j \in 1 .. processed : IsStart(j)}}
    BY <1>1 DEF DetectionsAreStarts
  <2>4. detections' = {Found(k)' : k \in {j \in 1 .. processed : IsStart(j)}'}
    <3> HIDE DEF Found
    <3> QED BY <1>3, <2>1, <2>2, <2>3
  <2> QED BY <2>4 DEF DetectionsAreStarts
<1>12. RegistersAt(Registers, processed)'
  <2>1. Registers' = Registers
    BY <1>3 DEF Registers
  <2>2. PICK r : r = Registers
    OBVIOUS
  <2>3. /\ Number(air', processed, SfdBits) = Number(air, processed, SfdBits)
        /\ Number(air', processed + SfdBits, OnAirPhrBits)
             = Number(air, processed + SfdBits, OnAirPhrBits)
    <3>1. processed + SfdBits \in Nat /\ processed + SfdBits <= size
          /\ (processed + SfdBits) + OnAirPhrBits <= size
      BY <1>4
    <3> QED BY <1>4, <1>6, <3>1
  <2>4. processed # 0 => air'[processed - 1] = air[processed - 1]
    <3>1. processed # 0 => processed - 1 \in Nat /\ processed - 1 < size
      BY <1>4
    <3> QED BY <1>5, <3>1
  <2>5. RunAt(r.counter, processed)'
    <3>1. RunAt(r.counter, processed)
      BY <1>1, <2>2 DEF RegistersAt
    <3>2. PICK c \in 0 .. processed : c = r.counter
      BY <3>1 DEF RunAt
    <3>3. \A i \in (processed - c) + 1 .. processed - 1 :
            air'[i] = air[i] /\ air'[i - 1] = air[i - 1]
      <4>1. \A i \in (processed - c) + 1 .. processed - 1 :
              i \in Nat /\ i - 1 \in Nat /\ i < size /\ i - 1 < size
        BY <1>4
      <4> QED BY <1>5, <4>1
    <3>4. c < processed /\ c > 0 => /\ air'[processed - c] = air[processed - c]
                          /\ air'[(processed - c) - 1] = air[(processed - c) - 1]
      <4>1. c < processed /\ c > 0 =>
              /\ processed - c \in Nat /\ processed - c < size
              /\ (processed - c) - 1 \in Nat /\ (processed - c) - 1 < size
        BY <1>4
      <4> QED BY <1>5, <4>1
    <3>5. c < processed => c > 0
      BY <1>4, <3>1, <3>2 DEF RunAt
    <3> QED BY <1>3, <3>1, <3>2, <3>3, <3>4, <3>5 DEF RunAt
  <2>6. RegistersAt(r, processed)
    BY <1>1, <2>2
  <2>7. RegistersAt(r, processed)'
    BY <1>3, <2>3, <2>4, <2>5, <2>6 DEF RegistersAt, Header
  <2> QED BY <2>1, <2>2, <2>7 DEF RegistersAt, RunAt, Header
<1> QED BY <1>7, <1>11, <1>12 DEF CorrelatorInv

\* At the start the registers hold the zeros in front of the stream.
LEMMA CorrelatorInvInit == Init => CorrelatorInv
<1> SUFFICES ASSUME Init PROVE CorrelatorInv
  OBVIOUS
<1>1. /\ LookAhead \in Nat /\ AirHorizon \in Nat /\ SfdBits \in Nat /\ OnAirPhrBits \in Nat
      /\ RegisterBits \in Nat /\ LookAhead = SfdBits + OnAirPhrBits
      /\ Power2(SfdBits) > 0 /\ Power2(SfdBits) \in Nat
      /\ Power2(RegisterBits) > 0 /\ Power2(RegisterBits) \in Nat
      /\ Power2(OnAirPhrBits) > 0 /\ Power2(OnAirPhrBits) \in Nat
  <2>1. SfdBits \in Nat /\ OnAirPhrBits \in Nat /\ RegisterBits \in Nat
    BY Constants
  <2> QED BY <2>1, Constants, PowerFacts
<1>2. TypeOK
  BY <1>1 DEF Init, TypeOK, Register
<1>3. \A k, n \in Nat : k + n <= LookAhead => Number(air, k, n) = 0
  <2> TAKE k, n \in Nat
  <2> HAVE k + n <= LookAhead
  <2> DEFINE Zero == {m \in Nat : m <= n => Number(air, k, m) = 0}
  <2>1. Bits(air, k, n)
    <3>1. size = LookAhead
      BY DEF Init
    <3> QED BY <1>2, <3>1, AirBits
  <2>2. 0 \in Zero
    BY <2>1, NumberFacts
  <2>3. ASSUME NEW m \in Zero PROVE m + 1 \in Zero
    <3>1. m \in Nat /\ m + 1 \in Nat
      OBVIOUS
    <3>2. ASSUME m + 1 <= n PROVE Number(air, k, m + 1) = 0
      <4>1. Number(air, k, m + 1) = 2 * Number(air, k, m) + air[k + m]
        BY <2>1, <3>1, <3>2, NumberGrows
      <4>2. k + m \in 0 .. LookAhead - 1
        BY <1>1, <3>1, <3>2
      <4>3. air[k + m] = 0
        BY <4>2 DEF Init
      <4> QED BY <3>1, <3>2, <4>1, <4>3
    <3> QED BY <3>1, <3>2
  <2>4. Zero = Nat
    <3>1. Zero \in SUBSET Nat
      OBVIOUS
    <3> HIDE DEF Zero
    <3> QED BY <2>2, <2>3, <3>1, SetInduction
  <2> QED BY <2>4
<1>4. RegistersAt(Registers, processed)
  <2>1. processed = 0 /\ Registers = [counter |-> 0, lastBit |-> 2, sfdData |-> 0, phrData |-> 0]
    BY DEF Init, Registers
  <2>2. RunAt(0, 0)
    BY DEF RunAt
  <2>3. Number(air, 0, SfdBits) = 0 /\ Number(air, 0 + SfdBits, OnAirPhrBits) = 0
    BY <1>1, <1>3
  <2>4. 0 % Power2(OnAirPhrBits) = 0
    <3>1. PICK P \in Nat : P = Power2(OnAirPhrBits) /\ P > 0
      BY <1>1
    <3>2. 0 % P = 0
      BY <3>1
    <3> QED BY <3>1, <3>2
  <2>5. 0 \in Register(RegisterBits)
    BY <1>1 DEF Register
  <2> QED BY <2>1, <2>2, <2>3, <2>4, <2>5 DEF RegistersAt, Header
<1>5. DetectionsAreStarts
  <2>1. detections = {} /\ {j \in 1 .. processed : IsStart(j)} = {}
    BY DEF Init
  <2> QED BY <2>1 DEF DetectionsAreStarts
<1> QED BY <1>2, <1>4, <1>5 DEF CorrelatorInv

LEMMA CorrelatorStep == CorrelatorInv /\ [Next]_vars => CorrelatorInv'
<1> SUFFICES ASSUME CorrelatorInv, [Next]_vars PROVE CorrelatorInv'
  OBVIOUS
<1>1. CASE UNCHANGED vars
  <2>1. /\ air' = air /\ size' = size /\ processed' = processed /\ detections' = detections
        /\ counter' = counter /\ lastBit' = lastBit /\ sfdData' = sfdData /\ phrData' = phrData
    BY <1>1 DEF vars, registers
  <2>2. TypeOK'
    BY <2>1 DEF CorrelatorInv, TypeOK
  <2>3. RegistersAt(Registers, processed)'
    BY <2>1 DEF CorrelatorInv, RegistersAt, Registers, RunAt, Header
  <2>4. DetectionsAreStarts'
    <3>1. \A k : IsStart(k)' = IsStart(k) /\ Preamble(k)' = Preamble(k)
      BY <2>1 DEF IsStart, Preamble
    <3> QED BY <2>1, <3>1 DEF CorrelatorInv, DetectionsAreStarts
  <2> QED BY <2>2, <2>3, <2>4 DEF CorrelatorInv
<1> QED BY <1>1, ReceiveStep, CorrelateStep DEF Next

\* The shift registers and the counter always hold what the stream holds around
\* the offset reached, wherever the calls were cut.
THEOREM CorrelatorCorrect == Spec => []CorrelatorInv
BY CorrelatorInvInit, CorrelatorStep, PTL DEF Spec

THEOREM CorrelatorTypes == Spec => []TypeOK
<1>1. CorrelatorInv => TypeOK
  BY DEF CorrelatorInv
<1> QED BY <1>1, CorrelatorCorrect, PTL

\* Every start of a frame is tagged and nothing else, with its length and the
\* length of its preamble.
THEOREM StartsAreDetected == Spec => []DetectionsAreStarts
<1>1. CorrelatorInv => DetectionsAreStarts
  BY DEF CorrelatorInv
<1> QED BY <1>1, CorrelatorCorrect, PTL

-----------------------------------------------------------------------------
(***************************************************************************)
(* The delimiters of the standard: 1001000001001110 before a frame that is *)
(* not coded and 0110111101001110 before a coded one.                      *)
(***************************************************************************)
UncodedSfd == 36942
CodedSfd == 28494

\* How they begin.
LEMMA FirstBits ==
  ASSUME NEW s, NEW k \in Nat, Bits(s, k, 16)
  PROVE  /\ Number(s, k, 16) = UncodedSfd => s[k] = 1
         /\ Number(s, k, 16) = CodedSfd => s[k] = 0 /\ s[k + 1] = 1 /\ s[k + 2] = 1
<1>1. \A m \in Nat : m <= 15 =>
        /\ Number(s, k, m + 1) = 2 * Number(s, k, m) + s[k + m]
        /\ Number(s, k, m) \in Nat /\ s[k + m] \in {0, 1}
  <2> TAKE m \in Nat
  <2> HAVE m <= 15
  <2>1. m + 1 <= 16 /\ 16 \in Nat
    OBVIOUS
  <2> QED BY <2>1, NumberGrows
<1>2. /\ Number(s, k, 0) = 0 /\ Number(s, k, 16) \in Nat
  BY NumberFacts
<1> DEFINE N(m) == Number(s, k, m)
<1> HIDE DEF N
<1>3. \A m \in Nat : m <= 15 => N(m) \in Nat /\ (N(m + 1) = 2 * N(m) \/ N(m + 1) = 2 * N(m) + 1)
  BY <1>1 DEF N
<1>4. /\ N(1) = s[k] /\ N(2) = 2 * s[k] + s[k + 1] /\ N(3) = 4 * s[k] + 2 * s[k + 1] + s[k + 2]
      /\ s[k] \in {0, 1} /\ s[k + 1] \in {0, 1} /\ s[k + 2] \in {0, 1}
  <2>1. N(1) = 2 * 0 + s[k] /\ s[k] \in {0, 1}
    <3>1. /\ Number(s, k, 0 + 1) = 2 * Number(s, k, 0) + s[k + 0] /\ s[k + 0] \in {0, 1}
      BY <1>1
    <3>2. k + 0 = k
      OBVIOUS
    <3> QED BY <1>2, <3>1, <3>2 DEF N
  <2>2. N(2) = 2 * N(1) + s[k + 1] /\ s[k + 1] \in {0, 1}
    <3>1. /\ Number(s, k, 1 + 1) = 2 * Number(s, k, 1) + s[k + 1] /\ s[k + 1] \in {0, 1}
      BY <1>1
    <3> QED BY <3>1 DEF N
  <2>3. N(3) = 2 * N(2) + s[k + 2] /\ s[k + 2] \in {0, 1}
    <3>1. /\ Number(s, k, 2 + 1) = 2 * Number(s, k, 2) + s[k + 2] /\ s[k + 2] \in {0, 1}
      BY <1>1
    <3> QED BY <3>1 DEF N
  <2> QED BY <2>1, <2>2, <2>3
<1>5. N(16) \in 8192 * N(3) .. 8192 * N(3) + 8191
  <2>1. N(6) \in 8 * N(3) .. 8 * N(3) + 7 /\ N(3) \in Nat
    <3>1. /\ N(3) \in Nat /\ N(4) \in 2 * N(3) .. 2 * N(3) + 1
          /\ N(4) \in Nat /\ N(5) \in 2 * N(4) .. 2 * N(4) + 1
          /\ N(5) \in Nat /\ N(6) \in 2 * N(5) .. 2 * N(5) + 1
      BY <1>3
    <3> QED BY <3>1
  <2>2. N(9) \in 8 * N(6) .. 8 * N(6) + 7 /\ N(6) \in Nat
    <3>1. /\ N(6) \in Nat /\ N(7) \in 2 * N(6) .. 2 * N(6) + 1
          /\ N(7) \in Nat /\ N(8) \in 2 * N(7) .. 2 * N(7) + 1
          /\ N(8) \in Nat /\ N(9) \in 2 * N(8) .. 2 * N(8) + 1
      BY <1>3
    <3> QED BY <3>1
  <2>3. N(12) \in 8 * N(9) .. 8 * N(9) + 7 /\ N(9) \in Nat
    <3>1. /\ N(9) \in Nat /\ N(10) \in 2 * N(9) .. 2 * N(9) + 1
          /\ N(10) \in Nat /\ N(11) \in 2 * N(10) .. 2 * N(10) + 1
          /\ N(11) \in Nat /\ N(12) \in 2 * N(11) .. 2 * N(11) + 1
      BY <1>3
    <3> QED BY <3>1
  <2>4. N(16) \in 16 * N(12) .. 16 * N(12) + 15 /\ N(12) \in Nat
    <3>1. /\ N(12) \in Nat /\ N(13) \in 2 * N(12) .. 2 * N(12) + 1
          /\ N(13) \in Nat /\ N(14) \in 2 * N(13) .. 2 * N(13) + 1
          /\ N(14) \in Nat /\ N(15) \in 2 * N(14) .. 2 * N(14) + 1
          /\ N(15) \in Nat /\ N(16) \in 2 * N(15) .. 2 * N(15) + 1
      BY <1>3
    <3> QED BY <3>1
  <2> QED BY <2>1, <2>2, <2>3, <2>4
<1>6. N(16) = UncodedSfd => s[k] = 1
  BY <1>4, <1>5 DEF UncodedSfd
<1>7. N(16) = CodedSfd => s[k] = 0 /\ s[k + 1] = 1 /\ s[k + 2] = 1
  BY <1>4, <1>5 DEF CodedSfd
<1> QED BY <1>6, <1>7 DEF N

\* No two starts within the length of a preamble.
LEMMA StartsApart ==
  ASSUME PreambleBits = 16, SfdBits = 16, Sfd \in {UncodedSfd, CodedSfd}, TypeOK,
         NEW j \in 1 .. processed, NEW k \in 1 .. processed, j < k, k - j <= 16,
         IsStart(j), IsStart(k)
  PROVE  FALSE
<1>1. j \in Nat /\ k \in Nat /\ j >= 16 /\ k >= 16
  BY AirBits DEF IsStart
<1>2. \A i \in k - 15 .. k - 1 : air[i] # air[i - 1]
  <2>1. \A i \in k - 15 .. k - 1 : i \in k - PreambleBits + 1 .. k - 1
    BY <1>1
  <2> QED BY <2>1 DEF IsStart
<1>3. air[k - 1] = 1 /\ air[j - 1] = 1
  BY DEF IsStart
<1>4. Bits(air, j, 16) /\ Bits(air, k, 16)
  BY <1>1, AirBits, Constants
<1>5. /\ Number(air, j, 16) = Sfd /\ Number(air, k, 16) = Sfd
  BY DEF IsStart
<1>6. \A i \in 1 .. 16 : air[k - i] = IF i \in {1, 3, 5, 7, 9, 11, 13, 15} THEN 1 ELSE 0
  <2>1. \A i \in 1 .. 15 : air[k - i] # air[k - (i + 1)]
    <3>1. \A i \in 1 .. 15 : k - i \in k - 15 .. k - 1 /\ (k - i) - 1 = k - (i + 1)
      BY <1>1
    <3> QED BY <1>2, <3>1
  <2>2. \A i \in 1 .. 16 : air[k - i] \in {0, 1}
    <3>1. \A i \in 1 .. 16 : k - i \in Nat /\ k - i < size
      BY <1>1, AirBits, Constants
    <3> QED BY <3>1, AirBits
  <2>3. \A i \in 1 .. 15 : air[k - (i + 1)] = 1 - air[k - i]
    <3>1. \A i \in 1 .. 15 : i \in 1 .. 16 /\ i + 1 \in 1 .. 16
      OBVIOUS
    <3>2. \A x, y \in {0, 1} : x # y => y = 1 - x
      OBVIOUS
    <3> QED BY <2>1, <2>2, <3>1, <3>2
  <2>4. air[k - 2] = 0 /\ air[k - 3] = 1 /\ air[k - 4] = 0 /\ air[k - 5] = 1
    BY <1>3, <2>3
  <2>5. air[k - 6] = 0 /\ air[k - 7] = 1 /\ air[k - 8] = 0 /\ air[k - 9] = 1
    BY <2>3, <2>4
  <2>6. air[k - 10] = 0 /\ air[k - 11] = 1 /\ air[k - 12] = 0 /\ air[k - 13] = 1
    BY <2>3, <2>5
  <2>7. air[k - 14] = 0 /\ air[k - 15] = 1 /\ air[k - 16] = 0
    BY <2>3, <2>6
  <2> QED BY <1>3, <2>4, <2>5, <2>6, <2>7
<1>7. PICK d \in 1 .. 16 : d = k - j
  BY <1>1
<1>8. k - d = j /\ air[j] = IF d \in {1, 3, 5, 7, 9, 11, 13, 15} THEN 1 ELSE 0
  BY <1>1, <1>6, <1>7
<1>9. CASE Sfd = UncodedSfd
  <2>1. air[j] = 1
    BY <1>1, <1>4, <1>5, <1>9, FirstBits
  <2>2. d \in 1 .. 15
    BY <1>7, <1>8, <2>1
  <2>3. j \in k - 15 .. k - 1
    BY <1>1, <1>7, <2>2
  <2> QED BY <1>2, <1>3, <2>1, <2>3
<1>10. CASE Sfd = CodedSfd
  <2>1. /\ air[j] = 0 /\ air[j + 1] = 1 /\ air[j + 2] = 1 /\ air[k] = 0
    BY <1>1, <1>4, <1>5, <1>10, FirstBits
  <2>2. d # 1
    BY <1>8, <2>1
  <2>3. CASE d = 2
    <3>1. j + 2 = k
      BY <1>1, <1>7, <2>3
    <3> QED BY <2>1, <3>1
  <2>4. CASE d > 2
    <3>1. j + 2 \in k - 15 .. k - 1 /\ (j + 2) - 1 = j + 1
      BY <1>1, <1>7, <1>8, <2>1, <2>4
    <3> QED BY <1>2, <2>1, <3>1
  <2> QED BY <1>7, <2>2, <2>3, <2>4
<1> QED BY <1>9, <1>10

\* With the numbers of bits and the delimiters of the code
\* (correlate_sync_word_bb_impl.cc:23, 24, parameters.py:23, 24) no two frames start
\* within sixteen bits of one another, whatever is received: behind the gate two
\* length tags never fall into one octet.
DetectionsApart ==
  \A d, e \in detections : d.off < e.off => e.off - d.off > 16
THEOREM DetectionsAreApart ==
  ASSUME PreambleBits = 16, SfdBits = 16, Sfd \in {UncodedSfd, CodedSfd}
  PROVE  Spec => []DetectionsApart
<1>1. CorrelatorInv => DetectionsApart
  <2> SUFFICES ASSUME CorrelatorInv, NEW d \in detections, NEW e \in detections,
                      d.off < e.off, ~(e.off - d.off > 16)
               PROVE  FALSE
    BY DEF DetectionsApart
  <2>1. TypeOK /\ DetectionsAreStarts
    BY DEF CorrelatorInv
  <2>2. /\ d.off \in 1 .. processed /\ IsStart(d.off)
        /\ e.off \in 1 .. processed /\ IsStart(e.off)
    BY <2>1 DEF DetectionsAreStarts
  <2>3. e.off - d.off <= 16
    BY <2>2
  <2> QED BY <2>1, <2>2, <2>3, StartsApart
<1> QED BY <1>1, CorrelatorCorrect, PTL
=============================================================================

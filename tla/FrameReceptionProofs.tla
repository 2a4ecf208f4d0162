-------------------------- MODULE FrameReceptionProofs --------------------------
(***************************************************************************)
(* What Fec and FrameReception promise, for every setup and every length.  *)
(*                                                                         *)
(* The decoder first, for every sequence of symbols received: its          *)
(* survivors are as far from what was received as their metrics say, and   *)
(* no word into a state is nearer than its survivor, so what it returns is *)
(* a nearest word.  Then the distance of the code, which makes the nearest *)
(* word the one sent when little is damaged, up to its last bits.  Then    *)
(* the air: damaged bits are wrong bits of the code, one for one, through  *)
(* the interleaver.  Last the specification: TypeOK and ErrorsCorrected    *)
(* from inductive invariants.                                              *)
(***************************************************************************)
EXTENDS FrameReception, InductionLemmas, FiniteSetTheorems, SequenceTheorems,
        FunctionTheorems

-----------------------------------------------------------------------------
(***************************************************************************)
(* Words, their code, and how far that is from what was received.          *)
(***************************************************************************)
At(word, i) == IF i < 1 THEN 0 ELSE word[i]
StateBefore(word, i) == At(word, i - 1) + 2 * At(word, i - 2) + 4 * At(word, i - 3)
Code(word, i) == Output[StateBefore(word, i)][word[i]]

\* The bits in which the code of a word differs from the first n symbols received.
Wrong(word, symbols, n) ==
  {k \in (1 .. n) \X {1, 2} : Code(word, k[1])[k[2]] # symbols[k[1]][k[2]]}
Errors(word, symbols, n) == Cardinality(Wrong(word, symbols, n))

\* The table, from the bits of a state.
LEMMA OutputIs ==
  ASSUME NEW b1 \in Bit, NEW b2 \in Bit, NEW b3 \in Bit, NEW bit \in Bit
  PROVE  LET state == b1 + 2 * b2 + 4 * b3
         IN  /\ state \in 0 .. 7 /\ NextState(state, bit) = bit + 2 * b1 + 4 * b2
             /\ Output[state][bit]
                  = <<(1 + bit + b2 + b3) % 2, (1 + bit + b1 + b2 + b3) % 2>>
<1>1. PICK state \in 0 .. 7 :
        /\ state = b1 + 2 * b2 + 4 * b3
        /\ state % 4 = b1 + 2 * b2
        /\ state % 2 = b1 /\ (state \div 2) % 2 = b2 /\ state \div 4 = b3
  BY DEF Bit
<1>2. Output[state][bit] = <<(1 + bit + b2 + b3) % 2, (1 + bit + b1 + b2 + b3) % 2>>
  BY <1>1 DEF Output
<1>3. NextState(state, bit) = bit + 2 * b1 + 4 * b2
  BY <1>1 DEF NextState, Bit
<1> QED BY <1>1, <1>2, <1>3

\* Before its first bit a word is taken to hold zeros.
LEMMA AtBit ==
  ASSUME NEW word \in Seq(Bit), NEW i \in Int, i <= Len(word)
  PROVE  At(word, i) \in Bit
<1>1. CASE i < 1
  BY <1>1 DEF At, Bit
<1>2. CASE ~(i < 1)
  <2>1. i \in 1 .. Len(word)
    BY <1>2, LenProperties
  <2> QED BY <1>2, <2>1, ElementOfSeq DEF At
<1> QED BY <1>1, <1>2

\* The state behind a bit is the next state of the one before it, and a symbol of
\* the code is made of a bit and the three before it.
LEMMA CodeFacts ==
  ASSUME NEW word \in Seq(Bit), NEW i \in 1 .. Len(word)
  PROVE  /\ StateBefore(word, i) \in 0 .. 7
         /\ StateBefore(word, i + 1) = NextState(StateBefore(word, i), word[i])
         /\ StateBefore(word, i + 1) \in 0 .. 7
         /\ Code(word, i) = <<(1 + word[i] + At(word, i - 2) + At(word, i - 3)) % 2,
                              (1 + word[i] + At(word, i - 1)
                                 + At(word, i - 2) + At(word, i - 3)) % 2>>
         /\ Code(word, i) \in Bit \X Bit
<1>1. /\ At(word, i - 1) \in Bit /\ At(word, i - 2) \in Bit /\ At(word, i - 3) \in Bit
      /\ word[i] \in Bit /\ At(word, i) = word[i]
      /\ (i + 1) - 1 = i /\ (i + 1) - 2 = i - 1 /\ (i + 1) - 3 = i - 2
  <2>1. word[i] \in Bit
    BY ElementOfSeq
  <2>2. /\ i \in Int /\ ~(i < 1) /\ i - 1 \in Int /\ i - 2 \in Int /\ i - 3 \in Int
        /\ i - 1 <= Len(word) /\ i - 2 <= Len(word) /\ i - 3 <= Len(word)
    BY LenProperties
  <2>3. At(word, i - 1) \in Bit /\ At(word, i - 2) \in Bit /\ At(word, i - 3) \in Bit
    BY <2>2, AtBit
  <2>4. (i + 1) - 1 = i /\ (i + 1) - 2 = i - 1 /\ (i + 1) - 3 = i - 2
    BY <2>2
  <2> QED BY <2>1, <2>2, <2>3, <2>4 DEF At
<1>2. PICK b0 \in Bit, b1 \in Bit, b2 \in Bit, b3 \in Bit :
        /\ b0 = word[i] /\ b0 = At(word, i) /\ b1 = At(word, i - 1)
        /\ b2 = At(word, i - 2) /\ b3 = At(word, i - 3)
  BY <1>1
<1>3. StateBefore(word, i) = b1 + 2 * b2 + 4 * b3
  BY <1>2 DEF StateBefore
<1>4. StateBefore(word, i + 1) = b0 + 2 * b1 + 4 * b2
  BY <1>1, <1>2 DEF StateBefore
<1>5. Code(word, i) = <<(1 + b0 + b2 + b3) % 2, (1 + b0 + b1 + b2 + b3) % 2>>
  BY <1>2, <1>3, OutputIs DEF Code
<1>6. StateBefore(word, i + 1) \in 0 .. 7
  BY <1>4, OutputIs
<1>7. (1 + b0 + b2 + b3) % 2 \in Bit /\ (1 + b0 + b1 + b2 + b3) % 2 \in Bit
  BY DEF Bit
<1> QED BY <1>2, <1>3, <1>4, <1>5, <1>6, <1>7, OutputIs

\* The encoder.
LEMMA EncodedIs ==
  ASSUME NEW word \in Seq(Bit)
  PROVE  /\ Encoded(word) = [i \in 1 .. Len(word) |-> Code(word, i)]
         /\ Encoded(word) \in Seq(Bit \X Bit) /\ Len(Encoded(word)) = Len(word)
<1>1. Encoded(word) = [i \in 1 .. Len(word) |-> Code(word, i)]
  BY DEF Encoded, Code, StateBefore, At
<1>2. Encoded(word) \in [1 .. Len(word) -> Bit \X Bit]
  BY <1>1, CodeFacts
<1>3. Len(word) \in Nat
  BY LenProperties
<1> QED BY <1>1, <1>2, <1>3

\* The code of a symbol depends on the bits up to it.
LEMMA CodeLocal ==
  ASSUME NEW word, NEW other, NEW n \in Nat, \A i \in 1 .. n : word[i] = other[i],
         NEW i \in 1 .. n
  PROVE  /\ Code(word, i) = Code(other, i)
         /\ StateBefore(word, i) = StateBefore(other, i)
         /\ StateBefore(word, i + 1) = StateBefore(other, i + 1)
<1>1. ASSUME NEW j \in Int, j <= n PROVE At(word, j) = At(other, j)
  <2>1. CASE j < 1
    BY <2>1 DEF At
  <2>2. CASE ~(j < 1)
    <3>1. j \in 1 .. n
      BY <1>1, <2>2
    <3> QED BY <2>2, <3>1 DEF At
  <2> QED BY <2>1, <2>2
<1>2. /\ i - 1 \in Int /\ i - 2 \in Int /\ i - 3 \in Int /\ i \in Int
      /\ i - 1 <= n /\ i - 2 <= n /\ i - 3 <= n /\ i <= n
      /\ (i + 1) - 1 = i /\ (i + 1) - 2 = i - 1 /\ (i + 1) - 3 = i - 2
  OBVIOUS
<1>3. StateBefore(word, i) = StateBefore(other, i)
  BY <1>1, <1>2 DEF StateBefore
<1>4. StateBefore(word, i + 1) = StateBefore(other, i + 1)
  BY <1>1, <1>2 DEF StateBefore
<1> QED BY <1>3, <1>4 DEF Code

\* Sets of bits of symbols, and one symbol more.
LEMMA PairsFinite ==
  ASSUME NEW n \in Nat, NEW S, S \subseteq (1 .. n) \X {1, 2}
  PROVE  IsFiniteSet(S) /\ Cardinality(S) \in Nat
<1>1. IsFiniteSet(1 .. n)
  BY FS_Interval
<1>2. IsFiniteSet({1, 2})
  <2>1. IsFiniteSet({1} \cup {2})
    BY FS_Singleton, FS_AddElement
  <2>2. {1} \cup {2} = {1, 2}
    OBVIOUS
  <2> QED BY <2>1, <2>2
<1>3. IsFiniteSet((1 .. n) \X {1, 2})
  BY <1>1, <1>2, FS_Product
<1> QED BY <1>3, FS_Subset, FS_CardinalityType

\* The errors grow, symbol by symbol, by the disagreement of code and symbol.
LEMMA ErrorsStep ==
  ASSUME NEW word, NEW symbols, NEW n \in Nat
  PROVE  /\ Errors(word, symbols, n) \in Nat
         /\ Errors(word, symbols, 0) = 0
         /\ Errors(word, symbols, n + 1)
              = Errors(word, symbols, n) + Disagreement(Code(word, n + 1), symbols[n + 1])
<1> DEFINE W == Wrong(word, symbols, n)
           c == Code(word, n + 1)
           s == symbols[n + 1]
<1>1. IsFiniteSet(W) /\ Cardinality(W) \in Nat
  BY PairsFinite DEF Wrong
<1>2. <<n + 1, 1>> \notin W /\ <<n + 1, 2>> \notin W
  BY DEF Wrong
<1>3. Wrong(word, symbols, n + 1)
        = W \cup (IF c[1] = s[1] THEN {} ELSE {<<n + 1, 1>>})
            \cup (IF c[2] = s[2] THEN {} ELSE {<<n + 1, 2>>})
  <2>1. \A i \in 1 .. n + 1 : i \in 1 .. n \/ i = n + 1
    OBVIOUS
  <2>2. \A k : k \in (1 .. n + 1) \X {1, 2}
               <=> k \in (1 .. n) \X {1, 2} \/ k \in {<<n + 1, 1>>, <<n + 1, 2>>}
    BY <2>1
  <2> QED BY <2>2 DEF Wrong
<1>4. Errors(word, symbols, 0) = 0
  <2>1. (1 .. 0) \X {1, 2} = {}
    OBVIOUS
  <2>2. Wrong(word, symbols, 0) = {}
    BY <2>1 DEF Wrong
  <2> QED BY <2>2, FS_EmptySet DEF Errors
<1>5. Disagreement(c, s)
        = (IF c[1] = s[1] THEN 0 ELSE 1) + (IF c[2] = s[2] THEN 0 ELSE 1)
  BY DEF Disagreement, Differs
<1> DEFINE V == W \cup (IF c[1] = s[1] THEN {} ELSE {<<n + 1, 1>>})
<1>6. /\ IsFiniteSet(V) /\ <<n + 1, 2>> \notin V
      /\ Cardinality(V) = Cardinality(W) + (IF c[1] = s[1] THEN 0 ELSE 1)
  <2>1. CASE c[1] = s[1]
    <3>1. V = W
      BY <2>1
    <3> QED BY <1>1, <1>2, <2>1, <3>1
  <2>2. CASE c[1] # s[1]
    <3>1. V = W \cup {<<n + 1, 1>>} /\ <<n + 1, 2>> \notin V
      BY <1>2, <2>2
    <3>2. IsFiniteSet(W \cup {<<n + 1, 1>>})
          /\ Cardinality(W \cup {<<n + 1, 1>>}) = Cardinality(W) + 1
      <4> HIDE DEF W
      <4> QED BY <1>1, <1>2, FS_AddElement
    <3> HIDE DEF V, W
    <3> QED BY <2>2, <3>1, <3>2
  <2> QED BY <2>1, <2>2
<1>7. Cardinality(V \cup (IF c[2] = s[2] THEN {} ELSE {<<n + 1, 2>>}))
        = Cardinality(V) + (IF c[2] = s[2] THEN 0 ELSE 1)
  <2>1. Cardinality(V) \in Nat
    BY <1>6, FS_CardinalityType
  <2>2. CASE c[2] = s[2]
    <3>1. V \cup {} = V
      OBVIOUS
    <3> HIDE DEF V
    <3> QED BY <2>1, <2>2, <3>1
  <2>3. CASE c[2] # s[2]
    <3> HIDE DEF V
    <3> QED BY <1>6, <2>3, FS_AddElement
  <2> QED BY <2>2, <2>3
<1>8. Errors(word, symbols, n + 1)
        = Cardinality(V \cup (IF c[2] = s[2] THEN {} ELSE {<<n + 1, 2>>}))
  BY <1>3 DEF Errors
<1>9. Errors(word, symbols, n) = Cardinality(W)
  BY DEF Errors
<1> HIDE DEF W, c, s, V
<1>10. Errors(word, symbols, n + 1) = Errors(word, symbols, n) + Disagreement(c, s)
  <2>1. PICK x \in Nat : x = Cardinality(W)
    BY <1>1
  <2>2. PICK d1 \in {0, 1}, d2 \in {0, 1} :
          /\ d1 = (IF c[1] = s[1] THEN 0 ELSE 1) /\ d2 = (IF c[2] = s[2] THEN 0 ELSE 1)
    OBVIOUS
  <2>3. /\ Cardinality(V) = x + d1
        /\ Errors(word, symbols, n + 1) = Cardinality(V) + d2
        /\ Disagreement(c, s) = d1 + d2 /\ Errors(word, symbols, n) = x
    BY <1>5, <1>6, <1>7, <1>8, <1>9, <2>1, <2>2
  <2>4. Errors(word, symbols, n + 1) = (x + d1) + d2
    BY <2>3
  <2> QED BY <2>3, <2>4
<1> QED BY <1>1, <1>4, <1>9, <1>10 DEF c, s

-----------------------------------------------------------------------------
(***************************************************************************)
(* The Viterbi decoder: after n symbols the survivors are words that are   *)
(* as far from what was received as their metric says, and into the state  *)
(* any word leads to, one leads that is no further away.                   *)
(***************************************************************************)
Path == [state : 0 .. 7, from : 0 .. 7, metric : Nat, bits : Seq(Bit)]
Words(n) == {word \in Seq(Bit) : Len(word) = n}

Survivor(s, symbols, n) ==
  /\ s \in Path /\ s.bits \in Words(n)
  /\ s.state = StateBefore(s.bits, n + 1)
  /\ s.metric = Errors(s.bits, symbols, n)

Survivors(set, symbols, n) ==
  /\ \A s \in set : Survivor(s, symbols, n)
  /\ \A word \in Words(n) :
       \E s \in set : /\ s.state = StateBefore(word, n + 1)
                      /\ s.metric <= Errors(word, symbols, n)

\* Words that begin alike, do so in their code and the state behind.
Agree(word, other, n) == \A i \in 1 .. n : word[i] = other[i]

\* The errors in the first symbols depend on the first bits only.
LEMMA PrefixErrors ==
  ASSUME NEW word, NEW other, NEW symbols, NEW n \in Nat, Agree(word, other, n)
  PROVE  Errors(word, symbols, n) = Errors(other, symbols, n)
<1>1. \A i \in 1 .. n : Code(word, i) = Code(other, i)
  BY CodeLocal DEF Agree
<1>2. Wrong(word, symbols, n) = Wrong(other, symbols, n)
  BY <1>1 DEF Wrong
<1> QED BY <1>2 DEF Errors

\* So does the state behind them.
LEMMA PrefixState ==
  ASSUME NEW word, NEW other, NEW n \in Nat, Agree(word, other, n)
  PROVE  StateBefore(word, n + 1) = StateBefore(other, n + 1)
<1>1. CASE n = 0
  BY <1>1 DEF StateBefore, At
<1>2. CASE n # 0
  <2>1. n \in 1 .. n
    BY <1>2
  <2> QED BY <2>1, CodeLocal DEF Agree
<1> QED BY <1>1, <1>2

\* The state behind a word is one of the eight.
LEMMA StateBehind ==
  ASSUME NEW n \in Nat, NEW word \in Words(n)
  PROVE  StateBefore(word, n + 1) \in 0 .. 7
<1>1. CASE n = 0
  BY <1>1 DEF StateBefore, At
<1>2. CASE n # 0
  <2>1. n \in 1 .. Len(word) /\ word \in Seq(Bit)
    BY <1>2 DEF Words
  <2> QED BY <2>1, CodeFacts
<1> QED BY <1>1, <1>2

\* One bit more.
Longer(longer, word, bit, n) ==
  longer \in Words(n + 1) /\ Agree(longer, word, n) /\ longer[n + 1] = bit

\* A bit appended makes a longer word.
LEMMA OneBitMore ==
  ASSUME NEW n \in Nat, NEW word \in Words(n), NEW bit \in Bit
  PROVE  Longer(Append(word, bit), word, bit, n)
<1> DEFINE longer == Append(word, bit)
<1>1. word \in Seq(Bit) /\ Len(word) = n
  BY DEF Words
<1>2. /\ longer \in Seq(Bit) /\ Len(longer) = n + 1
      /\ longer[n + 1] = bit /\ \A i \in 1 .. n : longer[i] = word[i]
  BY <1>1, AppendProperties
<1> HIDE DEF longer
<1>3. Longer(longer, word, bit, n)
  BY <1>2 DEF Words, Longer, Agree
<1> QED BY <1>3 DEF longer

\* The symbol it adds is the output of the state behind the word.
LEMMA OneBitCode ==
  ASSUME NEW n \in Nat, NEW word \in Words(n), NEW bit \in Bit,
         NEW longer, Longer(longer, word, bit, n)
  PROVE  Code(longer, n + 1) = Output[StateBefore(word, n + 1)][bit]
<1>1. StateBefore(longer, n + 1) = StateBefore(word, n + 1)
  BY PrefixState DEF Longer
<1>2. longer[n + 1] = bit
  BY DEF Longer
<1> QED BY <1>1, <1>2 DEF Code

\* The state behind the longer word.
LEMMA OneBitState ==
  ASSUME NEW n \in Nat, NEW word \in Words(n), NEW bit \in Bit,
         NEW longer, Longer(longer, word, bit, n)
  PROVE  /\ StateBefore(longer, n + 2) = NextState(StateBefore(word, n + 1), bit)
         /\ StateBefore(longer, n + 2) \in 0 .. 7
<1>1. StateBefore(longer, n + 1) = StateBefore(word, n + 1)
  BY PrefixState DEF Longer
<1>2. longer[n + 1] = bit
  BY DEF Longer
<1>3. longer \in Seq(Bit) /\ n + 1 \in 1 .. Len(longer) /\ (n + 1) + 1 = n + 2
  BY DEF Words, Longer
<1> QED BY <1>1, <1>2, <1>3, CodeFacts

\* The errors of the longer word.
LEMMA OneBitErrors ==
  ASSUME NEW n \in Nat, NEW word \in Words(n), NEW bit \in Bit, NEW symbols,
         NEW longer, Longer(longer, word, bit, n)
  PROVE  Errors(longer, symbols, n + 1)
           = Errors(word, symbols, n)
               + Disagreement(Output[StateBefore(word, n + 1)][bit], symbols[n + 1])
<1>1. Code(longer, n + 1) = Output[StateBefore(word, n + 1)][bit]
  BY OneBitCode
<1>2. Errors(longer, symbols, n) = Errors(word, symbols, n)
  BY PrefixErrors DEF Longer
<1> QED BY <1>1, <1>2, ErrorsStep

\* A branch of a survivor is what a bit more makes of its word.
LEMMA BranchIs ==
  ASSUME NEW n \in Nat, NEW symbols, NEW s, Survivor(s, symbols, n), NEW bit \in Bit
  PROVE  LET b == Branch(s, bit, symbols[n + 1])
         IN  /\ Survivor(b, symbols, n + 1)
             /\ b.from = s.state /\ b.bits = Append(s.bits, bit)
             /\ b.state = bit + 2 * (s.state % 4)
<1> DEFINE b == Branch(s, bit, symbols[n + 1])
<1>1. /\ s \in Path /\ s.bits \in Words(n) /\ s.state = StateBefore(s.bits, n + 1)
      /\ s.metric = Errors(s.bits, symbols, n)
  BY DEF Survivor
<1>2. /\ b.state = NextState(s.state, bit) /\ b.from = s.state
      /\ b.metric = s.metric + Disagreement(Output[s.state][bit], symbols[n + 1])
      /\ b.bits = Append(s.bits, bit)
      /\ b = [state |-> b.state, from |-> b.from, metric |-> b.metric, bits |-> b.bits]
  BY DEF Branch
<1>3. /\ b.bits \in Words(n + 1) /\ b.state \in 0 .. 7
      /\ b.state = StateBefore(b.bits, n + 2)
      /\ b.metric = Errors(b.bits, symbols, n + 1)
  <2>1. Longer(b.bits, s.bits, bit, n)
    BY <1>1, <1>2, OneBitMore
  <2> HIDE DEF b
  <2>2. b.bits \in Words(n + 1)
    BY <2>1 DEF Longer
  <2>3. b.state = StateBefore(b.bits, n + 2) /\ b.state \in 0 .. 7
    BY <1>1, <1>2, <2>1, OneBitState
  <2>4. b.metric = Errors(b.bits, symbols, n + 1)
    BY <1>1, <1>2, <2>1, OneBitErrors
  <2> QED BY <2>2, <2>3, <2>4
<1>4. b.from \in 0 .. 7 /\ b.metric \in Nat /\ b.bits \in Seq(Bit)
  <2> HIDE DEF b
  <2>1. b.metric \in Nat
    BY <1>3, ErrorsStep
  <2>2. b.from \in 0 .. 7
    BY <1>1, <1>2 DEF Path
  <2>3. b.bits \in Seq(Bit)
    BY <1>3 DEF Words
  <2> QED BY <2>1, <2>2, <2>3
<1> HIDE DEF b
<1>5. b \in Path
  BY <1>2, <1>3, <1>4 DEF Path
<1>6. Survivor(b, symbols, n + 1)
  <2>1. (n + 1) + 1 = n + 2
    OBVIOUS
  <2> QED BY <1>3, <1>5, <2>1 DEF Survivor
<1>7. b.state = bit + 2 * (s.state % 4)
  BY <1>2 DEF NextState
<1> QED BY <1>2, <1>6, <1>7 DEF b

\* Of paths, one is best: by metric, and of several by a number of 0 to 7.
LEMMA BestExists ==
  ASSUME NEW meeting \in SUBSET Path, meeting # {}, NEW rank \in [Path -> 0 .. 7]
  PROVE  \E b \in meeting : \A rival \in meeting :
           b.metric < rival.metric
             \/ (b.metric = rival.metric /\ rank[b] <= rank[rival])
<1> DEFINE key(p) == 8 * p.metric + rank[p]
           keys == {key(p) : p \in meeting}
<1>1. \A p \in meeting : p.metric \in Nat /\ rank[p] \in 0 .. 7 /\ rank[p] \in Nat
  <2>1. ASSUME NEW p \in meeting
        PROVE  p.metric \in Nat /\ rank[p] \in 0 .. 7 /\ rank[p] \in Nat
    <3>1. p \in Path
      OBVIOUS
    <3>2. p.metric \in Nat
      BY <3>1 DEF Path
    <3>3. rank[p] \in 0 .. 7
      BY <3>1
    <3> QED BY <3>2, <3>3
  <2> QED BY <2>1
<1>2. \A p \in meeting : key(p) \in Nat
  BY <1>1
<1>3. keys \in SUBSET Nat /\ keys # {}
  <2> HIDE DEF key
  <2> QED BY <1>2
<1>4. PICK least \in keys : \A k \in keys : least <= k
  <2> HIDE DEF keys
  <2> QED BY <1>3, LeastNatural
<1>5. PICK b \in meeting : least = key(b)
  <2> HIDE DEF key
  <2> QED BY <1>4
<1>6. ASSUME NEW rival \in meeting
      PROVE  b.metric < rival.metric
               \/ (b.metric = rival.metric /\ rank[b] <= rank[rival])
  <2>1. key(b) <= key(rival)
    <3> HIDE DEF key
    <3> QED BY <1>4, <1>5
  <2>2. PICK m1 \in Nat, m2 \in Nat, r1 \in 0 .. 7, r2 \in 0 .. 7 :
          m1 = b.metric /\ m2 = rival.metric /\ r1 = rank[b] /\ r2 = rank[rival]
    BY <1>1
  <2>3. 8 * m1 + r1 <= 8 * m2 + r2
    BY <2>1, <2>2
  <2>4. m1 < m2 \/ (m1 = m2 /\ r1 <= r2)
    BY <2>3
  <2> QED BY <2>2, <2>4
<1> QED BY <1>6

\* Before the first symbol the empty word is the one survivor.
LEMMA StartSurvives ==
  ASSUME NEW symbols
  PROVE  Survivors(Start, symbols, 0)
<1>1. ASSUME NEW word PROVE StateBefore(word, 1) = 0
  BY DEF StateBefore, At
<1>2. ASSUME NEW word PROVE Errors(word, symbols, 0) = 0
  BY ErrorsStep
<1>3. \A s \in Start : Survivor(s, symbols, 0)
  <2> DEFINE s == [state |-> 0, from |-> 0, metric |-> 0, bits |-> <<>>]
  <2>1. s \in Path /\ s.bits \in Words(0) /\ s.state = 0 /\ s.metric = 0
    BY DEF Path, Words
  <2>2. 0 + 1 = 1
    OBVIOUS
  <2> HIDE DEF s
  <2>3. Survivor(s, symbols, 0)
    BY <1>1, <1>2, <2>1, <2>2 DEF Survivor
  <2> QED BY <2>3 DEF Start, s
<1>4. ASSUME NEW word
      PROVE  \E s \in Start : /\ s.state = StateBefore(word, 0 + 1)
                              /\ s.metric <= Errors(word, symbols, 0)
  <2>1. 0 + 1 = 1
    OBVIOUS
  <2> QED BY <1>1, <1>2, <2>1 DEF Start
<1> QED BY <1>3, <1>4 DEF Survivors

\* The paths after one more symbol survive as those before did.
LEMMA ExtendedSurvives ==
  ASSUME NEW set, NEW symbols, NEW n \in Nat, Survivors(set, symbols, n)
  PROVE  Survivors(Extended(set, symbols[n + 1]), symbols, n + 1)
<1> DEFINE meeting(bit, before) ==
             {Branch(s, bit, symbols[n + 1]) : s \in {q \in set : q.state % 4 = before}}
           winners(bit, before) ==
             {b \in meeting(bit, before) : \A rival \in meeting(bit, before) : Wins(b, rival)}
           next == Extended(set, symbols[n + 1])
<1>1. next = UNION {winners(bit, before) : bit \in Bit, before \in 0 .. 3}
  BY DEF Extended
<1>2. \A t \in next : Survivor(t, symbols, n + 1)
  <2>1. ASSUME NEW t \in next PROVE Survivor(t, symbols, n + 1)
    <3>1. PICK bit \in Bit, before \in 0 .. 3 : t \in winners(bit, before)
      BY <1>1
    <3>2. PICK s \in set : t = Branch(s, bit, symbols[n + 1])
      BY <3>1
    <3>3. Survivor(s, symbols, n)
      BY DEF Survivors
    <3> QED BY <3>2, <3>3, BranchIs
  <2> QED BY <2>1
<1>3. ASSUME NEW word \in Words(n + 1)
      PROVE  \E t \in next : /\ t.state = StateBefore(word, (n + 1) + 1)
                             /\ t.metric <= Errors(word, symbols, n + 1)
  <2>1. word \in Seq(Bit) /\ Len(word) = n + 1 /\ n + 1 \in 1 .. Len(word)
    BY DEF Words
  <2>2. PICK bit \in Bit : bit = word[n + 1]
    BY <2>1, ElementOfSeq
  <2>3. PICK before \in Words(n) : \A i \in 1 .. n : before[i] = word[i]
    <3> DEFINE prefix == SubSeq(word, 1, n)
    <3>1. prefix \in Seq(Bit) /\ Len(prefix) = n /\ \A i \in 1 .. n : prefix[i] = word[i]
      BY <2>1, SubSeqProperties
    <3> HIDE DEF prefix
    <3>2. prefix \in Words(n)
      BY <3>1 DEF Words
    <3> QED BY <3>1, <3>2
  <2>4. PICK s \in set : /\ s.state = StateBefore(before, n + 1)
                         /\ s.metric <= Errors(before, symbols, n)
    BY DEF Survivors
  <2>5. Survivor(s, symbols, n)
    BY DEF Survivors
  <2> DEFINE longer == Append(before, bit)
             b == Branch(s, bit, symbols[n + 1])
             m == meeting(bit, s.state % 4)
  <2>6. s.state \in 0 .. 7 /\ s.state % 4 \in 0 .. 3 /\ s.metric \in Nat
    <3>1. s.state \in 0 .. 7 /\ s.metric \in Nat
      BY <2>5 DEF Survivor, Path
    <3> QED BY <3>1
  <2>7. Longer(longer, before, bit, n)
    BY OneBitMore
  <2> HIDE DEF longer
  <2>8. Agree(word, longer, n + 1)
    <3>1. \A i \in 1 .. n + 1 : i \in 1 .. n \/ i = n + 1
      OBVIOUS
    <3> QED BY <2>2, <2>3, <2>7, <3>1 DEF Longer, Agree
  <2>9. /\ Errors(word, symbols, n + 1) = Errors(longer, symbols, n + 1)
        /\ StateBefore(word, (n + 1) + 1) = StateBefore(longer, (n + 1) + 1)
    <3>1. n + 1 \in Nat
      OBVIOUS
    <3>2. Errors(word, symbols, n + 1) = Errors(longer, symbols, n + 1)
      BY <2>8, <3>1, PrefixErrors
    <3>3. StateBefore(word, (n + 1) + 1) = StateBefore(longer, (n + 1) + 1)
      BY <2>8, <3>1, PrefixState
    <3> QED BY <3>2, <3>3
  <2>10. b.metric <= Errors(word, symbols, n + 1)
    <3>1. b.metric = s.metric + Disagreement(Output[s.state][bit], symbols[n + 1])
      BY DEF Branch
    <3>2. PICK e \in Nat : e = Errors(before, symbols, n)
      BY ErrorsStep
    <3>3. PICK d \in Nat : d = Disagreement(Output[s.state][bit], symbols[n + 1])
      BY DEF Disagreement, Differs
    <3>4. Errors(longer, symbols, n + 1)
            = Errors(before, symbols, n)
                + Disagreement(Output[StateBefore(before, n + 1)][bit], symbols[n + 1])
      BY <2>7, OneBitErrors
    <3> HIDE DEF b
    <3>5. Errors(longer, symbols, n + 1) = e + d
      BY <2>4, <3>2, <3>3, <3>4
    <3>6. b.metric = s.metric + d /\ s.metric <= e
      BY <2>4, <3>1, <3>2, <3>3
    <3> QED BY <2>6, <2>9, <3>5, <3>6
  <2>11. b.state = StateBefore(word, (n + 1) + 1)
    <3>1. b.state = NextState(s.state, bit) /\ (n + 1) + 1 = n + 2
      BY DEF Branch
    <3>2. StateBefore(longer, n + 2) = NextState(StateBefore(before, n + 1), bit)
      BY <2>7, OneBitState
    <3> HIDE DEF b
    <3> QED BY <2>4, <2>9, <3>1, <3>2
  <2>12. b \in m
    OBVIOUS
  <2>13. ASSUME NEW t \in m
         PROVE  t \in Path /\ t.state = b.state
    <3>1. PICK q \in set : q.state % 4 = s.state % 4 /\ t = Branch(q, bit, symbols[n + 1])
      OBVIOUS
    <3>2. Survivor(q, symbols, n)
      BY DEF Survivors
    <3>3. /\ Survivor(t, symbols, n + 1) /\ t.state = bit + 2 * (q.state % 4)
          /\ b.state = bit + 2 * (s.state % 4)
      <4> HIDE DEF m, meeting
      <4> QED BY <2>5, <3>1, <3>2, BranchIs
    <3> HIDE DEF b, m, meeting
    <3> QED BY <3>1, <3>3 DEF Survivor
  <2>14. PICK t \in m : \A rival \in m : Wins(t, rival)
    <3> DEFINE rank == [p \in Path |-> p.from]
    <3>1. rank \in [Path -> 0 .. 7]
      BY DEF Path
    <3>2. m \in SUBSET Path /\ m # {}
      <4> HIDE DEF m, meeting, b
      <4> QED BY <2>12, <2>13
    <3>3. \A p \in m : rank[p] = p.from
      <4> HIDE DEF m, meeting, b
      <4> QED BY <3>2
    <3>4. PICK t \in m : \A rival \in m :
            t.metric < rival.metric
              \/ (t.metric = rival.metric /\ rank[t] <= rank[rival])
      <4> HIDE DEF m, meeting, b, rank
      <4> QED BY <3>1, <3>2, BestExists
    <3> HIDE DEF m, meeting, b, rank
    <3> QED BY <3>3, <3>4 DEF Wins
  <2>15. t \in next
    <3>1. t \in winners(bit, s.state % 4)
      BY <2>14
    <3> HIDE DEF winners, next, m
    <3> QED BY <1>1, <2>6, <3>1
  <2>16. t.metric <= b.metric
    <3>1. t.metric < b.metric \/ t.metric = b.metric
      <4> HIDE DEF m, meeting, b
      <4> QED BY <2>12, <2>14 DEF Wins
    <3>2. t \in Path /\ b \in Path
      <4> HIDE DEF m, meeting, b
      <4> QED BY <2>12, <2>13
    <3> HIDE DEF m, meeting, b
    <3>3. t.metric \in Nat /\ b.metric \in Nat
      BY <3>2 DEF Path
    <3> QED BY <3>1, <3>3
  <2>17. t.metric \in Nat /\ b.metric \in Nat /\ t.state = b.state
    <3> HIDE DEF m, meeting, b
    <3>1. t \in Path /\ b \in Path /\ t.state = b.state
      BY <2>12, <2>13
    <3> QED BY <3>1 DEF Path
  <2>18. PICK e \in Nat : e = Errors(word, symbols, n + 1)
    BY ErrorsStep
  <2> HIDE DEF m, meeting, b, next
  <2> QED BY <2>10, <2>11, <2>15, <2>16, <2>17, <2>18
<1> HIDE DEF next
<1>4. Survivors(next, symbols, n + 1)
  BY <1>2, <1>3 DEF Survivors
<1> QED BY <1>4 DEF next

\* What follows from survivors: the best of them is nearest.
LEMMA BestIsNearest ==
  ASSUME NEW n \in Nat, NEW symbols, NEW set, Survivors(set, symbols, n)
  PROVE  /\ Survivor(Best(set), symbols, n)
         /\ \A word \in Words(n) : Best(set).metric <= Errors(word, symbols, n)
<1>1. set \in SUBSET Path
  BY DEF Survivors, Survivor
<1>2. set # {}
  <2> DEFINE zeros == [i \in 1 .. n |-> 0]
  <2>1. zeros \in Seq(Bit) /\ Len(zeros) = n
    BY DEF Bit
  <2> HIDE DEF zeros
  <2>2. zeros \in Words(n)
    BY <2>1 DEF Words
  <2> QED BY <2>2 DEF Survivors
<1> DEFINE rank == [p \in Path |-> p.state]
<1>3. rank \in [Path -> 0 .. 7]
  BY DEF Path
<1>4. \A p \in set : rank[p] = p.state
  BY <1>1
<1>5. PICK b \in set : \A rival \in set :
        b.metric < rival.metric \/ (b.metric = rival.metric /\ rank[b] <= rank[rival])
  <2> HIDE DEF rank
  <2> QED BY <1>1, <1>2, <1>3, BestExists
<1>6. \A q \in set : b.metric < q.metric \/ (b.metric = q.metric /\ b.state <= q.state)
  <2> HIDE DEF rank
  <2> QED BY <1>4, <1>5
<1>7. /\ Best(set) \in set
      /\ \A q \in set : Best(set).metric < q.metric
                          \/ (Best(set).metric = q.metric /\ Best(set).state <= q.state)
  BY <1>6 DEF Best
<1>8. PICK best \in set : best = Best(set)
  BY <1>7
<1>9. ASSUME NEW word \in Words(n)
      PROVE  best.metric <= Errors(word, symbols, n)
  <2>1. PICK s \in set : s.metric <= Errors(word, symbols, n)
    BY DEF Survivors
  <2>2. best.metric \in Nat /\ s.metric \in Nat
    <3>1. best \in Path /\ s \in Path
      BY <1>1
    <3> QED BY <3>1 DEF Path
  <2>3. best.metric < s.metric \/ best.metric = s.metric
    BY <1>7, <1>8
  <2>4. Errors(word, symbols, n) \in Nat
    BY ErrorsStep
  <2> QED BY <2>1, <2>2, <2>3, <2>4
<1> QED BY <1>8, <1>9 DEF Survivors

\* A branch is a path.
LEMMA BranchOfPath ==
  ASSUME NEW s \in Path, NEW bit \in Bit, NEW symbol
  PROVE  Branch(s, bit, symbol) \in Path
<1>1. PICK state \in 0 .. 7, metric \in Nat, bits \in Seq(Bit) :
        state = s.state /\ metric = s.metric /\ bits = s.bits
  BY DEF Path
<1>2. NextState(state, bit) \in 0 .. 7
  BY DEF NextState, Bit
<1>3. PICK d \in Nat : d = Disagreement(Output[state][bit], symbol)
  BY DEF Disagreement, Differs
<1>4. metric + d \in Nat
  OBVIOUS
<1>5. Append(bits, bit) \in Seq(Bit)
  BY AppendProperties
<1>6. Branch(s, bit, symbol)
        = [state |-> NextState(state, bit), from |-> state,
           metric |-> metric + d, bits |-> Append(bits, bit)]
  BY <1>1, <1>3 DEF Branch
<1> QED BY <1>2, <1>4, <1>5, <1>6 DEF Path

\* The paths extended by a symbol are paths.
LEMMA ExtendedPaths ==
  ASSUME NEW set \in SUBSET Path, NEW symbol
  PROVE  Extended(set, symbol) \in SUBSET Path
<1>1. ASSUME NEW t \in Extended(set, symbol) PROVE t \in Path
  <2>1. PICK s \in set, bit \in Bit : t = Branch(s, bit, symbol)
    BY DEF Extended
  <2> QED BY <2>1, BranchOfPath
<1> QED BY <1>1

\* The loop over the symbols.
Trellis(f, symbols, n) ==
  f[0] = Start /\ \A i \in 1 .. n : f[i] = Extended(f[i - 1], symbols[i])

\* The recursion of the decoder is a trellis, and what it returns the best path
\* at its end.
LEMMA DecodedIs ==
  ASSUME NEW symbols, Len(symbols) \in Nat
  PROVE  \E f : Trellis(f, symbols, Len(symbols)) /\ Decoded(symbols) = Best(f[Len(symbols)])
<1> DEFINE n == Len(symbols)
           Sets == SUBSET Path
           step == [i \in Nat |-> [set \in Sets |-> Extended(set, symbols[i])]]
           loop == CHOOSE g : g = [i \in 0 .. n |->
                     IF i = 0 THEN Start ELSE Extended(g[i - 1], symbols[i])]
<1>1. Start \in Sets
  BY DEF Start, Path
<1>2. step \in [Nat -> [Sets -> Sets]]
  BY ExtendedPaths
<1>3. PICK f \in [0 .. n -> Sets] : Recursive(f, n, Start, step)
  <2> HIDE DEF step, Sets, n
  <2>1. n \in Nat
    BY DEF n
  <2> QED BY <1>1, <1>2, <2>1, FiniteRecursion
<1>4. \A i \in 1 .. n : f[i] = Extended(f[i - 1], symbols[i])
  <2>1. ASSUME NEW i \in 1 .. n PROVE f[i] = Extended(f[i - 1], symbols[i])
    <3>1. i \in Nat /\ i - 1 \in 0 .. n
      OBVIOUS
    <3>2. f[i - 1] \in Sets
      BY <3>1
    <3>3. f[i] = step[i][f[i - 1]]
      BY <1>3 DEF Recursive
    <3> HIDE DEF Sets, n
    <3> QED BY <3>1, <3>2, <3>3
  <2> QED BY <2>1
<1>5. f[0] = Start
  BY <1>3 DEF Recursive
<1>6. f = [i \in 0 .. n |-> IF i = 0 THEN Start ELSE Extended(f[i - 1], symbols[i])]
  <2>1. f = [i \in 0 .. n |-> f[i]]
    OBVIOUS
  <2>2. \A i \in 0 .. n : i = 0 \/ i \in 1 .. n
    OBVIOUS
  <2>3. \A i \in 0 .. n : f[i] = IF i = 0 THEN Start ELSE Extended(f[i - 1], symbols[i])
    <3> HIDE DEF n
    <3> QED BY <1>4, <1>5, <2>2
  <2> HIDE DEF n
  <2> QED BY <2>1, <2>3
<1>7. loop = [i \in 0 .. n |-> IF i = 0 THEN Start ELSE Extended(loop[i - 1], symbols[i])]
  BY <1>6
<1>8. Trellis(loop, symbols, n)
  <2>1. PICK g : g = loop
    OBVIOUS
  <2>2. g = [i \in 0 .. n |-> IF i = 0 THEN Start ELSE Extended(g[i - 1], symbols[i])]
    BY <1>7, <2>1
  <2>3. g[0] = Start
    BY <2>2
  <2>4. \A i \in 1 .. n : g[i] = Extended(g[i - 1], symbols[i])
    BY <2>2
  <2>5. Trellis(g, symbols, n)
    BY <2>3, <2>4 DEF Trellis
  <2> HIDE DEF loop
  <2> QED BY <2>1, <2>5
<1>9. Decoded(symbols) = Best(loop[n])
  BY DEF Decoded
<1> HIDE DEF loop
<1> QED BY <1>8, <1>9

\* In every column of the trellis the paths survive.
LEMMA TrellisSurvives ==
  ASSUME NEW f, NEW symbols, NEW n \in Nat, Trellis(f, symbols, n)
  PROVE  Survivors(f[n], symbols, n)
<1> DEFINE S == {m \in Nat : m <= n => Survivors(f[m], symbols, m)}
<1>1. 0 \in S
  BY StartSurvives DEF Trellis
<1>2. ASSUME NEW m \in S PROVE m + 1 \in S
  <2>1. m \in Nat /\ m + 1 \in Nat /\ (m + 1) - 1 = m
    OBVIOUS
  <2>2. ASSUME m + 1 <= n PROVE Survivors(f[m + 1], symbols, m + 1)
    <3>1. m <= n /\ m + 1 \in 1 .. n
      BY <2>1, <2>2
    <3>2. Survivors(f[m], symbols, m)
      BY <3>1
    <3>3. f[m + 1] = Extended(f[m], symbols[m + 1])
      BY <2>1, <3>1 DEF Trellis
    <3> QED BY <2>1, <3>2, <3>3, ExtendedSurvives
  <2> QED BY <2>1, <2>2
<1>3. S = Nat
  <2>1. S \in SUBSET Nat
    OBVIOUS
  <2> HIDE DEF S
  <2> QED BY <1>1, <1>2, <2>1, SetInduction
<1>4. n \in S
  BY <1>3
<1> QED BY <1>4

\* What the decoder returns.
LEMMA DecodedNearest ==
  ASSUME NEW symbols, NEW n \in Nat, Len(symbols) = n
  PROVE  /\ Decoded(symbols).bits \in Words(n)
         /\ Decoded(symbols).metric = Errors(Decoded(symbols).bits, symbols, n)
         /\ Decoded(symbols).metric \in Nat
         /\ \A word \in Words(n) : Decoded(symbols).metric <= Errors(word, symbols, n)
<1>1. PICK f : Trellis(f, symbols, n) /\ Decoded(symbols) = Best(f[n])
  BY DecodedIs
<1>2. Survivors(f[n], symbols, n)
  BY <1>1, TrellisSurvives
<1>3. /\ Survivor(Decoded(symbols), symbols, n)
      /\ \A word \in Words(n) : Decoded(symbols).metric <= Errors(word, symbols, n)
  BY <1>1, <1>2, BestIsNearest
<1>4. Decoded(symbols).metric \in Nat
  BY <1>3, ErrorsStep DEF Survivor
<1> QED BY <1>3, <1>4 DEF Survivor

\* The number of bits in which an encoded word differs from what was received.
LEMMA DistanceIs ==
  ASSUME NEW word \in Seq(Bit), NEW symbols
  PROVE  Distance(Encoded(word), symbols) = Errors(word, symbols, Len(word))
<1> DEFINE a == Encoded(word)
           n == Len(word)
           f == [i \in 0 .. n |-> Errors(word, symbols, i)]
           d == CHOOSE g : g = [i \in 0 .. n |->
                  IF i = 0 THEN 0 ELSE g[i - 1] + Disagreement(a[i], symbols[i])]
<1>1. n \in Nat /\ Len(a) = n /\ \A i \in 1 .. n : a[i] = Code(word, i)
  BY EncodedIs, LenProperties
<1>2. f[0] = 0
  BY <1>1, ErrorsStep
<1>3. \A i \in 1 .. n : f[i] = f[i - 1] + Disagreement(a[i], symbols[i])
  <2>1. ASSUME NEW i \in 1 .. n PROVE f[i] = f[i - 1] + Disagreement(a[i], symbols[i])
    <3>1. PICK j \in Nat : i = j + 1
      <4>1. i - 1 \in Nat /\ i = (i - 1) + 1
        BY <1>1
      <4> QED BY <4>1
    <3>2. Errors(word, symbols, j + 1)
            = Errors(word, symbols, j) + Disagreement(Code(word, j + 1), symbols[j + 1])
      BY ErrorsStep
    <3>3. i - 1 = j /\ j \in 0 .. n /\ i \in 0 .. n
      BY <1>1, <3>1
    <3>4. f[i] = Errors(word, symbols, j + 1) /\ f[i - 1] = Errors(word, symbols, j)
      BY <3>1, <3>3
    <3>5. a[i] = Code(word, j + 1)
      BY <1>1, <3>1
    <3> HIDE DEF f, a, n
    <3> QED BY <3>1, <3>2, <3>4, <3>5
  <2> QED BY <2>1
<1>4. f = [i \in 0 .. n |-> IF i = 0 THEN 0 ELSE f[i - 1] + Disagreement(a[i], symbols[i])]
  <2>1. f = [i \in 0 .. n |-> f[i]]
    OBVIOUS
  <2>2. \A i \in 0 .. n : i = 0 \/ i \in 1 .. n
    BY <1>1
  <2> HIDE DEF f, a, n
  <2> QED BY <1>2, <1>3, <2>1, <2>2
<1>5. PICK g : g = d
  OBVIOUS
<1>6. g = [i \in 0 .. n |-> IF i = 0 THEN 0 ELSE g[i - 1] + Disagreement(a[i], symbols[i])]
  <2> HIDE DEF f, a, n
  <2> QED BY <1>4, <1>5
<1>7. Alike(g, f, n)
  <2>1. g[0] = 0 /\ \A i \in 1 .. n : g[i] = g[i - 1] + Disagreement(a[i], symbols[i])
    <3> HIDE DEF d, a
    <3> QED BY <1>1, <1>6
  <2> HIDE DEF f, a, n, d
  <2> QED BY <1>2, <1>3, <2>1 DEF Alike
<1>8. g[n] = f[n]
  <2> HIDE DEF f, a, n, d
  <2>1. Equal(g, f, n)
    BY <1>1, <1>7, RecursionUnique
  <2> QED BY <1>1, <2>1 DEF Equal
<1>9. Distance(a, symbols) = d[n]
  <2>1. Distance(a, symbols)
          = (CHOOSE g1 : g1 = [i \in 0 .. Len(a) |->
               IF i = 0 THEN 0 ELSE g1[i - 1] + Disagreement(a[i], symbols[i])])[Len(a)]
    BY DEF Distance
  <2> HIDE DEF a, n
  <2> QED BY <1>1, <2>1
<1>10. f[n] = Errors(word, symbols, n)
  BY <1>1
<1> HIDE DEF f, d
<1> QED BY <1>5, <1>8, <1>9, <1>10

\* The decoder returns, for whatever it receives, a word whose code is nearest
\* to it, and as path metric the number of bits they differ in
\* (viterbi_decode, fec.cc:39-119).
THEOREM DecodedIsNearest ==
  ASSUME NEW symbols, NEW n \in Nat, Len(symbols) = n
  PROVE  /\ Decoded(symbols).bits \in [1 .. n -> Bit]
         /\ Distance(Encoded(Decoded(symbols).bits), symbols) = Decoded(symbols).metric
         /\ \A word \in [1 .. n -> Bit] :
              Decoded(symbols).metric <= Distance(Encoded(word), symbols)
<1>1. ASSUME NEW word \in [1 .. n -> Bit] PROVE word \in Seq(Bit) /\ Len(word) = n
  OBVIOUS
<1>2. ASSUME NEW word \in Words(n)
      PROVE  /\ word \in [1 .. n -> Bit]
             /\ Distance(Encoded(word), symbols) = Errors(word, symbols, n)
  <2>1. word \in Seq(Bit) /\ Len(word) = n
    BY DEF Words
  <2>2. word \in [1 .. n -> Bit]
    BY <2>1, LenProperties
  <2> QED BY <2>1, <2>2, DistanceIs
<1>3. \A word \in [1 .. n -> Bit] : word \in Words(n)
  BY <1>1 DEF Words
<1> QED BY <1>2, <1>3, DecodedNearest

\* The decoder's promise, which SurvivorIsNearest samples, in every state.
THEOREM SurvivorAlwaysNearest == Spec => []SurvivorIsNearest
<1>1. SurvivorIsNearest
  <2> DEFINE received == Symbols(SubSeq(air, 1, 2 * NearestSymbols))
  <2>1. Len(SubSeq(air, 1, 2 * NearestSymbols)) = 12
    BY DEF NearestSymbols
  <2>2. Len(received) = NearestSymbols /\ NearestSymbols \in Nat
    <3>1. 12 \div 2 = 6
      OBVIOUS
    <3>2. received = [i \in 1 .. 6 |->
                        <<SubSeq(air, 1, 2 * NearestSymbols)[2 * i - 1],
                          SubSeq(air, 1, 2 * NearestSymbols)[2 * i]>>]
      BY <2>1, <3>1 DEF Symbols
    <3>3. Len(received) = 6
      BY <3>2
    <3> QED BY <3>3 DEF NearestSymbols
  <2> HIDE DEF received
  <2>3. /\ Distance(Encoded(Decoded(received).bits), received) = Decoded(received).metric
        /\ \A word \in [1 .. NearestSymbols -> Bit] :
             Decoded(received).metric <= Distance(Encoded(word), received)
    BY <2>2, DecodedIsNearest
  <2> QED BY <2>3 DEF SurvivorIsNearest, received
<1> QED BY <1>1, PTL

-----------------------------------------------------------------------------
(***************************************************************************)
(* The distance of the code: two words that differ, differ in both bits of *)
(* the symbol where they first do, in a third bit of the symbol behind,    *)
(* and in at least five of six symbols.                                    *)
(***************************************************************************)
Difference(a, b, i) == Differs(At(a, i), At(b, i))

\* The symbol of a bit and the three before.
SymbolOf(b0, b1, b2, b3) == <<(1 + b0 + b2 + b3) % 2, (1 + b0 + b1 + b2 + b3) % 2>>

\* A bit more on each side adds its difference.
LEMMA DiffersAdds ==
  ASSUME NEW p \in Bit, NEW q \in Bit, NEW x \in Bit, NEW y \in Bit
  PROVE  Differs((p + x) % 2, (q + y) % 2) = (Differs(p, q) + Differs(x, y)) % 2
  BY DEF Differs, Bit

\* What a symbol adds to the distance of two words.
LEMMA DifferenceStep ==
  ASSUME NEW a \in Seq(Bit), NEW b \in Seq(Bit),
         NEW i \in 1 .. Len(a), i \in 1 .. Len(b)
  PROVE  /\ \A k \in {i, i - 1, i - 2, i - 3} : Difference(a, b, k) \in Bit
         /\ Disagreement(Code(a, i), Code(b, i))
              = ((Difference(a, b, i) + Difference(a, b, i - 2) + Difference(a, b, i - 3)) % 2)
                + ((Difference(a, b, i) + Difference(a, b, i - 1)
                      + Difference(a, b, i - 2) + Difference(a, b, i - 3)) % 2)
<1>1. /\ i \in Int /\ i - 1 \in Int /\ i - 2 \in Int /\ i - 3 \in Int
      /\ i <= Len(a) /\ i - 1 <= Len(a) /\ i - 2 <= Len(a) /\ i - 3 <= Len(a)
      /\ i <= Len(b) /\ i - 1 <= Len(b) /\ i - 2 <= Len(b) /\ i - 3 <= Len(b)
  BY LenProperties
<1>2. PICK x0 \in Bit, x1 \in Bit, x2 \in Bit, x3 \in Bit :
        x0 = At(a, i) /\ x1 = At(a, i - 1) /\ x2 = At(a, i - 2) /\ x3 = At(a, i - 3)
  BY <1>1, AtBit
<1>3. PICK y0 \in Bit, y1 \in Bit, y2 \in Bit, y3 \in Bit :
        y0 = At(b, i) /\ y1 = At(b, i - 1) /\ y2 = At(b, i - 2) /\ y3 = At(b, i - 3)
  BY <1>1, AtBit
<1>4. a[i] = x0 /\ b[i] = y0
  BY <1>2, <1>3 DEF At
<1>5. Code(a, i) = SymbolOf(x0, x1, x2, x3)
  BY <1>2, <1>4, CodeFacts DEF SymbolOf
<1>6. Code(b, i) = SymbolOf(y0, y1, y2, y3)
  BY <1>3, <1>4, CodeFacts DEF SymbolOf
<1>7. PICK d0 \in Bit, d1 \in Bit, d2 \in Bit, d3 \in Bit :
        /\ d0 = Differs(x0, y0) /\ d1 = Differs(x1, y1)
        /\ d2 = Differs(x2, y2) /\ d3 = Differs(x3, y3)
  BY DEF Differs, Bit
<1>8. /\ Difference(a, b, i) = d0 /\ Difference(a, b, i - 1) = d1
      /\ Difference(a, b, i - 2) = d2 /\ Difference(a, b, i - 3) = d3
  BY <1>2, <1>3, <1>7 DEF Difference
<1>9. PICK s, r : s = Code(a, i) /\ r = Code(b, i)
  OBVIOUS
<1>10. Disagreement(s, r) = ((d0 + d2 + d3) % 2) + ((d0 + d1 + d2 + d3) % 2)
  <2>1. Differs((1 + x0 + x2 + x3) % 2, (1 + y0 + y2 + y3) % 2) = (d0 + d2 + d3) % 2
    BY <1>7 DEF Differs, Bit
  <2>2. PICK p \in Bit, q \in Bit :
          /\ p = (1 + x0 + x2 + x3) % 2 /\ q = (1 + y0 + y2 + y3) % 2
          /\ (1 + x0 + x1 + x2 + x3) % 2 = (p + x1) % 2
          /\ (1 + y0 + y1 + y2 + y3) % 2 = (q + y1) % 2
    BY DEF Bit
  <2>3. Differs((1 + x0 + x1 + x2 + x3) % 2, (1 + y0 + y1 + y2 + y3) % 2)
          = (d0 + d1 + d2 + d3) % 2
    <3>1. Differs(p, q) = (d0 + d2 + d3) % 2
      BY <2>1, <2>2
    <3>2. (((d0 + d2 + d3) % 2) + d1) % 2 = (d0 + d1 + d2 + d3) % 2
      BY DEF Bit
    <3>3. Differs((p + x1) % 2, (q + y1) % 2) = (Differs(p, q) + d1) % 2
      BY <1>7, DiffersAdds
    <3> QED BY <2>2, <3>1, <3>2, <3>3
  <2>4. PICK u \in Int, v \in Int, w \in Int, z \in Int :
          /\ u = (1 + x0 + x2 + x3) % 2 /\ v = (1 + x0 + x1 + x2 + x3) % 2
          /\ w = (1 + y0 + y2 + y3) % 2 /\ z = (1 + y0 + y1 + y2 + y3) % 2
    BY DEF Bit
  <2>5. s[1] = u /\ s[2] = v /\ r[1] = w /\ r[2] = z
    BY <1>5, <1>6, <1>9, <2>4 DEF SymbolOf
  <2>6. Differs(u, w) = (d0 + d2 + d3) % 2 /\ Differs(v, z) = (d0 + d1 + d2 + d3) % 2
    BY <2>1, <2>3, <2>4
  <2> QED BY <2>5, <2>6 DEF Disagreement
<1> QED BY <1>8, <1>9, <1>10

Apart(a, b, n) == Errors(a, Encoded(b), n)

\* The distance of two words, symbol by symbol.
LEMMA ApartStep ==
  ASSUME NEW a \in Seq(Bit), NEW b \in Seq(Bit), NEW i \in 1 .. Len(a), i \in 1 .. Len(b),
         NEW d0, d0 = Difference(a, b, i), NEW d1, d1 = Difference(a, b, i - 1),
         NEW d2, d2 = Difference(a, b, i - 2), NEW d3, d3 = Difference(a, b, i - 3)
  PROVE  /\ d0 \in Bit /\ d1 \in Bit /\ d2 \in Bit /\ d3 \in Bit
         /\ Apart(a, b, i - 1) \in Nat /\ Apart(a, b, i) \in Nat
         /\ Apart(a, b, i)
              = Apart(a, b, i - 1) + ((d0 + d2 + d3) % 2) + ((d0 + d1 + d2 + d3) % 2)
<1>1. PICK j \in Nat : j = i - 1 /\ i = j + 1
  <2>1. i - 1 \in Nat /\ i = (i - 1) + 1
    BY LenProperties
  <2> QED BY <2>1
<1>2. PICK e \in Nat, f \in Nat :
        e = Errors(a, Encoded(b), j) /\ f = Errors(a, Encoded(b), i)
  BY <1>1, ErrorsStep
<1>3. Errors(a, Encoded(b), j + 1)
        = Errors(a, Encoded(b), j) + Disagreement(Code(a, j + 1), Encoded(b)[j + 1])
  BY ErrorsStep
<1>4. Encoded(b)[i] = Code(b, i)
  BY EncodedIs
<1>5. d0 \in Bit /\ d1 \in Bit /\ d2 \in Bit /\ d3 \in Bit
  BY DifferenceStep
<1>6. Disagreement(Code(a, i), Code(b, i))
        = ((d0 + d2 + d3) % 2) + ((d0 + d1 + d2 + d3) % 2)
  BY DifferenceStep
<1>7. PICK x \in Nat, y \in Nat : x = (d0 + d2 + d3) % 2 /\ y = (d0 + d1 + d2 + d3) % 2
  BY <1>5 DEF Bit
<1>8. f = e + (x + y)
  BY <1>1, <1>2, <1>3, <1>4, <1>6, <1>7
<1>9. f = e + x + y
  BY <1>8
<1> QED BY <1>1, <1>2, <1>5, <1>7, <1>9 DEF Apart

\* Words that do not agree differ in a first bit.
LEMMA FirstDifference ==
  ASSUME NEW a \in Seq(Bit), NEW b \in Seq(Bit), NEW n \in Nat, ~Agree(a, b, n)
  PROVE  \E i \in 1 .. n : a[i] # b[i] /\ Agree(a, b, i - 1)
<1> DEFINE S == {i \in 1 .. n : a[i] # b[i]}
<1>1. S \in SUBSET Nat /\ S # {}
  BY DEF Agree
<1>2. PICK i \in S : \A k \in S : i <= k
  <2> HIDE DEF S
  <2> QED BY <1>1, LeastNatural
<1>3. Agree(a, b, i - 1)
  <2>1. ASSUME NEW k \in 1 .. i - 1 PROVE a[k] = b[k]
    <3>1. k \in 1 .. n /\ ~(i <= k)
      BY <1>2
    <3> QED BY <1>2, <3>1
  <2> QED BY <2>1 DEF Agree
<1> QED BY <1>2, <1>3

\* At least two wrong bits in the symbol of the first difference, three with the
\* symbol behind it, five within six symbols.
LEMMA CodeDistance ==
  ASSUME NEW a \in Seq(Bit), NEW b \in Seq(Bit), NEW n \in Nat, n <= Len(a), n <= Len(b),
         NEW i \in 1 .. n, a[i] # b[i], Agree(a, b, i - 1)
  PROVE  /\ Apart(a, b, i) \in Nat /\ Apart(a, b, i) >= 2
         /\ i + 1 <= n => Apart(a, b, i + 1) \in Nat /\ Apart(a, b, i + 1) >= 3
         /\ i + 5 <= n => Apart(a, b, i + 5) \in Nat /\ Apart(a, b, i + 5) >= 5
<1>1. i \in Nat /\ Len(a) \in Nat /\ Len(b) \in Nat
  BY LenProperties
<1>2. \A j \in 1 .. n : j \in 1 .. Len(a) /\ j \in 1 .. Len(b)
  BY <1>1
<1>3. ASSUME NEW k \in Int, k < i PROVE Difference(a, b, k) = 0
  <2>1. CASE k < 1
    BY <2>1 DEF Difference, At, Differs
  <2>2. CASE ~(k < 1)
    <3>1. k \in 1 .. i - 1
      BY <1>3, <2>2
    <3> QED BY <2>2, <3>1 DEF Difference, At, Differs, Agree
  <2> QED BY <2>1, <2>2
<1>4. Difference(a, b, i) = 1
  <2>1. ~(i < 1)
    OBVIOUS
  <2> QED BY <2>1 DEF Difference, At, Differs
<1>5. /\ i - 1 < i /\ i - 2 < i /\ i - 3 < i
      /\ i - 1 \in Int /\ i - 2 \in Int /\ i - 3 \in Int
      /\ (i + 1) - 1 = i /\ (i + 1) - 2 = i - 1 /\ (i + 1) - 3 = i - 2
      /\ (i + 2) - 1 = i + 1 /\ (i + 2) - 2 = i /\ (i + 2) - 3 = i - 1
      /\ (i + 3) - 1 = i + 2 /\ (i + 3) - 2 = i + 1 /\ (i + 3) - 3 = i
      /\ (i + 4) - 1 = i + 3 /\ (i + 4) - 2 = i + 2 /\ (i + 4) - 3 = i + 1
      /\ (i + 5) - 1 = i + 4 /\ (i + 5) - 2 = i + 3 /\ (i + 5) - 3 = i + 2
  OBVIOUS
<1>6. Difference(a, b, i - 1) = 0 /\ Difference(a, b, i - 2) = 0 /\ Difference(a, b, i - 3) = 0
  BY <1>3, <1>5
<1> DEFINE A(j) == Apart(a, b, j)
<1>7. A(i) \in Nat /\ A(i) >= 2
  <2>1. PICK x \in Nat, y \in Nat : x = A(i - 1) /\ y = A(i)
    BY <1>2, ApartStep
  <2>2. A(i) = A(i - 1) + ((1 + 0 + 0) % 2) + ((1 + 0 + 0 + 0) % 2)
    BY <1>2, <1>4, <1>6, ApartStep
  <2> HIDE DEF A
  <2>3. y = x + ((1 + 0 + 0) % 2) + ((1 + 0 + 0 + 0) % 2)
    BY <2>1, <2>2
  <2>4. y = x + 2
    BY <2>3
  <2> QED BY <2>1, <2>4
<1>8. ASSUME i + 1 <= n
      PROVE  /\ Difference(a, b, i + 1) \in Bit
             /\ A(i + 1) \in Nat /\ A(i + 1) = A(i) + 1
  <2>1. i + 1 \in 1 .. Len(a) /\ i + 1 \in 1 .. Len(b)
    BY <1>1, <1>8
  <2>2. PICK d : d = Difference(a, b, i + 1)
    OBVIOUS
  <2>3. /\ d \in Bit /\ A(i) \in Nat /\ A(i + 1) \in Nat
        /\ A(i + 1) = A(i) + ((d + 0 + 0) % 2) + ((d + 1 + 0 + 0) % 2)
    BY <1>4, <1>5, <1>6, <2>1, <2>2, ApartStep
  <2>4. PICK x \in Nat, y \in Nat : x = A(i) /\ y = A(i + 1)
    BY <2>3
  <2> HIDE DEF A
  <2>5. y = x + ((d + 0 + 0) % 2) + ((d + 1 + 0 + 0) % 2)
    BY <2>3, <2>4
  <2>6. y = x + 1
    BY <2>3, <2>5 DEF Bit
  <2> QED BY <2>2, <2>3, <2>4, <2>6
<1>9. ASSUME i + 5 <= n
      PROVE  A(i + 5) \in Nat /\ A(i + 5) >= 5
  <2>1. /\ i + 1 <= n /\ i + 2 \in 1 .. Len(a) /\ i + 2 \in 1 .. Len(b)
        /\ i + 3 \in 1 .. Len(a) /\ i + 3 \in 1 .. Len(b)
        /\ i + 4 \in 1 .. Len(a) /\ i + 4 \in 1 .. Len(b)
        /\ i + 5 \in 1 .. Len(a) /\ i + 5 \in 1 .. Len(b)
    <3>1. /\ i + 1 <= n /\ i + 2 \in 1 .. n /\ i + 3 \in 1 .. n
          /\ i + 4 \in 1 .. n /\ i + 5 \in 1 .. n
      BY <1>1, <1>9
    <3> QED BY <1>2, <3>1
  <2>2. PICK e1, e2, e3, e4, e5 :
          /\ e1 = Difference(a, b, i + 1) /\ e2 = Difference(a, b, i + 2)
          /\ e3 = Difference(a, b, i + 3) /\ e4 = Difference(a, b, i + 4)
          /\ e5 = Difference(a, b, i + 5)
    OBVIOUS
  <2>3. e1 \in Bit /\ A(i + 1) \in Nat /\ A(i + 1) = A(i) + 1
    BY <1>8, <2>1, <2>2
  <2>4. /\ e2 \in Bit /\ A(i + 2) \in Nat
        /\ A(i + 2) = A(i + 1) + ((e2 + 1 + 0) % 2) + ((e2 + e1 + 1 + 0) % 2)
    BY <1>4, <1>5, <1>6, <2>1, <2>2, ApartStep
  <2>5. /\ e3 \in Bit /\ A(i + 3) \in Nat
        /\ A(i + 3) = A(i + 2) + ((e3 + e1 + 1) % 2) + ((e3 + e2 + e1 + 1) % 2)
    BY <1>4, <1>5, <2>1, <2>2, ApartStep
  <2>6. /\ e4 \in Bit /\ A(i + 4) \in Nat
        /\ A(i + 4) = A(i + 3) + ((e4 + e2 + e1) % 2) + ((e4 + e3 + e2 + e1) % 2)
    BY <1>5, <2>1, <2>2, ApartStep
  <2>7. /\ e5 \in Bit /\ A(i + 5) \in Nat
        /\ A(i + 5) = A(i + 4) + ((e5 + e3 + e2) % 2) + ((e5 + e4 + e3 + e2) % 2)
    BY <1>5, <2>1, <2>2, ApartStep
  <2>8. PICK a0 \in Nat, a1 \in Nat, a2 \in Nat, a3 \in Nat, a4 \in Nat, a5 \in Nat :
          /\ a0 = A(i) /\ a1 = A(i + 1) /\ a2 = A(i + 2)
          /\ a3 = A(i + 3) /\ a4 = A(i + 4) /\ a5 = A(i + 5)
    BY <1>7, <2>3, <2>4, <2>5, <2>6, <2>7
  <2> HIDE DEF A
  <2>9. /\ a0 >= 2 /\ a1 = a0 + 1
        /\ a2 = a1 + ((e2 + 1 + 0) % 2) + ((e2 + e1 + 1 + 0) % 2)
        /\ a3 = a2 + ((e3 + e1 + 1) % 2) + ((e3 + e2 + e1 + 1) % 2)
        /\ a4 = a3 + ((e4 + e2 + e1) % 2) + ((e4 + e3 + e2 + e1) % 2)
        /\ a5 = a4 + ((e5 + e3 + e2) % 2) + ((e5 + e4 + e3 + e2) % 2)
    BY <1>7, <2>3, <2>4, <2>5, <2>6, <2>7, <2>8
  <2>10. PICK x2 \in Bit, y2 \in Bit, x3 \in Bit, y3 \in Bit,
              x4 \in Bit, y4 \in Bit, x5 \in Bit, y5 \in Bit :
           /\ x2 = (e2 + 1 + 0) % 2 /\ y2 = (e2 + e1 + 1 + 0) % 2
           /\ x3 = (e3 + e1 + 1) % 2 /\ y3 = (e3 + e2 + e1 + 1) % 2
           /\ x4 = (e4 + e2 + e1) % 2 /\ y4 = (e4 + e3 + e2 + e1) % 2
           /\ x5 = (e5 + e3 + e2) % 2 /\ y5 = (e5 + e4 + e3 + e2) % 2
    <3>1. \A z \in Int : z % 2 \in Bit
      BY DEF Bit
    <3>2. /\ e2 + 1 + 0 \in Int /\ e2 + e1 + 1 + 0 \in Int
          /\ e3 + e1 + 1 \in Int /\ e3 + e2 + e1 + 1 \in Int
          /\ e4 + e2 + e1 \in Int /\ e4 + e3 + e2 + e1 \in Int
          /\ e5 + e3 + e2 \in Int /\ e5 + e4 + e3 + e2 \in Int
      BY <2>3, <2>4, <2>5, <2>6, <2>7 DEF Bit
    <3> QED BY <3>1, <3>2
  <2>11. x2 + y2 + x3 + y3 + x4 + y4 + x5 + y5 >= 2
    <3>1. e1 \in Bit /\ e2 \in Bit /\ e3 \in Bit /\ e4 \in Bit /\ e5 \in Bit
      BY <2>3, <2>4, <2>5, <2>6, <2>7
    <3>2. CASE e1 = 0 /\ e2 = 0
      <4>1. x2 = 1 /\ y2 = 1
        BY <2>10, <3>2
      <4> QED BY <4>1 DEF Bit
    <3>3. CASE e1 = 0 /\ e2 = 1 /\ e3 = 0
      <4>1. x3 = 1
        BY <2>10, <3>3
      <4>2. CASE e4 = 0
        <5>1. x4 = 1
          BY <2>10, <3>3, <4>2
        <5> QED BY <4>1, <5>1 DEF Bit
      <4>3. CASE e4 = 1 /\ e5 = 0
        <5>1. x5 = 1
          BY <2>10, <3>3, <4>3
        <5> QED BY <4>1, <5>1 DEF Bit
      <4>4. CASE e4 = 1 /\ e5 = 1
        <5>1. y5 = 1
          BY <2>10, <3>3, <4>4
        <5> QED BY <4>1, <5>1 DEF Bit
      <4> QED BY <3>1, <4>2, <4>3, <4>4 DEF Bit
    <3> QED BY <2>10, <3>1, <3>2, <3>3 DEF Bit
  <2>12. a5 = a1 + (x2 + y2 + x3 + y3 + x4 + y4 + x5 + y5)
    <3>1. /\ a2 = a1 + x2 + y2 /\ a3 = a2 + x3 + y3
          /\ a4 = a3 + x4 + y4 /\ a5 = a4 + x5 + y5
      BY <2>9, <2>10
    <3> QED BY <3>1 DEF Bit
  <2>13. a5 >= 5
    BY <2>9, <2>11, <2>12 DEF Bit
  <2> QED BY <2>8, <2>13
<1>10. i + 1 <= n => A(i + 1) >= 3
  <2>1. PICK x \in Nat : x = A(i) /\ x >= 2
    BY <1>7
  <2> HIDE DEF A
  <2> QED BY <1>8, <2>1
<1> QED BY <1>7, <1>8, <1>9, <1>10

\* More symbols, no fewer errors.
LEMMA ErrorsMonotone ==
  ASSUME NEW word, NEW symbols, NEW m \in Nat, NEW n \in Nat, m <= n
  PROVE  Errors(word, symbols, m) <= Errors(word, symbols, n)
<1>1. \A i \in 1 .. m : i \in 1 .. n
  OBVIOUS
<1>2. Wrong(word, symbols, m) \in SUBSET Wrong(word, symbols, n)
  BY <1>1 DEF Wrong
<1>3. IsFiniteSet(Wrong(word, symbols, n))
  BY PairsFinite DEF Wrong
<1> QED BY <1>2, <1>3, FS_Subset DEF Errors

\* Two words are no further apart than both are from what was received.
LEMMA Between ==
  ASSUME NEW a, NEW b \in Seq(Bit), NEW n \in Nat, n <= Len(b), NEW symbols
  PROVE  Apart(a, b, n) <= Errors(a, symbols, n) + Errors(b, symbols, n)
<1> DEFINE P == Wrong(a, Encoded(b), n)
           V == Wrong(a, symbols, n)
           W == Wrong(b, symbols, n)
<1>1. \A i \in 1 .. n : Encoded(b)[i] = Code(b, i)
  <2>1. \A i \in 1 .. n : i \in 1 .. Len(b)
    BY LenProperties
  <2> QED BY <2>1, EncodedIs
<1>2. P \in SUBSET (V \cup W)
  BY <1>1 DEF Wrong
<1>3. IsFiniteSet(V) /\ IsFiniteSet(W) /\ Cardinality(V) \in Nat /\ Cardinality(W) \in Nat
  BY PairsFinite DEF Wrong
<1> HIDE DEF P, V, W
<1>4. /\ IsFiniteSet(V \cup W)
      /\ Cardinality(V \cup W) = Cardinality(V) + Cardinality(W) - Cardinality(V \cap W)
  BY <1>3, FS_Union
<1>5. IsFiniteSet(V \cap W) /\ Cardinality(V \cap W) \in Nat
  <2>1. V \cap W \in SUBSET V
    OBVIOUS
  <2> QED BY <1>3, <2>1, FS_Subset, FS_CardinalityType
<1>6. IsFiniteSet(P) /\ Cardinality(P) <= Cardinality(V \cup W)
  BY <1>2, <1>4, FS_Subset
<1>7. Cardinality(P) \in Nat
  BY <1>6, FS_CardinalityType
<1>8. PICK p \in Nat, v \in Nat, w \in Nat, x \in Nat :
        /\ p = Cardinality(P) /\ v = Cardinality(V) /\ w = Cardinality(W)
        /\ x = Cardinality(V \cap W)
  BY <1>3, <1>5, <1>7
<1>9. p <= (v + w) - x
  BY <1>4, <1>6, <1>8
<1>10. p <= v + w
  BY <1>9
<1>11. Apart(a, b, n) = p /\ Errors(a, symbols, n) = v /\ Errors(b, symbols, n) = w
  BY <1>8 DEF Apart, Errors, P, V, W
<1> QED BY <1>10, <1>11

\* How far a decoded word is from the word sent, and where it first differs.
LEMMA DecodedApart ==
  ASSUME NEW n \in Nat, NEW symbols, Len(symbols) = n, NEW sent \in Words(n),
         NEW i \in 1 .. n, NEW k \in Nat, Apart(Decoded(symbols).bits, sent, k) \in Nat,
         k <= n
  PROVE  Apart(Decoded(symbols).bits, sent, k)
           <= Decoded(symbols).metric + Errors(sent, symbols, n)
<1> DEFINE word == Decoded(symbols).bits
<1>1. word \in Words(n) /\ Decoded(symbols).metric = Errors(word, symbols, n)
  BY DecodedNearest
<1>2. sent \in Seq(Bit) /\ k <= Len(sent)
  BY DEF Words
<1> HIDE DEF word
<1>3. Apart(word, sent, k) <= Errors(word, symbols, k) + Errors(sent, symbols, k)
  BY <1>2, Between
<1>4. /\ Errors(word, symbols, k) <= Errors(word, symbols, n)
      /\ Errors(sent, symbols, k) <= Errors(sent, symbols, n)
  BY ErrorsMonotone
<1>5. PICK a \in Nat, b \in Nat, c \in Nat, d \in Nat :
        /\ a = Errors(word, symbols, k) /\ b = Errors(sent, symbols, k)
        /\ c = Errors(word, symbols, n) /\ d = Errors(sent, symbols, n)
  BY ErrorsStep
<1>6. PICK p \in Nat : p = Apart(word, sent, k)
  BY DEF word
<1>7. p <= a + b /\ a <= c /\ b <= d
  BY <1>3, <1>4, <1>5, <1>6
<1>8. p <= c + d
  BY <1>7
<1> QED BY <1>1, <1>5, <1>6, <1>8 DEF word

\* Two wrong bits are corrected but for the last five bits of the word, one is but
\* for the last bit of it, and the metric is one then.
LEMMA DecodedRight ==
  ASSUME NEW n \in Nat, NEW symbols, Len(symbols) = n, NEW sent \in Words(n),
         Errors(sent, symbols, n) <= 2
  PROVE  /\ Decoded(symbols).metric <= Errors(sent, symbols, n)
         /\ Agree(Decoded(symbols).bits, sent, n - 5)
         /\ Errors(sent, symbols, n) <= 1 => Agree(Decoded(symbols).bits, sent, n - 1)
         /\ Errors(sent, symbols, n) = 1 => Decoded(symbols).metric = 1
<1> DEFINE word == Decoded(symbols).bits
<1>1. PICK e \in Nat, m \in Nat :
        /\ e = Errors(sent, symbols, n) /\ m = Decoded(symbols).metric
        /\ m <= e /\ e <= 2
  BY DecodedNearest, ErrorsStep
<1>2. word \in Words(n) /\ m = Errors(word, symbols, n)
  BY <1>1, DecodedNearest
<1>3. word \in Seq(Bit) /\ Len(word) = n /\ sent \in Seq(Bit) /\ Len(sent) = n
  BY <1>2 DEF Words
<1>4. ASSUME NEW i \in 1 .. n, word[i] # sent[i], Agree(word, sent, i - 1)
      PROVE  /\ m + e >= 2 /\ (i + 1 <= n => m + e >= 3) /\ (i + 5 <= n => m + e >= 5)
  <2>1. /\ Apart(word, sent, i) \in Nat /\ Apart(word, sent, i) >= 2
        /\ i + 1 <= n => Apart(word, sent, i + 1) \in Nat /\ Apart(word, sent, i + 1) >= 3
        /\ i + 5 <= n => Apart(word, sent, i + 5) \in Nat /\ Apart(word, sent, i + 5) >= 5
    <3> HIDE DEF word
    <3>1. n <= Len(word) /\ n <= Len(sent)
      BY <1>3
    <3> QED BY <1>3, <1>4, <3>1, CodeDistance
  <2>2. ASSUME NEW k \in Nat, k <= n, Apart(word, sent, k) \in Nat
        PROVE  Apart(word, sent, k) <= m + e
    <3>1. Apart(word, sent, k) <= Decoded(symbols).metric + Errors(sent, symbols, n)
      BY <2>2, DecodedApart
    <3> QED BY <1>1, <3>1
  <2>3. i \in Nat /\ i <= n /\ i + 1 \in Nat /\ i + 5 \in Nat
    OBVIOUS
  <2> HIDE DEF word
  <2>4. m + e >= 2
    <3>1. PICK a \in Nat : a = Apart(word, sent, i) /\ a >= 2 /\ a <= m + e
      BY <2>1, <2>2, <2>3
    <3> QED BY <3>1
  <2>5. ASSUME i + 1 <= n PROVE m + e >= 3
    <3>1. PICK a \in Nat : a = Apart(word, sent, i + 1) /\ a >= 3 /\ a <= m + e
      BY <2>1, <2>2, <2>3, <2>5
    <3> QED BY <3>1
  <2>6. ASSUME i + 5 <= n PROVE m + e >= 5
    <3>1. PICK a \in Nat : a = Apart(word, sent, i + 5) /\ a >= 5 /\ a <= m + e
      BY <2>1, <2>2, <2>3, <2>6
    <3> QED BY <3>1
  <2> QED BY <2>4, <2>5, <2>6
<1>5. ASSUME NEW k \in Nat, k <= n, ~Agree(word, sent, k)
      PROVE  \E i \in 1 .. k : i \in 1 .. n /\ word[i] # sent[i] /\ Agree(word, sent, i - 1)
  <2> HIDE DEF word
  <2>1. \E i \in 1 .. k : word[i] # sent[i] /\ Agree(word, sent, i - 1)
    BY <1>3, <1>5, FirstDifference
  <2> QED BY <1>5, <2>1
<1>6. Agree(word, sent, n - 5)
  <2>1. CASE n - 5 \in Nat
    <3> SUFFICES ASSUME ~Agree(word, sent, n - 5) PROVE FALSE
      OBVIOUS
    <3>1. PICK i \in 1 .. n - 5 : i \in 1 .. n /\ word[i] # sent[i] /\ Agree(word, sent, i - 1)
      <4>1. n - 5 <= n
        OBVIOUS
      <4> HIDE DEF word
      <4> QED BY <1>5, <2>1, <4>1
    <3>2. i + 5 <= n
      BY <2>1
    <3>3. m + e >= 5
      BY <1>4, <3>1, <3>2
    <3> QED BY <1>1, <3>3
  <2>2. CASE n - 5 \notin Nat
    <3>1. 1 .. n - 5 = {}
      BY <2>2
    <3> QED BY <3>1 DEF Agree
  <2> QED BY <2>1, <2>2
<1>7. ASSUME e <= 1 PROVE Agree(word, sent, n - 1)
  <2>1. CASE n = 0
    <3>1. 1 .. n - 1 = {}
      BY <2>1
    <3> QED BY <3>1 DEF Agree
  <2>2. CASE n # 0
    <3> SUFFICES ASSUME ~Agree(word, sent, n - 1) PROVE FALSE
      OBVIOUS
    <3>1. PICK i \in 1 .. n - 1 : i \in 1 .. n /\ word[i] # sent[i] /\ Agree(word, sent, i - 1)
      <4>1. n - 1 <= n /\ n - 1 \in Nat
        BY <2>2
      <4> HIDE DEF word
      <4> QED BY <1>5, <4>1
    <3>2. i + 1 <= n
      BY <2>2
    <3>3. m + e >= 3
      BY <1>4, <3>1, <3>2
    <3> QED BY <1>1, <1>7, <3>3
  <2> QED BY <2>1, <2>2
<1>8. ASSUME e = 1 PROVE m = 1
  <2>0. SUFFICES ASSUME m = 0 PROVE FALSE
    BY <1>1, <1>8
  <2>1. ~Agree(word, sent, n)
    <3> SUFFICES ASSUME Agree(word, sent, n) PROVE FALSE
      OBVIOUS
    <3>1. Errors(word, symbols, n) = Errors(sent, symbols, n)
      <4> HIDE DEF word
      <4> QED BY PrefixErrors
    <3>2. m = e
      <4> HIDE DEF word
      <4> QED BY <1>1, <1>2, <3>1
    <3> QED BY <1>8, <2>0, <3>2
  <2>2. PICK i \in 1 .. n : word[i] # sent[i] /\ Agree(word, sent, i - 1)
    <3> HIDE DEF word
    <3> QED BY <1>3, <2>1, FirstDifference
  <2>3. m + e >= 2
    BY <1>4, <2>2
  <2> QED BY <1>8, <2>0, <2>3
<1> HIDE DEF word
<1> QED BY <1>1, <1>6, <1>7, <1>8 DEF word

-----------------------------------------------------------------------------
(***************************************************************************)
(* The interleaver and the lengths.                                        *)
(***************************************************************************)
\* The interleaver's places are a permutation of the block, its own inverse.
LEMMA SourceInverse ==
  ASSUME NEW k \in 0 .. BlockSymbols - 1
  PROVE  /\ Source(k) \in 0 .. BlockSymbols - 1
         /\ Source(Source(k)) = k
  BY DEF Source, BlockSymbols

\* Looking a place up in the permutation finds where Source leads.
LEMMA ReceivedAsSource ==
  ASSUME NEW t \in 0 .. BlockSymbols - 1
  PROVE  ReceivedAs(t) = Source(t)
<1>1. /\ Source(t) \in 0 .. BlockSymbols - 1
      /\ Source(Source(t)) = t
  BY SourceInverse
<1>2. ASSUME NEW k \in 0 .. BlockSymbols - 1, Source(k) = t
      PROVE  k = Source(t)
  BY <1>2, SourceInverse
<1>3. QED
  BY <1>1, <1>2 DEF ReceivedAs

\* A symbol lies in a block of its own sequence, at a place of the block, when
\* the sequence is made of whole blocks.
LEMMA BlocksWhole ==
  ASSUME NEW n \in Nat, n % BlockSymbols = 0,
         NEW i \in 1 .. n,
         NEW k \in 0 .. BlockSymbols - 1
  PROVE  /\ Place(i) \in 0 .. BlockSymbols - 1
         /\ BlockStart(i) + Place(i) = i
         /\ BlockStart(i) + k \in 1 .. n
         /\ Place(BlockStart(i) + k) = k
         /\ BlockStart(BlockStart(i) + k) = BlockStart(i)
  BY DEF Place, BlockStart, BlockSymbols

\* Deinterleaving undoes interleaving, for every sequence of whole blocks
\* (deinterleave, fec.cc:26-37, against interleave, fec.py:108-117).
THEOREM InterleavingUndone ==
  ASSUME NEW S, NEW symbols \in Seq(S), Len(symbols) % BlockSymbols = 0
  PROVE  Deinterleaved(Interleaved(symbols)) = symbols
<1> DEFINE n == Len(symbols)
           sent == Interleaved(symbols)
<1>1. n \in Nat /\ DOMAIN symbols = 1 .. n
  OBVIOUS
<1>2. sent = [i \in 1 .. n |-> symbols[BlockStart(i) + Source(Place(i))]]
  BY DEF Interleaved
<1>3. ASSUME NEW i \in 1 .. n
      PROVE  sent[i] \in S
  <2>1. Place(i) \in 0 .. BlockSymbols - 1
    BY <1>1, BlocksWhole, 0 \in 0 .. BlockSymbols - 1 DEF BlockSymbols
  <2>2. Source(Place(i)) \in 0 .. BlockSymbols - 1
    BY <2>1, SourceInverse
  <2>3. BlockStart(i) + Source(Place(i)) \in 1 .. n
    BY <1>1, <2>2, BlocksWhole
  <2>4. QED
    BY <1>1, <1>2, <2>3
<1>4. sent \in Seq(S) /\ Len(sent) = n
  <2>1. sent \in [1 .. n -> S]
    BY <1>2, <1>3
  <2>2. QED
    BY <1>1, <2>1
<1>5. ASSUME NEW i \in 1 .. n
      PROVE  sent[BlockStart(i) + ReceivedAs(Place(i))] = symbols[i]
  <2> DEFINE k == ReceivedAs(Place(i))
  <2>1. Place(i) \in 0 .. BlockSymbols - 1
    BY <1>1, BlocksWhole, 0 \in 0 .. BlockSymbols - 1 DEF BlockSymbols
  <2>2. /\ k \in 0 .. BlockSymbols - 1
        /\ Source(k) = Place(i)
    BY <2>1, ReceivedAsSource, SourceInverse
  <2> HIDE DEF k
  <2>3. /\ BlockStart(i) + k \in 1 .. n
        /\ Place(BlockStart(i) + k) = k
        /\ BlockStart(BlockStart(i) + k) = BlockStart(i)
        /\ BlockStart(i) + Place(i) = i
    BY <1>1, <2>2, BlocksWhole
  <2>4. sent[BlockStart(i) + k] = symbols[BlockStart(i) + Source(k)]
    BY <1>2, <2>3
  <2>5. QED
    BY <2>2, <2>3, <2>4 DEF k
<1>6. Deinterleaved(sent) =
        [i \in 1 .. n |-> sent[BlockStart(i) + ReceivedAs(Place(i))]]
  BY <1>4 DEF Deinterleaved
<1>7. Deinterleaved(sent) = [i \in 1 .. n |-> symbols[i]]
  BY <1>5, <1>6
<1>8. QED
  BY <1>1, <1>7

\* For every frame length: what is collected is a whole number of blocks of
\* code symbols (four octets), and exactly header, PSDU, tail and padding are
\* decoded from it (coded_length, fec.cc:121-131, against pad_bits,
\* fec.py:132-140).
THEOREM CodedLengthExact ==
  ASSUME NEW frameLength \in Nat
  PROVE  /\ CodedLength(frameLength) % 4 = 0
         /\ 4 * CodedLength(frameLength) =
              8 * (PhrOctets + frameLength) + TailBits + PadBits(frameLength)
<1>1. CASE (frameLength + PhrOctets) % 2 = 1
  BY <1>1 DEF CodedLength, PadBits, PhrOctets, TailBits
<1>2. CASE (frameLength + PhrOctets) % 2 = 0
  BY <1>2 DEF CodedLength, PadBits, PhrOctets, TailBits
<1>3. (frameLength + PhrOctets) % 2 \in {0, 1}
  BY DEF PhrOctets
<1>4. QED
  BY <1>1, <1>2, <1>3

\* A header whose last bit was read wrong does not change what is collected:
\* an even length and the odd one above it take the same octets on air.
THEOREM LastHeaderBitHarmless ==
  ASSUME NEW frameLength \in Nat, frameLength % 2 = 0
  PROVE  CodedLength(frameLength + 1) = CodedLength(frameLength)
  BY DEF CodedLength, PhrOctets

-----------------------------------------------------------------------------
(***************************************************************************)
(* A frame on air: which damaged bit becomes which bit of which symbol.    *)
(***************************************************************************)
\* Symbols to bits.
LEMMA BitsAre ==
  ASSUME NEW n \in Nat, NEW symbols \in Seq(Bit \X Bit), Len(symbols) = n
  PROVE  /\ Bits(symbols) \in [1 .. 2 * n -> Bit]
         /\ \A i \in 1 .. n : /\ Bits(symbols)[2 * i - 1] = symbols[i][1]
                              /\ Bits(symbols)[2 * i] = symbols[i][2]
<1>1. \A i \in 1 .. n : symbols[i] \in Bit \X Bit
  BY ElementOfSeq
<1>2. Bits(symbols) = [i \in 1 .. 2 * n |-> symbols[(i + 1) \div 2][2 - (i % 2)]]
  BY DEF Bits
<1>3. ASSUME NEW i \in 1 .. 2 * n PROVE symbols[(i + 1) \div 2][2 - (i % 2)] \in Bit
  <2>1. (i + 1) \div 2 \in 1 .. n /\ 2 - (i % 2) \in {1, 2}
    OBVIOUS
  <2> QED BY <1>1, <2>1
<1>4. ASSUME NEW i \in 1 .. n
      PROVE  Bits(symbols)[2 * i - 1] = symbols[i][1] /\ Bits(symbols)[2 * i] = symbols[i][2]
  <2>1. /\ 2 * i - 1 \in 1 .. 2 * n /\ 2 * i \in 1 .. 2 * n
        /\ ((2 * i - 1) + 1) \div 2 = i /\ 2 - ((2 * i - 1) % 2) = 1
        /\ (2 * i + 1) \div 2 = i /\ 2 - ((2 * i) % 2) = 2
    OBVIOUS
  <2> QED BY <1>2, <2>1
<1> QED BY <1>2, <1>3, <1>4

\* Bits to symbols.
LEMMA SymbolsAre ==
  ASSUME NEW n \in Nat, NEW bits, Len(bits) = 2 * n
  PROVE  /\ Symbols(bits) = [i \in 1 .. n |-> <<bits[2 * i - 1], bits[2 * i]>>]
         /\ Len(Symbols(bits)) = n
<1>1. (2 * n) \div 2 = n
  OBVIOUS
<1>2. Symbols(bits) = [i \in 1 .. n |-> <<bits[2 * i - 1], bits[2 * i]>>]
  BY <1>1 DEF Symbols
<1> QED BY <1>2

\* Where a symbol goes on air, and one on air goes to: the same way.
Moved(i) == BlockStart(i) + Source(Place(i))

\* The interleaver moves a symbol within its block, and moved twice it is back.
LEMMA MovedTwice ==
  ASSUME NEW n \in Nat, n % BlockSymbols = 0, NEW i \in 1 .. n
  PROVE  /\ Moved(i) \in 1 .. n /\ Moved(Moved(i)) = i
         /\ BlockStart(i) + ReceivedAs(Place(i)) = Moved(i)
         /\ i <= BlockSymbols <=> Moved(i) <= BlockSymbols
<1>1. BlockSymbols = 16 /\ 0 \in 0 .. BlockSymbols - 1
  BY DEF BlockSymbols
<1>2. Place(i) \in 0 .. BlockSymbols - 1 /\ BlockStart(i) + Place(i) = i
  BY <1>1, BlocksWhole
<1>3. PICK k \in 0 .. BlockSymbols - 1 : k = Source(Place(i)) /\ Source(k) = Place(i)
  BY <1>2, SourceInverse
<1>4. /\ BlockStart(i) + k \in 1 .. n /\ Place(BlockStart(i) + k) = k
      /\ BlockStart(BlockStart(i) + k) = BlockStart(i)
  BY BlocksWhole
<1>5. Moved(i) = BlockStart(i) + k
  BY <1>3 DEF Moved
<1>6. Moved(Moved(i)) = i
  BY <1>2, <1>3, <1>4, <1>5 DEF Moved
<1>7. ReceivedAs(Place(i)) = Source(Place(i))
  BY <1>2, ReceivedAsSource
<1>8. i <= BlockSymbols <=> BlockStart(i) + k <= BlockSymbols
  BY DEF BlockStart, BlockSymbols
<1> QED BY <1>4, <1>5, <1>6, <1>7, <1>8 DEF Moved

Halves == {1, 2}

\* The index on air of a bit of a symbol.
Position(k) == 2 * Moved(k[1]) - 2 + k[2]

\* A bit of a symbol goes to an index on air, in the first block to one of its own.
LEMMA PositionIs ==
  ASSUME NEW n \in Nat, n % BlockSymbols = 0, NEW i \in 1 .. n, NEW m \in Halves
  PROVE  /\ Position(<<i, m>>) = 2 * Moved(i) - 2 + m
         /\ Position(<<i, m>>) \in 1 .. 2 * n
         /\ i <= BlockSymbols => Position(<<i, m>>) <= 2 * BlockSymbols
<1>1. Moved(i) \in 1 .. n /\ (i <= BlockSymbols <=> Moved(i) <= BlockSymbols)
  BY MovedTwice
<1>2. Position(<<i, m>>) = 2 * Moved(i) - 2 + m
  BY DEF Position
<1> QED BY <1>1, <1>2 DEF BlockSymbols, Halves

\* No two bits go to one index.
LEMMA PositionInjective ==
  ASSUME NEW n \in Nat, n % BlockSymbols = 0,
         NEW i \in 1 .. n, NEW m \in Halves, NEW j \in 1 .. n, NEW l \in Halves,
         Position(<<i, m>>) = Position(<<j, l>>)
  PROVE  i = j /\ m = l
<1>1. PICK x : x = Position(<<i, m>>) /\ x = Position(<<j, l>>)
  OBVIOUS
<1>2. PICK s \in 1 .. n, t \in 1 .. n : s = Moved(i) /\ t = Moved(j) /\ Moved(s) = i
      /\ Moved(t) = j
  BY MovedTwice
<1>3. 2 * s - 2 + m = 2 * t - 2 + l
  <2>1. x = 2 * s - 2 + m
    BY <1>1, <1>2 DEF Position
  <2>2. x = 2 * t - 2 + l
    BY <1>1, <1>2 DEF Position
  <2> QED BY <2>1, <2>2
<1>4. s = t /\ m = l
  BY <1>3 DEF Halves
<1> QED BY <1>2, <1>4

\* Every index is one a bit goes to.
LEMMA PositionOnto ==
  ASSUME NEW n \in Nat, n % BlockSymbols = 0, NEW p \in 1 .. 2 * n
  PROVE  \E i \in 1 .. n, m \in Halves : Position(<<i, m>>) = p
<1>1. PICK t \in 1 .. n, m \in Halves : p = 2 * t - 2 + m
  <2>1. CASE p % 2 = 0
    <3>1. p \div 2 \in 1 .. n /\ p = 2 * (p \div 2) - 2 + 2
      BY <2>1
    <3> QED BY <3>1 DEF Halves
  <2>2. CASE p % 2 = 1
    <3>1. (p + 1) \div 2 \in 1 .. n /\ p = 2 * ((p + 1) \div 2) - 2 + 1
      BY <2>2
    <3> QED BY <3>1 DEF Halves
  <2> QED BY <2>1, <2>2
<1>2. Moved(t) \in 1 .. n /\ Moved(Moved(t)) = t
  BY MovedTwice
<1>3. Position(<<Moved(t), m>>) = p
  BY <1>1, <1>2, PositionIs
<1> QED BY <1>2, <1>3

\* Bits of the air, some of them damaged.
Flipped(a, sent, damage, n) ==
  \A p \in 1 .. n : a[p] = IF p \in damage THEN 1 - sent[p] ELSE sent[p]

\* The bit of a symbol is wrong if and only if the one on air was damaged.
LEMMA DamageMoved ==
  ASSUME NEW n \in Nat, n % BlockSymbols = 0, NEW word \in Words(n),
         NEW a, Len(a) = 2 * n, NEW damage,
         Flipped(a, Bits(Interleaved(Encoded(word))), damage, 2 * n),
         NEW i \in 1 .. n, NEW m \in Halves
  PROVE  Code(word, i)[m] # Deinterleaved(Symbols(a))[i][m]
           <=> Position(<<i, m>>) \in damage
<1> DEFINE code == Encoded(word)
           symbols == Interleaved(code)
           sent == Bits(symbols)
<1>1. word \in Seq(Bit) /\ Len(word) = n
  BY DEF Words
<1>2. code \in Seq(Bit \X Bit) /\ Len(code) = n /\ \A j \in 1 .. n : code[j] = Code(word, j)
  BY <1>1, EncodedIs
<1>3. PICK t \in 1 .. n : /\ t = Moved(i) /\ Moved(t) = i
                          /\ BlockStart(i) + ReceivedAs(Place(i)) = t
  BY MovedTwice
<1>4. symbols = [j \in 1 .. n |-> code[Moved(j)]]
  <2> HIDE DEF code
  <2> QED BY <1>2 DEF Interleaved, Moved
<1>5. symbols \in Seq(Bit \X Bit) /\ Len(symbols) = n
  <2> HIDE DEF code
  <2>1. \A j \in 1 .. n : code[Moved(j)] \in Bit \X Bit
    BY <1>2, MovedTwice, ElementOfSeq
  <2> QED BY <1>4, <2>1
<1>6. symbols[t] = Code(word, i)
  <2> HIDE DEF code, symbols
  <2> QED BY <1>2, <1>3, <1>4
<1>7. sent[2 * t - 1] = Code(word, i)[1] /\ sent[2 * t] = Code(word, i)[2]
  <2> HIDE DEF symbols
  <2>1. \A j \in 1 .. n : Bits(symbols)[2 * j - 1] = symbols[j][1]
                         /\ Bits(symbols)[2 * j] = symbols[j][2]
    BY <1>5, BitsAre
  <2>2. Bits(symbols)[2 * t - 1] = symbols[t][1] /\ Bits(symbols)[2 * t] = symbols[t][2]
    BY <2>1
  <2> QED BY <1>6, <2>2
<1>8. Len(Symbols(a)) = n /\ Symbols(a)[t] = <<a[2 * t - 1], a[2 * t]>>
  BY SymbolsAre
<1>9. Deinterleaved(Symbols(a))[i] = <<a[2 * t - 1], a[2 * t]>>
  BY <1>3, <1>8 DEF Deinterleaved
<1>10. Code(word, i)[1] \in Bit /\ Code(word, i)[2] \in Bit
  BY <1>1, CodeFacts
<1>11. 2 * t - 1 \in 1 .. 2 * n /\ 2 * t \in 1 .. 2 * n
  OBVIOUS
<1>12. /\ a[2 * t - 1] = IF 2 * t - 1 \in damage THEN 1 - Code(word, i)[1] ELSE Code(word, i)[1]
       /\ a[2 * t] = IF 2 * t \in damage THEN 1 - Code(word, i)[2] ELSE Code(word, i)[2]
  BY <1>7, <1>11 DEF Flipped
<1>13. Position(<<i, m>>) = 2 * t - 2 + m
  BY <1>3, PositionIs
<1>14. CASE m = 1
  <2>1. Position(<<i, m>>) = 2 * t - 1
    BY <1>13, <1>14
  <2>2. Deinterleaved(Symbols(a))[i][m] = a[2 * t - 1]
    BY <1>9, <1>14
  <2> QED BY <1>10, <1>12, <1>14, <2>1, <2>2 DEF Bit
<1>15. CASE m = 2
  <2>1. Position(<<i, m>>) = 2 * t
    BY <1>13, <1>15
  <2>2. Deinterleaved(Symbols(a))[i][m] = a[2 * t]
    BY <1>9, <1>15
  <2> QED BY <1>10, <1>12, <1>15, <2>1, <2>2 DEF Bit
<1> QED BY <1>14, <1>15 DEF Halves

\* As many bits are wrong as were damaged, and in the first block no more than
\* were damaged there.
LEMMA DamageCounted ==
  ASSUME NEW n \in Nat, n % BlockSymbols = 0, NEW word \in Words(n),
         NEW a, Len(a) = 2 * n, NEW damage \in SUBSET (1 .. 2 * n),
         Flipped(a, Bits(Interleaved(Encoded(word))), damage, 2 * n)
  PROVE  /\ Errors(word, Deinterleaved(Symbols(a)), n) = Cardinality(damage)
         /\ IsFiniteSet(damage) /\ Cardinality(damage) \in Nat
<1> DEFINE W == Wrong(word, Deinterleaved(Symbols(a)), n)
           f == [k \in W |-> Position(k)]
<1>1. IsFiniteSet(damage) /\ Cardinality(damage) \in Nat
  <2>1. IsFiniteSet(1 .. 2 * n)
    BY FS_Interval
  <2> QED BY <2>1, FS_Subset, FS_CardinalityType
<1>2. ASSUME NEW k \in (1 .. n) \X Halves
      PROVE  k \in W <=> Position(k) \in damage
  <2>1. PICK i \in 1 .. n, m \in Halves : k = <<i, m>>
    OBVIOUS
  <2>2. Code(word, i)[m] # Deinterleaved(Symbols(a))[i][m] <=> Position(<<i, m>>) \in damage
    BY DamageMoved
  <2>3. k \in W <=> Code(word, i)[m] # Deinterleaved(Symbols(a))[i][m]
    BY <2>1 DEF Wrong, Halves
  <2> QED BY <2>1, <2>2, <2>3
<1>3. W \subseteq (1 .. n) \X Halves
  BY DEF Wrong, Halves
<1> HIDE DEF W
<1>4. f \in [W -> damage]
  BY <1>2, <1>3
<1>5. ASSUME NEW k \in W, NEW l \in W, f[k] = f[l] PROVE k = l
  <2>1. PICK i \in 1 .. n, m \in Halves : k = <<i, m>>
    BY <1>3
  <2>2. PICK j \in 1 .. n, p \in Halves : l = <<j, p>>
    BY <1>3
  <2>3. Position(<<i, m>>) = Position(<<j, p>>)
    BY <1>5, <2>1, <2>2
  <2>4. i = j /\ m = p
    BY <2>3, PositionInjective
  <2> QED BY <2>1, <2>2, <2>4
<1>6. ASSUME NEW p \in damage PROVE \E k \in W : f[k] = p
  <2>1. PICK i \in 1 .. n, m \in Halves : Position(<<i, m>>) = p
    BY PositionOnto
  <2>2. <<i, m>> \in W
    BY <1>2, <2>1
  <2> QED BY <2>1, <2>2
<1>7. f \in Injection(W, damage) /\ f \in Surjection(W, damage)
  <2> HIDE DEF f
  <2>1. f \in Injection(W, damage)
    BY <1>4, <1>5 DEF Injection, IsInjective
  <2>2. f \in Surjection(W, damage)
    BY <1>4, <1>6 DEF Surjection
  <2> QED BY <2>1, <2>2
<1>8. Cardinality(W) = Cardinality(damage)
  <2> HIDE DEF f
  <2> QED BY <1>1, <1>7, FS_Injection
<1> QED BY <1>1, <1>8 DEF Errors, W

\* In the first block no more bits are wrong than were damaged there.
LEMMA HeaderDamage ==
  ASSUME NEW n \in Nat, n % BlockSymbols = 0, n >= BlockSymbols, NEW word \in Words(n),
         NEW a, Len(a) = 2 * n, NEW damage \in SUBSET (1 .. 2 * n),
         Flipped(a, Bits(Interleaved(Encoded(word))), damage, 2 * n)
  PROVE  Errors(word, Deinterleaved(Symbols(a)), BlockSymbols)
           <= Cardinality({i \in damage : i <= 2 * BlockSymbols})
<1> DEFINE W == Wrong(word, Deinterleaved(Symbols(a)), BlockSymbols)
           T == {i \in damage : i <= 2 * BlockSymbols}
           f == [k \in W |-> Position(k)]
<1>1. IsFiniteSet(T)
  <2>1. IsFiniteSet(1 .. 2 * n)
    BY FS_Interval
  <2>2. T \in SUBSET (1 .. 2 * n)
    OBVIOUS
  <2> QED BY <2>1, <2>2, FS_Subset
<1>2. ASSUME NEW k \in W
      PROVE  \E i \in 1 .. n, m \in Halves : k = <<i, m>> /\ Position(<<i, m>>) \in T
  <2>1. PICK i \in 1 .. BlockSymbols, m \in Halves :
          k = <<i, m>> /\ Code(word, i)[m] # Deinterleaved(Symbols(a))[i][m]
    BY DEF Wrong, Halves
  <2>2. i \in 1 .. n /\ i <= BlockSymbols
    BY DEF BlockSymbols
  <2>3. Position(<<i, m>>) \in damage
    BY <2>1, <2>2, DamageMoved
  <2>4. Position(<<i, m>>) <= 2 * BlockSymbols
    BY <2>2, PositionIs
  <2> QED BY <2>1, <2>2, <2>3, <2>4
<1>6. W \subseteq (1 .. n) \X Halves
  <2>1. \A i \in 1 .. BlockSymbols : i \in 1 .. n
    BY DEF BlockSymbols
  <2> QED BY <2>1 DEF Wrong, Halves
<1> HIDE DEF W, T
<1>3. f \in [W -> T]
  BY <1>2
<1>4. ASSUME NEW k \in W, NEW l \in W, f[k] = f[l] PROVE k = l
  <2>1. PICK i \in 1 .. n, m \in Halves : k = <<i, m>>
    BY <1>6
  <2>2. PICK j \in 1 .. n, p \in Halves : l = <<j, p>>
    BY <1>6
  <2>3. Position(<<i, m>>) = Position(<<j, p>>)
    BY <1>4, <2>1, <2>2
  <2>4. i = j /\ m = p
    BY <2>3, PositionInjective
  <2> QED BY <2>1, <2>2, <2>4
<1>5. f \in Injection(W, T)
  <2> HIDE DEF f
  <2> QED BY <1>3, <1>4 DEF Injection, IsInjective
<1>7. Cardinality(W) <= Cardinality(T)
  <2> HIDE DEF f
  <2> QED BY <1>1, <1>5, FS_Injection
<1> QED BY <1>7 DEF Errors, W, T

\* The first block on its own is the first block of the frame.
LEMMA FirstBlock ==
  ASSUME NEW n \in Nat, n % BlockSymbols = 0, n >= BlockSymbols,
         NEW a, Len(a) = 2 * n
  PROVE  LET first == Deinterleaved(Symbols(SubSeq(a, 1, 2 * BlockSymbols)))
         IN  /\ Len(first) = BlockSymbols
             /\ \A i \in 1 .. BlockSymbols : first[i] = Deinterleaved(Symbols(a))[i]
<1> DEFINE s == SubSeq(a, 1, 2 * BlockSymbols)
           first == Deinterleaved(Symbols(s))
<1>1. Len(s) = 2 * 16 /\ \A j \in 1 .. 32 : s[j] = a[j]
  BY DEF BlockSymbols
<1>2. /\ Symbols(s) = [j \in 1 .. 16 |-> <<s[2 * j - 1], s[2 * j]>>]
      /\ Len(Symbols(s)) = 16
  <2> HIDE DEF s
  <2> QED BY <1>1, SymbolsAre
<1>3. first = [i \in 1 .. 16 |-> Symbols(s)[BlockStart(i) + ReceivedAs(Place(i))]]
  BY <1>2 DEF Deinterleaved
<1>4. Len(first) = BlockSymbols
  <2> HIDE DEF s
  <2> QED BY <1>3 DEF BlockSymbols
<1>5. ASSUME NEW i \in 1 .. BlockSymbols
      PROVE  first[i] = Deinterleaved(Symbols(a))[i]
  <2>1. i \in 1 .. 16 /\ i \in 1 .. n /\ i <= BlockSymbols
    BY DEF BlockSymbols
  <2>2. PICK t \in 1 .. 16 : t \in 1 .. n /\ t = BlockStart(i) + ReceivedAs(Place(i))
    <3>1. PICK t \in 1 .. n : t = Moved(i) /\ t <= 16
      BY <2>1, MovedTwice DEF BlockSymbols
    <3>2. t \in 1 .. 16
      BY <3>1
    <3>3. t = BlockStart(i) + ReceivedAs(Place(i))
      BY <2>1, <3>1, MovedTwice
    <3> QED BY <3>2, <3>3
  <2>3. first[i] = Symbols(s)[t]
    <3> HIDE DEF s, first
    <3> QED BY <1>3, <2>1, <2>2
  <2>4. Symbols(s)[t] = <<s[2 * t - 1], s[2 * t]>>
    <3> HIDE DEF s
    <3> QED BY <1>2, <2>2
  <2>5. s[2 * t - 1] = a[2 * t - 1] /\ s[2 * t] = a[2 * t]
    <3>1. 2 * t - 1 \in 1 .. 32 /\ 2 * t \in 1 .. 32
      OBVIOUS
    <3> HIDE DEF s
    <3> QED BY <1>1, <3>1
  <2>6. /\ Symbols(a) = [j \in 1 .. n |-> <<a[2 * j - 1], a[2 * j]>>]
        /\ Len(Symbols(a)) = n
    BY SymbolsAre
  <2>7. Deinterleaved(Symbols(a))[i] = Symbols(a)[t]
    BY <2>1, <2>2, <2>6 DEF Deinterleaved
  <2>8. Symbols(a)[t] = <<a[2 * t - 1], a[2 * t]>>
    BY <2>2, <2>6
  <2> HIDE DEF s, first
  <2>9. first[i] = <<a[2 * t - 1], a[2 * t]>>
    BY <2>3, <2>4, <2>5
  <2> QED BY <2>7, <2>8, <2>9
<1> QED BY <1>4, <1>5

-----------------------------------------------------------------------------
(***************************************************************************)
(* What is sent.                                                           *)
(***************************************************************************)
\* The check sequence has 16 or 32 bits.
LEMMA FcsBitsAre ==
  ASSUME NEW fcs16 \in BOOLEAN
  PROVE  FcsBits(fcs16) \in {16, 32} /\ FcsBits(fcs16) \in Nat
BY DEF FcsBits

\* A check sequence is a sequence of that many bits.
LEMMA FcsIs ==
  ASSUME NEW bits, NEW fcs16 \in BOOLEAN
  PROVE  Fcs(bits, fcs16) \in Seq(Bit) /\ Len(Fcs(bits, fcs16)) = FcsBits(fcs16)
<1>1. FcsBits(fcs16) \in Nat
  BY FcsBitsAre
<1>2. \E crc : Fcs(bits, fcs16)
                 = [k \in 1 .. FcsBits(fcs16) |-> IF k - 1 \in crc THEN 1 ELSE 0]
  BY DEF Fcs
<1>3. PICK crc : Fcs(bits, fcs16)
                   = [k \in 1 .. FcsBits(fcs16) |-> IF k - 1 \in crc THEN 1 ELSE 0]
  BY <1>2
<1>4. Fcs(bits, fcs16) \in [1 .. FcsBits(fcs16) -> Bit]
  BY <1>3 DEF Bit
<1> QED BY <1>1, <1>4

\* The two parts of a concatenation.
LEMMA ConcatParts ==
  ASSUME NEW S, NEW a \in Seq(S), NEW b \in Seq(S)
  PROVE  /\ SubSeq(a \o b, 1, Len(a)) = a
         /\ SubSeq(a \o b, Len(a) + 1, Len(a) + Len(b)) = b
<1> DEFINE c == a \o b
<1>1. PICK n \in Nat, k \in Nat : n = Len(a) /\ k = Len(b)
  BY LenProperties
<1>2. /\ c \in Seq(S) /\ Len(c) = n + k
      /\ \A i \in 1 .. n + k : c[i] = IF i <= n THEN a[i] ELSE b[i - n]
  BY <1>1, ConcatProperties
<1> HIDE DEF c
<1>3. \A i \in 1 .. n + k : c[i] \in S
  BY <1>2, ElementOfSeq
<1>4. /\ SubSeq(c, 1, n) \in Seq(S) /\ Len(SubSeq(c, 1, n)) = n
      /\ \A i \in 1 .. n : SubSeq(c, 1, n)[i] = c[i]
  <2>1. \A i \in 1 .. n : c[i] \in S
    BY <1>3
  <2>2. /\ SubSeq(c, 1, n) \in Seq(S)
        /\ Len(SubSeq(c, 1, n)) = IF 1 <= n THEN (n - 1) + 1 ELSE 0
        /\ \A i \in 1 .. (n - 1) + 1 : SubSeq(c, 1, n)[i] = c[(1 + i) - 1]
    BY <2>1, SubSeqProperties
  <2>3. (n - 1) + 1 = n /\ \A i \in 1 .. n : (1 + i) - 1 = i
    OBVIOUS
  <2> QED BY <2>2, <2>3
<1>5. SubSeq(c, 1, n) = a
  <2>1. \A i \in 1 .. n : SubSeq(c, 1, n)[i] = a[i]
    BY <1>2, <1>4
  <2> QED BY <1>1, <1>4, <2>1, SeqEqual
<1>6. /\ SubSeq(c, n + 1, n + k) \in Seq(S) /\ Len(SubSeq(c, n + 1, n + k)) = k
      /\ \A i \in 1 .. k : SubSeq(c, n + 1, n + k)[i] = c[n + i]
  <2>1. \A i \in n + 1 .. n + k : c[i] \in S
    BY <1>3
  <2>2. /\ SubSeq(c, n + 1, n + k) \in Seq(S)
        /\ Len(SubSeq(c, n + 1, n + k))
             = IF n + 1 <= n + k THEN ((n + k) - (n + 1)) + 1 ELSE 0
        /\ \A i \in 1 .. ((n + k) - (n + 1)) + 1 :
             SubSeq(c, n + 1, n + k)[i] = c[((n + 1) + i) - 1]
    BY <2>1, SubSeqProperties
  <2>3. ((n + k) - (n + 1)) + 1 = k /\ \A i \in 1 .. k : ((n + 1) + i) - 1 = n + i
    OBVIOUS
  <2> QED BY <2>2, <2>3
<1>7. SubSeq(c, n + 1, n + k) = b
  <2>1. ASSUME NEW i \in 1 .. k PROVE SubSeq(c, n + 1, n + k)[i] = b[i]
    <3>1. n + i \in 1 .. n + k /\ ~(n + i <= n) /\ (n + i) - n = i
      OBVIOUS
    <3> QED BY <1>2, <1>6, <3>1
  <2> QED BY <1>1, <1>6, <2>1, SeqEqual
<1> QED BY <1>1, <1>5, <1>7 DEF c

Octets(s) == Len(Psdu(s)) \div 8

\* A PSDU is made of whole octets, at least two and as many as the header can say,
\* and its check sequence is valid.
LEMMA PsduIs ==
  ASSUME NEW s \in Setups
  PROVE  /\ Psdu(s) \in Seq(Bit) /\ s.fcs16 \in BOOLEAN
         /\ Octets(s) \in Nat /\ Octets(s) >= 2 /\ Octets(s) <= 2047
         /\ Len(Psdu(s)) = 8 * Octets(s)
         /\ FcsValid(Psdu(s), s.fcs16)
<1> DEFINE fcs == Fcs(s.payload, s.fcs16)
<1>1. s.payload \in Seq(Bit) /\ Len(s.payload) % 8 = 0
  BY ReceptionConstants
<1>2. s.fcs16 \in BOOLEAN
  BY ReceptionConstants
<1>3. PICK n \in Nat, b \in Nat :
        /\ n = Len(s.payload) /\ b = FcsBits(s.fcs16) /\ (b = 16 \/ b = 32)
  BY <1>1, <1>2, FcsBitsAre, LenProperties
<1>4. n % 8 = 0 /\ n + b <= 8 * 2047
  <2>1. Len(s.payload) + FcsBits(s.fcs16) <= 8 * 2047
    BY FramesFitHeader
  <2>2. n + b <= 8 * 2047
    BY <1>3, <2>1
  <2>3. n % 8 = 0
    BY <1>1, <1>3
  <2> QED BY <2>2, <2>3
<1>5. fcs \in Seq(Bit) /\ Len(fcs) = b
  BY <1>2, <1>3, FcsIs
<1>6. Psdu(s) = s.payload \o fcs
  BY DEF Psdu
<1> HIDE DEF fcs
<1>7. Psdu(s) \in Seq(Bit) /\ Len(Psdu(s)) = n + b
  BY <1>1, <1>3, <1>5, <1>6, ConcatProperties
<1>8. /\ SubSeq(Psdu(s), 1, n) = s.payload
      /\ SubSeq(Psdu(s), n + 1, n + b) = fcs
  BY <1>1, <1>3, <1>5, <1>6, ConcatParts
<1>9. /\ (n + b) \div 8 \in Nat /\ (n + b) \div 8 >= 2 /\ (n + b) \div 8 <= 2047
      /\ n + b = 8 * ((n + b) \div 8)
  <2>0. PICK m \in Nat : m = n + b
    OBVIOUS
  <2>1. m = n + b /\ m <= 8 * 2047 /\ m % 8 = 0 /\ m >= 16
    <3>1. CASE b = 16
      BY <1>4, <2>0, <3>1
    <3>2. CASE b = 32
      BY <1>4, <2>0, <3>2
    <3> QED BY <1>3, <3>1, <3>2
  <2>2. m \div 8 \in Nat /\ m \div 8 >= 2 /\ m \div 8 <= 2047 /\ m = 8 * (m \div 8)
    BY <2>1
  <2> QED BY <2>1, <2>2
<1>10. (n + b) - b = n /\ n >= 0
  OBVIOUS
<1>11. FcsValid(Psdu(s), s.fcs16)
  <2>1. Len(Psdu(s)) - FcsBits(s.fcs16) = n
    BY <1>3, <1>7, <1>10
  <2>2. SubSeq(Psdu(s), n + 1, Len(Psdu(s))) = Fcs(SubSeq(Psdu(s), 1, n), s.fcs16)
    BY <1>7, <1>8 DEF fcs
  <2> QED BY <1>10, <2>1, <2>2 DEF FcsValid
<1>12. /\ Octets(s) \in Nat /\ Octets(s) >= 2 /\ Octets(s) <= 2047
       /\ Len(Psdu(s)) = 8 * Octets(s)
  BY <1>7, <1>9 DEF Octets
<1> QED BY <1>2, <1>7, <1>11, <1>12

\* A number from its eleven bits, most significant first.
LEMMA Horner ==
  ASSUME NEW v, NEW phr, \A k \in 6 .. 16 : phr[k] \in Nat, v[5] = 0,
         \A k \in 6 .. 16 : v[k] = 2 * v[k - 1] + phr[k]
  PROVE  v[16] = 1024 * phr[6] + 512 * phr[7] + 256 * phr[8] + 128 * phr[9]
                 + 64 * phr[10] + 32 * phr[11] + 16 * phr[12] + 8 * phr[13]
                 + 4 * phr[14] + 2 * phr[15] + phr[16]
<1>1. PICK p6 \in Nat : p6 = phr[6]
  OBVIOUS
<1>2. PICK p7 \in Nat : p7 = phr[7]
  OBVIOUS
<1>3. PICK p8 \in Nat : p8 = phr[8]
  OBVIOUS
<1>4. PICK p9 \in Nat : p9 = phr[9]
  OBVIOUS
<1>5. PICK p10 \in Nat : p10 = phr[10]
  OBVIOUS
<1>6. PICK p11 \in Nat : p11 = phr[11]
  OBVIOUS
<1>7. PICK p12 \in Nat : p12 = phr[12]
  OBVIOUS
<1>8. PICK p13 \in Nat : p13 = phr[13]
  OBVIOUS
<1>9. PICK p14 \in Nat : p14 = phr[14]
  OBVIOUS
<1>10. PICK p15 \in Nat : p15 = phr[15]
  OBVIOUS
<1>11. PICK p16 \in Nat : p16 = phr[16]
  OBVIOUS
<1>12. v[6] = 2 * v[5] + phr[6]
  OBVIOUS
<1>13. v[7] = 2 * v[6] + phr[7]
  OBVIOUS
<1>14. v[8] = 2 * v[7] + phr[8]
  OBVIOUS
<1>15. v[9] = 2 * v[8] + phr[9]
  OBVIOUS
<1>16. v[10] = 2 * v[9] + phr[10]
  OBVIOUS
<1>17. v[11] = 2 * v[10] + phr[11]
  OBVIOUS
<1>18. v[12] = 2 * v[11] + phr[12]
  OBVIOUS
<1>19. v[13] = 2 * v[12] + phr[13]
  OBVIOUS
<1>20. v[14] = 2 * v[13] + phr[14]
  OBVIOUS
<1>21. v[15] = 2 * v[14] + phr[15]
  OBVIOUS
<1>22. v[16] = 2 * v[15] + phr[16]
  OBVIOUS
<1>23. v[6] = p6
  BY <1>1, <1>12
<1>24. v[7] = 2 * p6 + p7
  BY <1>2, <1>13, <1>23
<1>25. v[8] = 4 * p6 + 2 * p7 + p8
  BY <1>3, <1>14, <1>24
<1>26. v[9] = 8 * p6 + 4 * p7 + 2 * p8 + p9
  BY <1>4, <1>15, <1>25
<1>27. PICK w9 \in Nat : w9 = v[9] /\ w9 = 8 * p6 + 4 * p7 + 2 * p8 + p9
  BY <1>26
<1>28. v[10] = 2 * w9 + p10
  BY <1>5, <1>16, <1>27
<1>29. v[11] = 4 * w9 + 2 * p10 + p11
  BY <1>6, <1>17, <1>28
<1>30. v[12] = 8 * w9 + 4 * p10 + 2 * p11 + p12
  BY <1>7, <1>18, <1>29
<1>31. v[13] = 16 * w9 + 8 * p10 + 4 * p11 + 2 * p12 + p13
  BY <1>8, <1>19, <1>30
<1>32. PICK w13 \in Nat : w13 = v[13] /\ w13 = 16 * w9 + 8 * p10 + 4 * p11 + 2 * p12 + p13
  BY <1>31
<1>33. v[14] = 2 * w13 + p14
  BY <1>9, <1>20, <1>32
<1>34. v[15] = 4 * w13 + 2 * p14 + p15
  BY <1>10, <1>21, <1>33
<1>35. v[16] = 8 * w13 + 4 * p14 + 2 * p15 + p16
  BY <1>11, <1>22, <1>34
<1>36. w13 = 128 * p6 + 64 * p7 + 32 * p8 + 16 * p9 + 8 * p10 + 4 * p11 + 2 * p12 + p13
  BY <1>27, <1>32
<1>37. v[16] = 1024 * p6 + 512 * p7 + 256 * p8 + 128 * p9 + 64 * p10 + 32 * p11
      + 16 * p12 + 8 * p13 + 4 * p14 + 2 * p15 + p16
  BY <1>36, <1>35
<1> QED BY <1>1, <1>2, <1>3, <1>4, <1>5, <1>6, <1>7, <1>8, <1>9, <1>10, <1>11, <1>37

\* The frame length of a header, bit by bit.
LEMMA FrameLengthIs ==
  ASSUME NEW phr, \A k \in 1 .. 16 : phr[k] \in Bit
  PROVE  FrameLength(phr) = 1024 * phr[6] + 512 * phr[7] + 256 * phr[8] + 128 * phr[9]
                            + 64 * phr[10] + 32 * phr[11] + 16 * phr[12] + 8 * phr[13]
                            + 4 * phr[14] + 2 * phr[15] + phr[16]
<1> DEFINE step == [i \in Nat |-> [x \in Nat |-> 2 * x + (IF i \in 1 .. 11 THEN phr[i
      + 5] ELSE 0)]]
           value == CHOOSE f : f = [k \in 5 .. 16 |-> IF k = 5 THEN 0 ELSE 2 * f[k - 1] + phr[k]]
<1>1. \A k \in 6 .. 16 : phr[k] \in Nat
  BY DEF Bit
<1>2. \A i \in 1 .. 11 : phr[i + 5] \in Nat
  BY <1>1
<1>3. step \in [Nat -> [Nat -> Nat]]
  <2>1. \A i \in Nat : (IF i \in 1 .. 11 THEN phr[i + 5] ELSE 0) \in Nat
    BY <1>2
  <2> QED BY <2>1
<1>4. PICK g \in [0 .. 11 -> Nat] : Recursive(g, 11, 0, step)
  <2> HIDE DEF step
  <2> QED BY <1>3, FiniteRecursion
<1>5. g[0] = 0 /\ \A i \in 1 .. 11 : g[i] = 2 * g[i - 1] + phr[i + 5]
  <2>1. ASSUME NEW i \in 1 .. 11 PROVE g[i] = 2 * g[i - 1] + phr[i + 5]
    <3>1. g[i] = step[i][g[i - 1]]
      BY <1>4 DEF Recursive
    <3>2. i \in Nat /\ g[i - 1] \in Nat
      OBVIOUS
    <3> QED BY <3>1, <3>2
  <2>2. g[0] = 0
    BY <1>4 DEF Recursive
  <2> QED BY <2>1, <2>2
<1> DEFINE f == [k \in 5 .. 16 |-> g[k - 5]]
<1>6. f = [k \in 5 .. 16 |-> IF k = 5 THEN 0 ELSE 2 * f[k - 1] + phr[k]]
  <2>1. ASSUME NEW k \in 5 .. 16
        PROVE  f[k] = IF k = 5 THEN 0 ELSE 2 * f[k - 1] + phr[k]
    <3>1. CASE k = 5
      BY <1>5, <3>1
    <3>2. CASE k # 5
      <4>1. k - 5 \in 1 .. 11 /\ (k - 5) - 1 = k - 6 /\ (k - 5) + 5 = k
            /\ k - 1 \in 5 .. 16 /\ (k - 1) - 5 = k - 6
        BY <3>2
      <4>2. g[k - 5] = 2 * g[k - 6] + phr[k]
        BY <1>5, <4>1
      <4>3. f[k] = g[k - 5] /\ f[k - 1] = g[k - 6]
        BY <4>1
      <4> HIDE DEF f
      <4> QED BY <3>2, <4>2, <4>3
    <3> QED BY <3>1, <3>2
  <2>2. f = [k \in 5 .. 16 |-> f[k]]
    OBVIOUS
  <2> HIDE DEF f
  <2> QED BY <2>1, <2>2
<1>7. PICK v : v = value
  OBVIOUS
<1>8. v = [k \in 5 .. 16 |-> IF k = 5 THEN 0 ELSE 2 * v[k - 1] + phr[k]]
  <2> HIDE DEF f
  <2> QED BY <1>6, <1>7
<1>9. FrameLength(phr) = v[16]
  <2>1. PhrBits = 16
    BY DEF PhrBits, PhrOctets
  <2> QED BY <1>7, <2>1 DEF FrameLength
<1> HIDE DEF value, f, step
<1>10. v[5] = 0 /\ \A k \in 6 .. 16 : v[k] = 2 * v[k - 1] + phr[k]
  BY <1>8
<1> QED BY <1>1, <1>9, <1>10, Horner

\* A header written and read.
LEMMA PhrIs ==
  ASSUME NEW length \in Nat, length <= 2047, NEW fcs16 \in BOOLEAN
  PROVE  /\ Phr(length, fcs16) \in [1 .. 16 -> Bit]
         /\ Fcs16(Phr(length, fcs16)) <=> fcs16
         /\ FrameLength(Phr(length, fcs16)) = length
<1> DEFINE phr == Phr(length, fcs16)
           v == [k \in 5 .. 16 |-> IF k = 5 THEN 0 ELSE length \div 2 ^ (16 - k)]
<1>1. phr = [k \in 1 .. 16 |->
               CASE k < 4 -> 0
                 [] k = 4 -> IF fcs16 THEN 1 ELSE 0
                 [] k = 5 -> 1
                 [] OTHER -> (length \div 2 ^ (16 - k)) % 2]
  BY DEF Phr, PhrBits, PhrOctets
<1>2. phr[4] = (IF fcs16 THEN 1 ELSE 0)
  BY <1>1
<1>3. \A k \in 1 .. 5 : phr[k] \in Bit
  BY <1>1 DEF Bit
<1>4. \A k \in 6 .. 16 : phr[k] = (length \div 2 ^ (16 - k)) % 2
  BY <1>1
<1>5. /\ 2 ^ (16 - 6) = 1024 /\ 2 ^ (16 - 7) = 512 /\ 2 ^ (16 - 8) = 256 /\ 2 ^ (16 - 9) = 128
      /\ 2 ^ (16 - 10) = 64 /\ 2 ^ (16 - 11) = 32 /\ 2 ^ (16 - 12) = 16 /\ 2 ^ (16 - 13) = 8
      /\ 2 ^ (16 - 14) = 4 /\ 2 ^ (16 - 15) = 2 /\ 2 ^ (16 - 16) = 1
  <2>1. /\ 16 - 6 = 10 /\ 16 - 7 = 9 /\ 16 - 8 = 8 /\ 16 - 9 = 7
        /\ 16 - 10 = 6 /\ 16 - 11 = 5 /\ 16 - 12 = 4 /\ 16 - 13 = 3
        /\ 16 - 14 = 2 /\ 16 - 15 = 1 /\ 16 - 16 = 0
    OBVIOUS
  <2>2. /\ 2 ^ 10 = 1024 /\ 2 ^ 9 = 512 /\ 2 ^ 8 = 256 /\ 2 ^ 7 = 128
        /\ 2 ^ 6 = 64 /\ 2 ^ 5 = 32 /\ 2 ^ 4 = 16 /\ 2 ^ 3 = 8
        /\ 2 ^ 2 = 4 /\ 2 ^ 1 = 2 /\ 2 ^ 0 = 1
    OBVIOUS
  <2> QED BY <2>1, <2>2
<1> HIDE DEF phr, v
<1>6. /\ phr[6] = (length \div 1024) % 2
      /\ phr[7] = (length \div 512) % 2
      /\ phr[8] = (length \div 256) % 2
      /\ phr[9] = (length \div 128) % 2
      /\ phr[10] = (length \div 64) % 2
      /\ phr[11] = (length \div 32) % 2
      /\ phr[12] = (length \div 16) % 2
      /\ phr[13] = (length \div 8) % 2
      /\ phr[14] = (length \div 4) % 2
      /\ phr[15] = (length \div 2) % 2
      /\ phr[16] = length % 2
  <2>1. phr[16] = (length \div 1) % 2
    BY <1>4, <1>5
  <2>2. length \div 1 = length
    OBVIOUS
  <2> QED BY <1>4, <1>5, <2>1, <2>2
<1>7. /\ v[5] = 0
      /\ v[6] = length \div 1024
      /\ v[7] = length \div 512
      /\ v[8] = length \div 256
      /\ v[9] = length \div 128
      /\ v[10] = length \div 64
      /\ v[11] = length \div 32
      /\ v[12] = length \div 16
      /\ v[13] = length \div 8
      /\ v[14] = length \div 4
      /\ v[15] = length \div 2
      /\ v[16] = length
  <2>1. \A k \in 6 .. 16 : v[k] = length \div 2 ^ (16 - k)
    BY DEF v
  <2>2. v[5] = 0
    BY DEF v
  <2>3. length \div 1 = length
    OBVIOUS
  <2> QED BY <1>5, <2>1, <2>2, <2>3
<1>8. \A k \in 6 .. 16 : phr[k] \in Bit
  <2>1. phr[6] \in Bit
    <3>1. (length \div 1024) % 2 \in {0, 1}
      OBVIOUS
    <3> QED BY <1>6, <3>1 DEF Bit
  <2>2. phr[7] \in Bit
    <3>1. (length \div 512) % 2 \in {0, 1}
      OBVIOUS
    <3> QED BY <1>6, <3>1 DEF Bit
  <2>3. phr[8] \in Bit
    <3>1. (length \div 256) % 2 \in {0, 1}
      OBVIOUS
    <3> QED BY <1>6, <3>1 DEF Bit
  <2>4. phr[9] \in Bit
    <3>1. (length \div 128) % 2 \in {0, 1}
      OBVIOUS
    <3> QED BY <1>6, <3>1 DEF Bit
  <2>5. phr[10] \in Bit
    <3>1. (length \div 64) % 2 \in {0, 1}
      OBVIOUS
    <3> QED BY <1>6, <3>1 DEF Bit
  <2>6. phr[11] \in Bit
    <3>1. (length \div 32) % 2 \in {0, 1}
      OBVIOUS
    <3> QED BY <1>6, <3>1 DEF Bit
  <2>7. phr[12] \in Bit
    <3>1. (length \div 16) % 2 \in {0, 1}
      OBVIOUS
    <3> QED BY <1>6, <3>1 DEF Bit
  <2>8. phr[13] \in Bit
    <3>1. (length \div 8) % 2 \in {0, 1}
      OBVIOUS
    <3> QED BY <1>6, <3>1 DEF Bit
  <2>9. phr[14] \in Bit
    <3>1. (length \div 4) % 2 \in {0, 1}
      OBVIOUS
    <3> QED BY <1>6, <3>1 DEF Bit
  <2>10. phr[15] \in Bit
    <3>1. (length \div 2) % 2 \in {0, 1}
      OBVIOUS
    <3> QED BY <1>6, <3>1 DEF Bit
  <2>11. phr[16] \in Bit
    <3>1. length % 2 \in {0, 1}
      OBVIOUS
    <3> QED BY <1>6, <3>1 DEF Bit
  <2> SUFFICES ASSUME NEW k \in 6 .. 16 PROVE phr[k] \in Bit
    OBVIOUS
  <2>12. k = 6 \/ k = 7 \/ k = 8 \/ k = 9 \/ k = 10 \/ k = 11 \/ k = 12 \/ k = 13
        \/ k = 14 \/ k = 15 \/ k = 16
    OBVIOUS
  <2> QED BY <2>1, <2>2, <2>3, <2>4, <2>5, <2>6, <2>7, <2>8, <2>9, <2>10, <2>11, <2>12
<1>9. /\ v[6] = 2 * v[5] + phr[6]
      /\ v[7] = 2 * v[6] + phr[7]
      /\ v[8] = 2 * v[7] + phr[8]
      /\ v[9] = 2 * v[8] + phr[9]
      /\ v[10] = 2 * v[9] + phr[10]
      /\ v[11] = 2 * v[10] + phr[11]
      /\ v[12] = 2 * v[11] + phr[12]
      /\ v[13] = 2 * v[12] + phr[13]
      /\ v[14] = 2 * v[13] + phr[14]
      /\ v[15] = 2 * v[14] + phr[15]
      /\ v[16] = 2 * v[15] + phr[16]
  <2>6. v[6] = 2 * v[5] + phr[6]
    BY <1>6, <1>7
  <2>7. v[7] = 2 * v[6] + phr[7]
    BY <1>6, <1>7
  <2>8. v[8] = 2 * v[7] + phr[8]
    BY <1>6, <1>7
  <2>9. v[9] = 2 * v[8] + phr[9]
    BY <1>6, <1>7
  <2>10. v[10] = 2 * v[9] + phr[10]
    BY <1>6, <1>7
  <2>11. v[11] = 2 * v[10] + phr[11]
    BY <1>6, <1>7
  <2>12. v[12] = 2 * v[11] + phr[12]
    BY <1>6, <1>7
  <2>13. v[13] = 2 * v[12] + phr[13]
    BY <1>6, <1>7
  <2>14. v[14] = 2 * v[13] + phr[14]
    BY <1>6, <1>7
  <2>15. v[15] = 2 * v[14] + phr[15]
    BY <1>6, <1>7
  <2>16. v[16] = 2 * v[15] + phr[16]
    BY <1>6, <1>7
  <2> QED BY <2>6, <2>7, <2>8, <2>9, <2>10, <2>11, <2>12, <2>13, <2>14, <2>15, <2>16
<1>10. \A k \in 6 .. 16 : v[k] = 2 * v[k - 1] + phr[k]
  <2> SUFFICES ASSUME NEW k \in 6 .. 16 PROVE v[k] = 2 * v[k - 1] + phr[k]
    OBVIOUS
  <2>1. k = 6 \/ k = 7 \/ k = 8 \/ k = 9 \/ k = 10 \/ k = 11 \/ k = 12 \/ k = 13
        \/ k = 14 \/ k = 15 \/ k = 16
    OBVIOUS
  <2> QED BY <1>9, <2>1
<1>11. \A k \in 1 .. 16 : phr[k] \in Bit
  BY <1>3, <1>8
<1>12. \A k \in 6 .. 16 : phr[k] \in Nat
  BY <1>8 DEF Bit
<1>13. FrameLength(phr) = v[16]
  BY FrameLengthIs, Horner, <1>7, <1>10, <1>11, <1>12
<1>14. FrameLength(phr) = length
  BY <1>7, <1>13
<1>15. Fcs16(phr) <=> fcs16
  BY <1>2 DEF Fcs16
<1>16. phr \in [1 .. 16 -> Bit]
  BY <1>1, <1>11
<1> QED BY <1>14, <1>15, <1>16 DEF phr

\* The frame length of a header is twice what its first bits say, and the last bit.
LEMMA LengthHalves ==
  ASSUME NEW p, \A k \in 1 .. 16 : p[k] \in Bit, NEW q, \A k \in 1 .. 16 : q[k] \in Bit,
         Agree(p, q, 15)
  PROVE  \E h \in Nat : /\ FrameLength(p) = 2 * h + p[16]
                        /\ FrameLength(q) = 2 * h + q[16]
<1>1. PICK p6 \in Nat : p6 = p[6] /\ p6 = q[6]
  BY DEF Bit, Agree
<1>2. PICK p7 \in Nat : p7 = p[7] /\ p7 = q[7]
  BY DEF Bit, Agree
<1>3. PICK p8 \in Nat : p8 = p[8] /\ p8 = q[8]
  BY DEF Bit, Agree
<1>4. PICK p9 \in Nat : p9 = p[9] /\ p9 = q[9]
  BY DEF Bit, Agree
<1>5. PICK p10 \in Nat : p10 = p[10] /\ p10 = q[10]
  BY DEF Bit, Agree
<1>6. PICK p11 \in Nat : p11 = p[11] /\ p11 = q[11]
  BY DEF Bit, Agree
<1>7. PICK p12 \in Nat : p12 = p[12] /\ p12 = q[12]
  BY DEF Bit, Agree
<1>8. PICK p13 \in Nat : p13 = p[13] /\ p13 = q[13]
  BY DEF Bit, Agree
<1>9. PICK p14 \in Nat : p14 = p[14] /\ p14 = q[14]
  BY DEF Bit, Agree
<1>10. PICK p15 \in Nat : p15 = p[15] /\ p15 = q[15]
  BY DEF Bit, Agree
<1>11. PICK p16 \in Nat : p16 = p[16]
  BY DEF Bit
<1>12. PICK q16 \in Nat : q16 = q[16]
  BY DEF Bit
<1>13. PICK h \in Nat : h = 512 * p6 + 256 * p7 + 128 * p8 + 64 * p9 + 32 * p10
      + 16 * p11 + 8 * p12 + 4 * p13 + 2 * p14 + p15
  OBVIOUS
<1>14. FrameLength(p) = 1024 * p6 + 512 * p7 + 256 * p8 + 128 * p9 + 64 * p10
      + 32 * p11 + 16 * p12 + 8 * p13 + 4 * p14 + 2 * p15 + p16
  <2>1. FrameLength(p) = 1024 * p[6] + 512 * p[7] + 256 * p[8] + 128 * p[9]
        + 64 * p[10] + 32 * p[11] + 16 * p[12] + 8 * p[13] + 4 * p[14] + 2 * p[15] + p[16]
    BY FrameLengthIs
  <2>2. p[6] = p6 /\ p[7] = p7 /\ p[8] = p8 /\ p[9] = p9 /\ p[10] = p10 /\ p[11] = p11
        /\ p[12] = p12 /\ p[13] = p13 /\ p[14] = p14 /\ p[15] = p15 /\ p[16] = p16
    BY <1>1, <1>2, <1>3, <1>4, <1>5, <1>6, <1>7, <1>8, <1>9, <1>10, <1>11
  <2> QED BY <2>1, <2>2
<1>15. FrameLength(q) = 1024 * p6 + 512 * p7 + 256 * p8 + 128 * p9 + 64 * p10
      + 32 * p11 + 16 * p12 + 8 * p13 + 4 * p14 + 2 * p15 + q16
  <2>1. FrameLength(q) = 1024 * q[6] + 512 * q[7] + 256 * q[8] + 128 * q[9]
        + 64 * q[10] + 32 * q[11] + 16 * q[12] + 8 * q[13] + 4 * q[14] + 2 * q[15] + q[16]
    BY FrameLengthIs
  <2>2. q[6] = p6 /\ q[7] = p7 /\ q[8] = p8 /\ q[9] = p9 /\ q[10] = p10 /\ q[11] = p11
        /\ q[12] = p12 /\ q[13] = p13 /\ q[14] = p14 /\ q[15] = p15 /\ q[16] = q16
    BY <1>1, <1>2, <1>3, <1>4, <1>5, <1>6, <1>7, <1>8, <1>9, <1>10, <1>12
  <2> QED BY <2>1, <2>2
<1>16. 2 * h = 1024 * p6 + 512 * p7 + 256 * p8 + 128 * p9 + 64 * p10 + 32 * p11
      + 16 * p12 + 8 * p13 + 4 * p14 + 2 * p15
  BY <1>13
<1>17. FrameLength(p) = 2 * h + p16
  BY <1>14, <1>16
<1>18. FrameLength(q) = 2 * h + q16
  BY <1>15, <1>16
<1> QED BY <1>11, <1>12, <1>17, <1>18

\* Headers that differ in their last bit at most announce a frame of the same
\* number of blocks on air.
LEMMA HeaderAlike ==
  ASSUME NEW p, \A k \in 1 .. 16 : p[k] \in Bit, NEW q, \A k \in 1 .. 16 : q[k] \in Bit,
         Agree(p, q, 15), FrameLength(p) >= 2
  PROVE  /\ FrameLength(p) \in Nat /\ FrameLength(q) \in Nat /\ FrameLength(q) # 0
         /\ CodedLength(FrameLength(p)) = CodedLength(FrameLength(q))
<1>1. PICK h \in Nat : FrameLength(p) = 2 * h + p[16] /\ FrameLength(q) = 2 * h + q[16]
  BY LengthHalves
<1>2. PICK even \in Nat : even = 2 * h /\ even % 2 = 0
  OBVIOUS
<1>3. PICK b \in Bit : b = p[16]
  OBVIOUS
<1>4. PICK c \in Bit : c = q[16]
  OBVIOUS
<1>5. CodedLength(even + 1) = CodedLength(even)
  BY <1>2, LastHeaderBitHarmless
<1>6. even + 0 = even
  OBVIOUS
<1>7. FrameLength(p) = even + b /\ FrameLength(q) = even + c
  BY <1>1, <1>2, <1>3, <1>4
<1>8. CodedLength(even + b) = CodedLength(even) /\ CodedLength(even + c) = CodedLength(even)
  BY <1>5, <1>6 DEF Bit
<1>9. even >= 1
  BY <1>7 DEF Bit
<1>10. FrameLength(p) \in Nat /\ FrameLength(q) \in Nat /\ FrameLength(q) # 0
  BY <1>7, <1>9 DEF Bit
<1> QED BY <1>7, <1>8, <1>10

\* Bits in front of others stay where they are.
LEMMA ConcatBits ==
  ASSUME NEW n \in Nat, NEW k \in Nat, NEW a \in Seq(Bit), Len(a) = n,
         NEW b \in Seq(Bit), Len(b) = k
  PROVE  /\ a \o b \in Seq(Bit) /\ Len(a \o b) = n + k
         /\ \A i \in 1 .. n : (a \o b)[i] = a[i]
<1>1. PICK c : c = a \o b
  OBVIOUS
<1>2. /\ c \in Seq(Bit) /\ Len(c) = n + k
      /\ \A i \in 1 .. n + k : c[i] = IF i <= n THEN a[i] ELSE b[i - n]
  BY <1>1, ConcatProperties
<1>3. \A i \in 1 .. n : c[i] = a[i]
  BY <1>2
<1> QED BY <1>1, <1>2, <1>3

\* Bits behind others move.
LEMMA ConcatBehind ==
  ASSUME NEW n \in Nat, NEW k \in Nat, NEW a \in Seq(Bit), Len(a) = n,
         NEW b \in Seq(Bit), Len(b) = k, NEW i \in 1 .. k
  PROVE  (a \o b)[n + i] = b[i]
<1>1. PICK j \in Nat : j = n + i
  OBVIOUS
<1>2. j \in 1 .. n + k /\ ~(j <= n) /\ j - n = i
  BY <1>1
<1>3. (a \o b)[j] = b[j - n]
  BY <1>2, ConcatProperties
<1> QED BY <1>1, <1>2, <1>3

\* A function on the first n numbers is a sequence.
LEMMA SequenceOfBits ==
  ASSUME NEW n \in Nat, NEW f \in [1 .. n -> Bit]
  PROVE  f \in Seq(Bit) /\ Len(f) = n /\ \A k \in 1 .. n : f[k] \in Bit
  OBVIOUS

Sent(s) == Header(s) \o Psdu(s) \o Padding(s)
SentBits(s) == 4 * CodedLength(Octets(s))

\* The header of a frame says its length and its FCS type.
LEMMA HeaderIs ==
  ASSUME NEW s \in Setups
  PROVE  /\ Header(s) \in Seq(Bit) /\ Len(Header(s)) = 16
         /\ \A k \in 1 .. 16 : Header(s)[k] \in Bit
         /\ FrameLength(Header(s)) = Octets(s)
         /\ Fcs16(Header(s)) <=> s.fcs16
<1>1. Octets(s) \in Nat /\ Octets(s) <= 2047 /\ s.fcs16 \in BOOLEAN
  BY PsduIs
<1>2. Header(s) = Phr(Octets(s), s.fcs16)
  BY DEF Header, Octets
<1>3. Header(s) \in [1 .. 16 -> Bit]
  BY <1>1, <1>2, PhrIs
<1>4. Fcs16(Header(s)) <=> s.fcs16
  BY <1>1, <1>2, PhrIs
<1>5. FrameLength(Header(s)) = Octets(s)
  BY <1>1, <1>2, PhrIs
<1>6. Header(s) \in Seq(Bit) /\ Len(Header(s)) = 16 /\ \A k \in 1 .. 16 : Header(s)[k] \in Bit
  <2>1. 16 \in Nat
    OBVIOUS
  <2> QED BY <1>3, <2>1, SequenceOfBits
<1> QED BY <1>4, <1>5, <1>6

\* The bits that are coded: whole blocks, with eight or sixteen behind the PSDU.
LEMMA SentBitsIs ==
  ASSUME NEW s \in Setups
  PROVE  /\ SentBits(s) \in Nat /\ SentBits(s) % BlockSymbols = 0
         /\ SentBits(s) >= 40
         /\ SentBits(s) - 5 >= 16 + 8 * Octets(s)
         /\ SentBits(s) = 16 + 8 * Octets(s) + (TailBits + PadBits(Octets(s)))
         /\ TailBits + PadBits(Octets(s)) \in Nat
<1>1. PICK o \in Nat : o = Octets(s) /\ o >= 2
  BY PsduIs, Octets(s) \in Nat
<1>2. PICK c \in Nat : c = CodedLength(o)
  <2>1. CodedLength(o) \in Nat
    BY DEF CodedLength, PhrOctets
  <2> QED BY <2>1
<1>3. c % 4 = 0 /\ 4 * c = 8 * (PhrOctets + o) + TailBits + PadBits(o)
  BY <1>2, CodedLengthExact
<1>4. TailBits + PadBits(o) \in {8, 16}
  BY DEF TailBits, PadBits
<1>5. PICK p \in {8, 16} : p = TailBits + PadBits(o)
  BY <1>4
<1>6. TailBits \in Int /\ PadBits(o) \in Int
  BY DEF TailBits, PadBits
<1>7. 4 * c = 16 + 8 * o + p
  BY <1>3, <1>5, <1>6 DEF PhrOctets
<1>8. (4 * c) % 16 = 0
  BY <1>3
<1>9. SentBits(s) = 4 * c
  BY <1>1, <1>2 DEF SentBits
<1>10. 4 * c \in Nat /\ 4 * c >= 40 /\ (4 * c) - 5 >= 16 + 8 * o
  BY <1>1, <1>7
<1> QED BY <1>1, <1>5, <1>7, <1>8, <1>9, <1>10 DEF BlockSymbols

\* Tail and padding are bits.
LEMMA PaddingIs ==
  ASSUME NEW s \in Setups
  PROVE  /\ Padding(s) \in Seq(Bit) /\ Len(Padding(s)) = TailBits + PadBits(Octets(s))
<1>1. s.pad \in Bit
  BY ReceptionConstants
<1>2. PICK n \in Nat : n = TailBits + PadBits(Octets(s))
  BY SentBitsIs
<1>3. Padding(s) = [i \in 1 .. n |-> IF i <= TailBits THEN 0 ELSE s.pad]
  BY <1>2 DEF Padding, Octets
<1>4. Padding(s) \in [1 .. n -> Bit]
  BY <1>1, <1>3 DEF Bit
<1> QED BY <1>2, <1>4

\* What is coded: the header, the PSDU and what comes behind.
LEMMA SentIs ==
  ASSUME NEW s \in Setups
  PROVE  /\ Sent(s) \in Words(SentBits(s))
         /\ \A i \in 1 .. 16 : Sent(s)[i] = Header(s)[i]
         /\ \A i \in 1 .. 8 * Octets(s) : Sent(s)[16 + i] = Psdu(s)[i]
<1>1. PICK h \in Seq(Bit) : h = Header(s) /\ Len(h) = 16
  BY HeaderIs
<1>2. PICK q \in Seq(Bit) : q = Psdu(s) /\ Len(q) = 8 * Octets(s)
  BY PsduIs
<1>3. PICK r \in Seq(Bit) : r = Padding(s) /\ Len(r) = TailBits + PadBits(Octets(s))
  BY PaddingIs
<1>4. PICK m \in Nat : m = 8 * Octets(s)
  BY PsduIs
<1>5. PICK t \in Nat : t = TailBits + PadBits(Octets(s))
  BY SentBitsIs
<1>6. Sent(s) = (h \o q) \o r
  BY <1>1, <1>2, <1>3 DEF Sent
<1>7. PICK c \in Seq(Bit) :
        /\ c = h \o q /\ Len(c) = 16 + m
        /\ \A i \in 1 .. 16 : c[i] = h[i]
        /\ \A i \in 1 .. m : c[16 + i] = q[i]
  <2>1. PICK n \in Nat : n = 16
    OBVIOUS
  <2>2. Len(h) = n /\ Len(q) = m
    BY <1>1, <1>2, <1>4, <2>1
  <2>3. h \o q \in Seq(Bit) /\ Len(h \o q) = n + m
    BY <2>2, ConcatBits
  <2>4. \A i \in 1 .. n : (h \o q)[i] = h[i]
    BY <2>2, ConcatBits
  <2>5. ASSUME NEW i \in 1 .. m PROVE (h \o q)[n + i] = q[i]
    BY <2>2, ConcatBehind
  <2> QED BY <2>1, <2>3, <2>4, <2>5
<1>8. /\ c \o r \in Seq(Bit) /\ Len(c \o r) = (16 + m) + t
      /\ \A i \in 1 .. 16 + m : (c \o r)[i] = c[i]
  <2>1. PICK k \in Nat : k = 16 + m
    OBVIOUS
  <2>2. Len(c) = k /\ Len(r) = t
    BY <1>3, <1>5, <1>7, <2>1
  <2>3. c \o r \in Seq(Bit) /\ Len(c \o r) = k + t /\ \A i \in 1 .. k : (c \o r)[i] = c[i]
    BY <2>2, ConcatBits
  <2> QED BY <2>1, <2>3
<1>9. SentBits(s) = (16 + m) + t
  BY <1>4, <1>5, SentBitsIs
<1>10. Sent(s) \in Words(SentBits(s))
  BY <1>6, <1>7, <1>8, <1>9 DEF Words
<1>11. \A i \in 1 .. 16 : i \in 1 .. 16 + m
  OBVIOUS
<1>12. \A i \in 1 .. m : 16 + i \in 1 .. 16 + m
  OBVIOUS
<1>13. \A i \in 1 .. 16 : Sent(s)[i] = Header(s)[i]
  BY <1>1, <1>6, <1>7, <1>8, <1>11
<1>14. \A i \in 1 .. m : Sent(s)[16 + i] = Psdu(s)[i]
  BY <1>2, <1>6, <1>7, <1>8, <1>12
<1> QED BY <1>4, <1>10, <1>13, <1>14

\* A coded frame on air.
LEMMA CodedOnAir ==
  ASSUME NEW s \in Setups, s.coded
  PROVE  /\ OnAir(s) = Bits(Interleaved(Encoded(Sent(s))))
         /\ OnAir(s) \in [1 .. 2 * SentBits(s) -> Bit]
         /\ Len(OnAir(s)) = 2 * SentBits(s)
<1>1. OnAir(s) = Bits(Interleaved(Encoded(Sent(s))))
  BY DEF OnAir, Sent
<1>2. PICK n \in Nat : n = SentBits(s) /\ n % BlockSymbols = 0
  BY SentBitsIs
<1>3. PICK word \in Words(n) : word = Sent(s)
  BY <1>2, SentIs
<1>4. PICK code \in Seq(Bit \X Bit) : code = Encoded(word) /\ Len(code) = n
  BY EncodedIs DEF Words
<1>5. Interleaved(code) = [i \in 1 .. n |-> code[BlockStart(i) + Source(Place(i))]]
  BY <1>4 DEF Interleaved
<1>6. ASSUME NEW i \in 1 .. n PROVE code[BlockStart(i) + Source(Place(i))] \in Bit \X Bit
  <2>1. Moved(i) \in 1 .. n
    BY <1>2, MovedTwice
  <2>2. BlockStart(i) + Source(Place(i)) \in 1 .. n
    BY <2>1 DEF Moved
  <2> QED BY <1>4, <2>2, ElementOfSeq
<1>7. Interleaved(code) \in Seq(Bit \X Bit) /\ Len(Interleaved(code)) = n
  BY <1>5, <1>6
<1>8. Bits(Interleaved(code)) \in [1 .. 2 * n -> Bit]
  BY <1>7, BitsAre
<1>9. Len(Bits(Interleaved(code))) = 2 * n
  BY <1>8
<1> QED BY <1>1, <1>2, <1>3, <1>4, <1>8, <1>9

\* An uncoded frame on air.
LEMMA UncodedOnAir ==
  ASSUME NEW s \in Setups, ~s.coded
  PROVE  /\ OnAir(s) = Header(s) \o Psdu(s)
         /\ OnAir(s) \in [1 .. 16 + 8 * Octets(s) -> Bit]
         /\ Len(OnAir(s)) = 16 + 8 * Octets(s)
<1>1. OnAir(s) = Header(s) \o Psdu(s)
  BY DEF OnAir
<1>2. PICK m \in Nat : m = 8 * Octets(s)
  BY PsduIs
<1>3. Header(s) \in Seq(Bit) /\ Len(Header(s)) = 16
  BY HeaderIs
<1>4. Psdu(s) \in Seq(Bit) /\ Len(Psdu(s)) = m
  BY <1>2, PsduIs
<1>5. PICK c \in Seq(Bit) : c = Header(s) \o Psdu(s) /\ Len(c) = 16 + m
  <2>1. PICK n \in Nat : n = 16
    OBVIOUS
  <2>2. Len(Header(s)) = n
    BY <1>3, <2>1
  <2>3. Header(s) \o Psdu(s) \in Seq(Bit) /\ Len(Header(s) \o Psdu(s)) = n + m
    BY <1>3, <1>4, <2>2, ConcatBits
  <2> QED BY <2>1, <2>3
<1>6. PICK k \in Nat : k = 16 + m
  OBVIOUS
<1>7. c \in [1 .. k -> Bit]
  <2>1. c \in Seq(Bit) /\ Len(c) = k
    BY <1>5, <1>6
  <2> QED BY <2>1
<1> QED BY <1>1, <1>2, <1>5, <1>6, <1>7

\* What is on air are bits, at least as many as decide on the frame length.
LEMMA OnAirIs ==
  ASSUME NEW s \in Setups
  PROVE  /\ OnAir(s) \in [1 .. Len(OnAir(s)) -> Bit]
         /\ Len(OnAir(s)) \in Nat /\ Len(OnAir(s)) >= 32
<1>1. CASE s.coded
  <2>1. PICK n \in Nat : n = SentBits(s) /\ n >= 40
    BY SentBitsIs
  <2>2. OnAir(s) \in [1 .. 2 * n -> Bit] /\ Len(OnAir(s)) = 2 * n
    BY <1>1, <2>1, CodedOnAir
  <2> QED BY <2>1, <2>2
<1>2. CASE ~s.coded
  <2>1. PICK m \in Nat : m = 8 * Octets(s) /\ m >= 16
    <3>1. PICK o \in Nat : o = Octets(s) /\ o >= 2
      BY PsduIs, Octets(s) \in Nat
    <3> QED BY <3>1
  <2>2. PICK n \in Nat : n = 16 + m /\ n >= 32
    BY <2>1
  <2>3. OnAir(s) \in [1 .. n -> Bit] /\ Len(OnAir(s)) = n
    BY <1>2, <2>1, <2>2, UncodedOnAir
  <2> QED BY <2>2, <2>3
<1> QED BY <1>1, <1>2

-----------------------------------------------------------------------------
(***************************************************************************)
(* The invariant: the air is what was sent but for the damaged bits, and   *)
(* what was collected is a whole number of blocks and no less than one.    *)
(***************************************************************************)
AirAsSent ==
  /\ setup \in Setups
  /\ air \in [1 .. Len(OnAir(setup)) -> Bit]
  /\ damaged \in SUBSET (1 .. Len(OnAir(setup)))
  /\ Flipped(air, OnAir(setup), damaged, Len(OnAir(setup)))

DamageBounded ==
  /\ setup.jammed \subseteq damaged
  /\ Cardinality(damaged \ setup.jammed) <= setup.errors

Collected ==
  /\ Len(pdu) \in Nat /\ Len(pdu) % 8 = 0 /\ Len(pdu) >= PhrBits
  /\ setup.coded => Len(pdu) % (2 * BlockSymbols) = 0

Outcomes == (Final \ {"short", "no whole blocks"}) \cup {"on air", "collected"}

ReceptionInv ==
  /\ AirAsSent
  /\ DamageBounded
  /\ expected = <<>> \/ expected \in [1 .. PhrBits -> Bit]
  /\ outcome \in Outcomes
  /\ outcome = "collected" => Collected
  /\ published # {} <=> outcome = "published"

\* The bits received are as many as were sent.
LEMMA AirIs ==
  ASSUME AirAsSent
  PROVE  /\ Len(air) = Len(OnAir(setup)) /\ Len(air) \in Nat /\ Len(air) >= 32
         /\ DOMAIN air = 1 .. Len(air) /\ air \in Seq(Bit)
<1>1. PICK n \in Nat : n = Len(OnAir(setup)) /\ n >= 32
  BY OnAirIs DEF AirAsSent
<1>2. air \in [1 .. n -> Bit]
  BY <1>1 DEF AirAsSent
<1> QED BY <1>1, <1>2

\* The invariant gives the types.
LEMMA InvGivesTypes ==
  ASSUME ReceptionInv
  PROVE  TypeOK
<1>1. air \in [1 .. Len(air) -> Bit] /\ damaged \subseteq DOMAIN air
  BY AirIs DEF ReceptionInv, AirAsSent
<1>2. outcome \in Final \cup {"on air", "collected"}
      /\ outcome \notin {"short", "no whole blocks"}
  BY DEF ReceptionInv, Outcomes
<1>3. outcome = "collected" => Len(pdu) > 0 /\ Len(pdu) % 8 = 0
  BY DEF ReceptionInv, Collected, PhrBits, PhrOctets
<1> QED BY <1>1, <1>2, <1>3 DEF ReceptionInv, AirAsSent, DamageBounded, TypeOK

\* The invariant holds on air, whatever is jammed.
LEMMA InitInv == Init => ReceptionInv
<1> SUFFICES ASSUME Init PROVE ReceptionInv
  OBVIOUS
<1>1. setup \in Setups
  BY DEF Init
<1>2. PICK n \in Nat : n = Len(OnAir(setup))
  BY <1>1, OnAirIs
<1>3. OnAir(setup) \in [1 .. n -> Bit]
  BY <1>1, <1>2, OnAirIs
<1>4. damaged \in SUBSET (1 .. n)
  BY <1>1, <1>2, JammedOnAir DEF Init
<1>5. air = [i \in 1 .. n |-> IF i \in damaged THEN 1 - OnAir(setup)[i] ELSE OnAir(setup)[i]]
  BY <1>3 DEF Init
<1>6. air \in [1 .. n -> Bit] /\ Flipped(air, OnAir(setup), damaged, n)
  <2>1. ASSUME NEW i \in 1 .. n
        PROVE  (IF i \in damaged THEN 1 - OnAir(setup)[i] ELSE OnAir(setup)[i]) \in Bit
    BY <1>3 DEF Bit
  <2> QED BY <1>5, <2>1 DEF Flipped
<1>7. AirAsSent
  BY <1>1, <1>2, <1>4, <1>6 DEF AirAsSent
<1>8. DamageBounded
  <2>1. setup.errors \in Nat
    BY <1>1, ReceptionConstants
  <2>2. damaged = setup.jammed /\ damaged \ setup.jammed = {}
    BY DEF Init
  <2>3. Cardinality({}) = 0
    BY FS_EmptySet
  <2> QED BY <2>1, <2>2, <2>3 DEF DamageBounded
<1> QED BY <1>7, <1>8 DEF Init, ReceptionInv, Outcomes, Final

\* One more damaged bit is one more bit not as sent.
LEMMA DamageInv == ReceptionInv /\ Damage => ReceptionInv'
<1> SUFFICES ASSUME ReceptionInv, Damage PROVE ReceptionInv'
  OBVIOUS
<1>1. PICK i \in DOMAIN air \ damaged :
        damaged' = damaged \cup {i} /\ air' = [air EXCEPT ![i] = 1 - @]
  BY DEF Damage
<1>2. /\ setup' = setup /\ expected' = expected /\ pdu' = pdu
      /\ published' = published /\ outcome' = outcome
  BY DEF Damage
<1>3. PICK n \in Nat : n = Len(OnAir(setup)) /\ 1 .. n = DOMAIN air
  BY AirIs DEF ReceptionInv
<1>4. /\ setup \in Setups /\ air \in [1 .. n -> Bit] /\ damaged \in SUBSET (1 .. n)
      /\ Flipped(air, OnAir(setup), damaged, n) /\ OnAir(setup) \in [1 .. n -> Bit]
  BY <1>3, OnAirIs DEF ReceptionInv, AirAsSent
<1>5. air' \in [1 .. n -> Bit] /\ damaged' \in SUBSET (1 .. n)
  <2>1. air[i] \in Bit
    BY <1>3, <1>4
  <2>2. 1 - air[i] \in Bit
    BY <2>1 DEF Bit
  <2> QED BY <1>1, <1>3, <1>4, <2>2
<1>6. Flipped(air', OnAir(setup), damaged', n)
  <2> SUFFICES ASSUME NEW p \in 1 .. n
               PROVE  air'[p] = IF p \in damaged' THEN 1 - OnAir(setup)[p] ELSE OnAir(setup)[p]
    BY DEF Flipped
  <2>1. CASE p = i
    <3>1. air[i] = OnAir(setup)[i]
      BY <1>1, <1>3, <1>4 DEF Flipped
    <3> QED BY <1>1, <1>3, <1>4, <2>1, <3>1
  <2>2. CASE p # i
    BY <1>1, <1>3, <1>4, <2>2 DEF Flipped
  <2> QED BY <2>1, <2>2
<1>7. AirAsSent'
  BY <1>2, <1>3, <1>4, <1>5, <1>6 DEF AirAsSent
<1>8. DamageBounded'
  <2>1. PICK bound \in Nat : bound = setup.errors
    BY <1>4, ReceptionConstants
  <2>2. Cardinality(damaged \ setup.jammed) < bound
    BY <2>1 DEF Damage
  <2>3. IsFiniteSet(damaged \ setup.jammed)
    <3>1. IsFiniteSet(1 .. n)
      BY FS_Interval
    <3>2. damaged \ setup.jammed \in SUBSET (1 .. n)
      BY <1>4
    <3> QED BY <3>1, <3>2, FS_Subset
  <2>4. PICK count \in Nat : count = Cardinality(damaged \ setup.jammed)
    BY <2>3, FS_CardinalityType
  <2>5. damaged' \ setup.jammed = (damaged \ setup.jammed) \cup {i}
    BY <1>1 DEF ReceptionInv, DamageBounded
  <2>6. Cardinality(damaged' \ setup.jammed) = count + 1
    <3>1. i \notin damaged \ setup.jammed
      OBVIOUS
    <3> QED BY <2>3, <2>4, <2>5, <3>1, FS_AddElement
  <2>7. setup.jammed \subseteq damaged'
    BY <1>1 DEF ReceptionInv, DamageBounded
  <2>8. count + 1 <= bound
    BY <2>2, <2>4
  <2> QED BY <1>2, <2>1, <2>6, <2>7, <2>8 DEF DamageBounded
<1>9. Collected' <=> Collected
  BY <1>2 DEF Collected
<1> QED BY <1>2, <1>7, <1>8, <1>9 DEF ReceptionInv

\* The header of a coded frame is a word of sixteen bits, whatever the air.
LEMMA CodedHeaderIs ==
  ASSUME NEW bits, Len(bits) \in Nat, Len(bits) = 2 * BlockSymbols
  PROVE  DecodeCodedPhr(bits) \in Words(16)
<1>1. PICK n \in Nat : n = BlockSymbols /\ n = 16 /\ n % BlockSymbols = 0 /\ n >= BlockSymbols
  BY DEF BlockSymbols
<1>2. Len(Symbols(bits)) = n
  BY <1>1, SymbolsAre
<1>3. Len(Deinterleaved(Symbols(bits))) = n
  <2>1. Deinterleaved(Symbols(bits))
          = [i \in 1 .. n |-> Symbols(bits)[BlockStart(i) + ReceivedAs(Place(i))]]
    BY <1>2 DEF Deinterleaved
  <2> QED BY <2>1
<1>4. Decoded(Deinterleaved(Symbols(bits))).bits \in Words(n)
  BY <1>3, DecodedNearest
<1> QED BY <1>1, <1>4 DEF DecodeCodedPhr

\* The header the correlator reads is one, and announces a length.
LEMMA HeaderHeardIs ==
  ASSUME AirAsSent
  PROVE  /\ HeaderHeard \in [1 .. PhrBits -> Bit]
         /\ FrameLength(HeaderHeard) \in Nat
<1>1. PhrBits = 16 /\ 2 * PhrBits = 32 /\ 2 * BlockSymbols = 32
  BY DEF PhrBits, PhrOctets, BlockSymbols
<1>2. Len(air) \in Nat /\ Len(air) >= 32 /\ air \in Seq(Bit)
  BY AirIs
<1>3. HeaderHeard \in Words(16)
  <2>1. CASE setup.coded
    <3>1. PICK first : first = SubSeq(air, 1, 32)
      OBVIOUS
    <3>2. Len(first) \in Nat /\ Len(first) = 2 * BlockSymbols
      BY <1>1, <3>1
    <3>3. DecodeCodedPhr(first) \in Words(16)
      BY <3>2, CodedHeaderIs
    <3> QED BY <1>1, <2>1, <3>1, <3>3 DEF HeaderHeard
  <2>2. CASE ~setup.coded
    <3>1. \A i \in 1 .. 16 : i \in 1 .. Len(air)
      BY <1>2
    <3>2. Len(SubSeq(air, 1, 16)) = 16 /\ \A i \in 1 .. 16 : SubSeq(air, 1, 16)[i] = air[i]
      OBVIOUS
    <3>3. \A i \in 1 .. 16 : air[i] \in Bit
      BY <1>2, <3>1, ElementOfSeq
    <3>4. SubSeq(air, 1, 16) \in Seq(Bit)
      BY <3>2, <3>3
    <3> QED BY <1>1, <2>2, <3>2, <3>4 DEF HeaderHeard, Words
  <2> QED BY <2>1, <2>2
<1>4. HeaderHeard \in [1 .. 16 -> Bit]
  <2>1. HeaderHeard \in Seq(Bit) /\ Len(HeaderHeard) = 16
    BY <1>3 DEF Words
  <2>2. HeaderHeard \in [1 .. Len(HeaderHeard) -> Bit]
    BY <2>1, LenProperties
  <2> QED BY <2>1, <2>2
<1>5. FrameLength(HeaderHeard) \in Nat
  <2>1. PICK p \in [1 .. 16 -> Bit] : p = HeaderHeard
    BY <1>4
  <2>2. \A k \in 1 .. 16 : p[k] \in Bit
    OBVIOUS
  <2>3. Agree(p, p, 15)
    BY DEF Agree
  <2>4. PICK h \in Nat : FrameLength(p) = 2 * h + p[16]
    BY <2>2, <2>3, LengthHalves
  <2>5. PICK b \in Bit : b = p[16]
    BY <2>2
  <2> QED BY <2>1, <2>4, <2>5 DEF Bit
<1> QED BY <1>1, <1>4, <1>5

\* What the correlator asks for is a whole number of blocks, or at least a header.
LEMMA PacketIs ==
  ASSUME NEW frameLength \in Nat
  PROVE  /\ 8 * PacketOctets(frameLength) \in Nat
         /\ 8 * PacketOctets(frameLength) >= PhrBits
         /\ (8 * PacketOctets(frameLength)) % 8 = 0
         /\ setup.coded => (8 * PacketOctets(frameLength)) % (2 * BlockSymbols) = 0
<1>1. CASE setup.coded
  <2>1. PICK c \in Nat : c = CodedLength(frameLength) /\ c >= 2
    <3>1. CodedLength(frameLength) \in Nat /\ CodedLength(frameLength) >= 2
      BY DEF CodedLength, PhrOctets
    <3> QED BY <3>1
  <2>2. c % 4 = 0
    BY <2>1, CodedLengthExact
  <2>3. 8 * c \in Nat /\ 8 * c >= 16 /\ (8 * c) % 8 = 0 /\ (8 * c) % 32 = 0
    BY <2>1, <2>2
  <2> QED BY <1>1, <2>1, <2>3 DEF PacketOctets, PhrBits, PhrOctets, BlockSymbols
<1>2. CASE ~setup.coded
  <2>1. PICK c \in Nat : c = 2 + frameLength /\ c >= 2
    OBVIOUS
  <2>2. 8 * c \in Nat /\ 8 * c >= 16 /\ (8 * c) % 8 = 0
    BY <2>1
  <2> QED BY <1>2, <2>1, <2>2 DEF PacketOctets, PhrBits, PhrOctets
<1> QED BY <1>1, <1>2

\* Reading the header keeps the invariant.
LEMMA AcquireInv == ReceptionInv /\ Acquire => ReceptionInv'
<1> SUFFICES ASSUME ReceptionInv, Acquire PROVE ReceptionInv'
  OBVIOUS
<1>1. /\ setup' = setup /\ air' = air /\ damaged' = damaged /\ published' = published
      /\ expected' = HeaderHeard /\ outcome = "on air"
  BY DEF Acquire
<1>2. expected' \in [1 .. PhrBits -> Bit] /\ FrameLength(expected') \in Nat
  BY <1>1, HeaderHeardIs DEF ReceptionInv
<1>3. PICK collected \in Nat :
        /\ collected = 8 * PacketOctets(FrameLength(expected')) /\ collected >= PhrBits
        /\ collected % 8 = 0 /\ (setup.coded => collected % (2 * BlockSymbols) = 0)
  BY <1>2, PacketIs
<1>4. AirAsSent' /\ DamageBounded'
  BY <1>1 DEF ReceptionInv, AirAsSent, DamageBounded
<1>5. \/ outcome' = "ignored" \/ outcome' = "collecting"
      \/ outcome' = "collected" /\ pdu' = SubSeq(air, 1, collected)
  BY <1>1, <1>3 DEF Acquire
<1>6. outcome' \in Outcomes /\ outcome' # "published"
  BY <1>5 DEF Outcomes, Final
<1>7. published' = {}
  BY <1>1 DEF ReceptionInv
<1>8. ASSUME outcome' = "collected" PROVE Collected'
  <2>1. pdu' = SubSeq(air, 1, collected)
    BY <1>5, <1>8
  <2>2. Len(pdu') = collected
    BY <2>1
  <2> QED BY <1>1, <1>3, <2>2 DEF Collected
<1> QED BY <1>2, <1>4, <1>6, <1>7, <1>8 DEF ReceptionInv

\* Neither a drop nor a publication touches the frame.
LEMMA VerdictInv ==
  ASSUME ReceptionInv, outcome = "collected",
         UNCHANGED <<setup, air, damaged, expected, pdu>>,
         \/ outcome' \in {"wrong FCS", "no frame", "does not fit"} /\ published' = published
         \/ outcome' = "published" /\ published' # {}
  PROVE  ReceptionInv'
<1>1. AirAsSent' /\ DamageBounded'
  BY DEF ReceptionInv, AirAsSent, DamageBounded
<1>2. outcome' \in Outcomes /\ outcome' # "collected"
  BY DEF Outcomes, Final
<1>3. published' # {} <=> outcome' = "published"
  BY DEF ReceptionInv
<1> QED BY <1>1, <1>2, <1>3 DEF ReceptionInv

\* So does the check of the FCS.
LEMMA CheckInv ==
  ASSUME ReceptionInv, outcome = "collected",
         NEW header, NEW psdu, NEW metric, CheckFcs(header, psdu, metric)
  PROVE  ReceptionInv'
<1>1. /\ UNCHANGED <<setup, air, damaged, expected, pdu>>
      /\ \/ outcome' = "wrong FCS" /\ published' = published
         \/ outcome' = "published" /\ published' # {}
  BY DEF CheckFcs, Drop
<1> QED BY <1>1, VerdictInv

\* What was collected is neither empty nor less than whole blocks.
LEMMA DecodeCodedInv == ReceptionInv /\ DecodeCoded => ReceptionInv'
<1> SUFFICES ASSUME ReceptionInv, DecodeCoded PROVE ReceptionInv'
  OBVIOUS
<1>1. outcome = "collected" /\ setup.coded
  BY DEF DecodeCoded
<1>2. pdu # <<>> /\ Len(pdu) % (2 * BlockSymbols) = 0
  BY <1>1 DEF ReceptionInv, Collected, PhrBits, PhrOctets
<1>3. \/ Drop("no frame") \/ Drop("does not fit")
      \/ \E header, psdu, metric : CheckFcs(header, psdu, metric)
  BY <1>2 DEF DecodeCoded
<1>4. ASSUME NEW reason \in {"no frame", "does not fit"}, Drop(reason) PROVE ReceptionInv'
  <2>1. /\ UNCHANGED <<setup, air, damaged, expected, pdu>>
        /\ outcome' \in {"wrong FCS", "no frame", "does not fit"} /\ published' = published
    BY <1>4 DEF Drop
  <2> QED BY <1>1, <2>1, VerdictInv
<1> QED BY <1>1, <1>3, <1>4, CheckInv

\* What was collected of an uncoded frame is not shorter than a header.
LEMMA CheckUncodedInv == ReceptionInv /\ CheckUncoded => ReceptionInv'
<1> SUFFICES ASSUME ReceptionInv, CheckUncoded PROVE ReceptionInv'
  OBVIOUS
<1>1. outcome = "collected"
  BY DEF CheckUncoded
<1>2. ~(Len(pdu) < PhrBits)
  BY <1>1 DEF ReceptionInv, Collected, PhrBits, PhrOctets
<1>3. \E header, psdu, metric : CheckFcs(header, psdu, metric)
  BY <1>2 DEF CheckUncoded
<1> QED BY <1>1, <1>3, CheckInv

\* Every step keeps the invariant.
LEMMA StepInv == ReceptionInv /\ [Next]_vars => ReceptionInv'
<1> SUFFICES ASSUME ReceptionInv, [Next]_vars PROVE ReceptionInv'
  OBVIOUS
<1>1. CASE UNCHANGED vars
  BY <1>1 DEF vars, ReceptionInv, AirAsSent, DamageBounded, Collected
<1> QED BY <1>1, DamageInv, AcquireInv, DecodeCodedInv, CheckUncodedInv DEF Next

\* The invariant always holds.
LEMMA ReceptionAlways == Spec => []ReceptionInv
  BY InitInv, StepInv, PTL DEF Spec

\* TypeOK: among its parts that what is collected is never too short for the
\* decoder nor a broken block (pdu_fec_decode_impl.cc:66-81), and that something is
\* published if and only if the frame ends so.
THEOREM ReceptionTypes == Spec => []TypeOK
  BY ReceptionAlways, InvGivesTypes, PTL

-----------------------------------------------------------------------------
(***************************************************************************)
(* What is corrected.                                                      *)
(***************************************************************************)
Correctable ==
  setup.coded /\ Cardinality(damaged) <= 2 /\ Cardinality(DamagedHeaderBits) <= 1

\* A coded frame as its receiver sees it: as many wrong bits as were damaged.
LEMMA CodedAir ==
  ASSUME AirAsSent, setup.coded
  PROVE  /\ Len(air) = 2 * SentBits(setup)
         /\ damaged \in SUBSET (1 .. 2 * SentBits(setup))
         /\ Flipped(air, Bits(Interleaved(Encoded(Sent(setup)))), damaged, 2 * SentBits(setup))
  BY AirIs, CodedOnAir DEF AirAsSent

\* So many bits of the code are wrong, and so many of the header's block.
LEMMA DamageInCode ==
  ASSUME AirAsSent, setup.coded
  PROVE  /\ Errors(Sent(setup), Deinterleaved(Symbols(air)), SentBits(setup))
              = Cardinality(damaged)
         /\ Cardinality(damaged) \in Nat
         /\ Errors(Sent(setup), Deinterleaved(Symbols(air)), BlockSymbols)
              <= Cardinality(DamagedHeaderBits)
         /\ Cardinality(DamagedHeaderBits) \in Nat
<1>1. PICK n \in Nat : n = SentBits(setup) /\ n % BlockSymbols = 0 /\ n >= 40
  BY SentBitsIs DEF AirAsSent
<1>2. PICK word \in Words(n) : word = Sent(setup)
  BY <1>1, SentIs DEF AirAsSent
<1>3. /\ Len(air) = 2 * n /\ damaged \in SUBSET (1 .. 2 * n)
      /\ Flipped(air, Bits(Interleaved(Encoded(word))), damaged, 2 * n)
  BY <1>1, <1>2, CodedAir
<1>4. /\ Errors(word, Deinterleaved(Symbols(air)), n) = Cardinality(damaged)
      /\ IsFiniteSet(damaged) /\ Cardinality(damaged) \in Nat
  BY <1>1, <1>3, DamageCounted
<1>5. n >= BlockSymbols
  BY <1>1 DEF BlockSymbols
<1>6. Errors(word, Deinterleaved(Symbols(air)), BlockSymbols)
        <= Cardinality({i \in damaged : i <= 2 * BlockSymbols})
  BY <1>1, <1>3, <1>5, HeaderDamage
<1>7. DamagedHeaderBits = {i \in damaged : i <= 2 * BlockSymbols}
  <2>1. PhrBits = BlockSymbols
    BY DEF PhrBits, PhrOctets, BlockSymbols
  <2> QED BY <2>1 DEF DamagedHeaderBits
<1>8. IsFiniteSet(DamagedHeaderBits)
  BY <1>4, FS_Subset DEF DamagedHeaderBits
<1> QED BY <1>1, <1>2, <1>4, <1>6, <1>7, <1>8, FS_CardinalityType

\* The header decoded on its own: all of it is right but perhaps the last bit,
\* so that as much is collected as was sent.
LEMMA HeaderRight ==
  ASSUME AirAsSent, Correctable
  PROVE  /\ FrameLength(HeaderHeard) \in Nat /\ FrameLength(HeaderHeard) # 0
         /\ 8 * PacketOctets(FrameLength(HeaderHeard)) = Len(air)
<1>1. setup \in Setups /\ setup.coded
  BY DEF AirAsSent, Correctable
<1>2. PICK n \in Nat : n = SentBits(setup) /\ n % BlockSymbols = 0 /\ n >= BlockSymbols
  BY <1>1, SentBitsIs DEF BlockSymbols
<1>3. Len(air) = 2 * n
  BY <1>1, <1>2, CodedAir
<1> DEFINE first == Deinterleaved(Symbols(SubSeq(air, 1, 2 * BlockSymbols)))
           whole == Deinterleaved(Symbols(air))
           header == Header(setup)
           sent == Sent(setup)
<1>4. Len(first) = BlockSymbols /\ \A i \in 1 .. BlockSymbols : first[i] = whole[i]
  BY <1>2, <1>3, FirstBlock
<1>5. Errors(sent, whole, BlockSymbols) <= 1 /\ BlockSymbols \in Nat
  <2>1. PICK b \in Nat : b = BlockSymbols
    BY DEF BlockSymbols
  <2>2. PICK d \in Nat : d = Cardinality(DamagedHeaderBits) /\ d <= 1
    BY <1>1, DamageInCode DEF Correctable
  <2>3. PICK e \in Nat : e = Errors(sent, whole, b)
    BY ErrorsStep
  <2>4. e <= d
    BY <1>1, <2>1, <2>2, <2>3, DamageInCode
  <2> QED BY <2>1, <2>2, <2>3, <2>4
<1>6. /\ header \in Seq(Bit) /\ Len(header) = 16 /\ FrameLength(header) = Octets(setup)
      /\ \A k \in 1 .. 16 : header[k] \in Bit
  BY <1>1, HeaderIs
<1>7. Agree(header, sent, BlockSymbols)
  BY <1>1, SentIs DEF Agree, BlockSymbols
<1>8. HeaderHeard = Decoded(first).bits
  BY <1>1 DEF HeaderHeard, DecodeCodedPhr, PhrBits, PhrOctets, BlockSymbols
<1> HIDE DEF first, whole, header, sent
<1>9. Errors(header, first, BlockSymbols) <= 1
  <2>1. Errors(header, first, BlockSymbols) = Errors(sent, first, BlockSymbols)
    BY <1>5, <1>7, PrefixErrors
  <2>2. Wrong(sent, first, BlockSymbols) = Wrong(sent, whole, BlockSymbols)
    BY <1>4 DEF Wrong
  <2> QED BY <1>5, <2>1, <2>2 DEF Errors
<1>10. PICK m \in Nat : m = BlockSymbols /\ m = 16 /\ m - 1 = 15
  BY DEF BlockSymbols
<1>11. Agree(HeaderHeard, header, 15) /\ HeaderHeard \in Words(16)
  <2>1. header \in Words(m) /\ Len(first) = m /\ Errors(header, first, m) <= 1
    BY <1>4, <1>6, <1>9, <1>10 DEF Words
  <2>2. Errors(header, first, m) \in Nat
    BY <2>1, ErrorsStep
  <2>3. Errors(header, first, m) <= 2
    BY <2>1, <2>2
  <2>4. Agree(Decoded(first).bits, header, m - 1)
    BY <2>1, <2>3, DecodedRight
  <2>5. Decoded(first).bits \in Words(m)
    BY <2>1, DecodedNearest
  <2> QED BY <1>8, <1>10, <2>4, <2>5
<1>12. PICK heard : heard = HeaderHeard /\ \A k \in 1 .. 16 : heard[k] \in Bit
  <2>1. PICK heard \in Seq(Bit) : heard = HeaderHeard /\ Len(heard) = 16
    BY <1>11 DEF Words
  <2>2. \A k \in 1 .. 16 : heard[k] \in Bit
    BY <2>1, ElementOfSeq
  <2> QED BY <2>1, <2>2
<1>13. Agree(header, heard, 15)
  BY <1>11, <1>12 DEF Agree
<1>14. FrameLength(header) >= 2
  BY <1>1, <1>6, PsduIs
<1>15. /\ FrameLength(heard) \in Nat /\ FrameLength(heard) # 0
       /\ CodedLength(FrameLength(header)) = CodedLength(FrameLength(heard))
  BY <1>6, <1>12, <1>13, <1>14, HeaderAlike
<1>16. PacketOctets(FrameLength(heard)) = CodedLength(Octets(setup))
  BY <1>1, <1>6, <1>15 DEF PacketOctets
<1>17. 8 * CodedLength(Octets(setup)) = 2 * n
  <2>1. PICK c \in Nat : c = CodedLength(Octets(setup))
    <3>1. PICK o \in Nat : o = Octets(setup)
      BY <1>1, PsduIs
    <3>2. CodedLength(o) \in Nat
      BY DEF CodedLength, PhrOctets
    <3> QED BY <3>1, <3>2
  <2>2. n = 4 * c
    BY <1>2, <2>1 DEF SentBits
  <2> QED BY <2>1, <2>2
<1> QED BY <1>3, <1>12, <1>15, <1>16, <1>17

\* Two sequences of the same length and elements.
LEMMA PartIs ==
  ASSUME NEW n \in Nat, NEW a \in Seq(Bit), Len(a) = n, NEW b, NEW k \in Nat,
         \A i \in 1 .. n : b[k + i] = a[i]
  PROVE  SubSeq(b, k + 1, k + n) = a
<1>1. \A j \in k + 1 .. k + n : b[j] \in Bit
  <2> SUFFICES ASSUME NEW j \in k + 1 .. k + n PROVE b[j] \in Bit
    OBVIOUS
  <2>1. PICK i \in 1 .. n : i = j - k /\ k + i = j
    OBVIOUS
  <2> QED BY <2>1, ElementOfSeq
<1>2. /\ SubSeq(b, k + 1, k + n) \in Seq(Bit)
      /\ Len(SubSeq(b, k + 1, k + n)) = IF k + 1 <= k + n THEN ((k + n) - (k + 1)) + 1 ELSE 0
      /\ \A i \in 1 .. ((k + n) - (k + 1)) + 1 :
           SubSeq(b, k + 1, k + n)[i] = b[((k + 1) + i) - 1]
  BY <1>1, SubSeqProperties
<1>3. ((k + n) - (k + 1)) + 1 = n /\ \A i \in 1 .. n : ((k + 1) + i) - 1 = k + i
  OBVIOUS
<1>4. Len(SubSeq(b, k + 1, k + n)) = n
  BY <1>2, <1>3
<1>5. \A i \in 1 .. n : SubSeq(b, k + 1, k + n)[i] = a[i]
  BY <1>2, <1>3
<1> QED BY <1>2, <1>4, <1>5, SeqEqual

\* The frame decoded as a whole is the one that was sent.
LEMMA FrameRight ==
  ASSUME AirAsSent, Correctable
  PROVE  LET decoded == Decoded(Deinterleaved(Symbols(air)))
             end == PhrBits + 8 * FrameLength(Header(setup))
         IN  /\ decoded.metric <= Cardinality(damaged)
             /\ Cardinality(damaged) = 1 => decoded.metric = 1
             /\ ~(decoded.metric > Len(Symbols(air)) \div MetricLimitDivisor)
             /\ SubSeq(decoded.bits, 1, PhrBits) = Header(setup)
             /\ ~(end > Len(decoded.bits))
             /\ SubSeq(decoded.bits, PhrBits + 1, end) = Psdu(setup)
<1>1. setup \in Setups /\ setup.coded
  BY DEF AirAsSent, Correctable
<1>2. PICK n \in Nat : n = SentBits(setup) /\ n >= 40
  BY <1>1, SentBitsIs
<1>3. PICK o \in Nat : o = Octets(setup)
  BY <1>1, PsduIs
<1>4. n - 5 >= 16 + 8 * o
  BY <1>1, <1>2, <1>3, SentBitsIs
<1>5. PICK symbols : symbols = Deinterleaved(Symbols(air)) /\ Len(symbols) = n
                     /\ Len(Symbols(air)) = n
  <2>1. Len(air) = 2 * n
    BY <1>1, <1>2, CodedAir
  <2>2. Len(Symbols(air)) = n
    BY <2>1, SymbolsAre
  <2>3. Deinterleaved(Symbols(air))
          = [i \in 1 .. n |-> Symbols(air)[BlockStart(i) + ReceivedAs(Place(i))]]
    BY <2>2 DEF Deinterleaved
  <2> QED BY <2>2, <2>3
<1>6. PICK sent \in Words(n) : sent = Sent(setup)
  BY <1>1, <1>2, SentIs
<1>7. PICK d \in Nat : d = Cardinality(damaged) /\ d <= 2 /\ Errors(sent, symbols, n) = d
  BY <1>1, <1>2, <1>5, <1>6, DamageInCode DEF Correctable
<1>8. PICK decoded : decoded = Decoded(symbols)
  OBVIOUS
<1>9. /\ decoded.metric <= d /\ Agree(decoded.bits, sent, n - 5)
      /\ d = 1 => decoded.metric = 1
  BY <1>5, <1>7, <1>8, DecodedRight
<1>10. decoded.metric \in Nat /\ decoded.bits \in Seq(Bit) /\ Len(decoded.bits) = n
  BY <1>5, <1>8, DecodedNearest DEF Words
<1>11. ~(decoded.metric > n \div MetricLimitDivisor)
  <2>1. n \div 8 >= 5
    BY <1>2
  <2> QED BY <1>7, <1>9, <1>10, <2>1 DEF MetricLimitDivisor
<1>12. PhrBits = 16 /\ FrameLength(Header(setup)) = o
  BY <1>1, <1>3, HeaderIs DEF PhrBits, PhrOctets
<1>13. ~(16 + 8 * o > n)
  BY <1>4
<1>14. SubSeq(decoded.bits, 1, 16) = Header(setup)
  <2>1. PICK k \in Nat : k = 0
    OBVIOUS
  <2>2. PICK m \in Nat : m = 16
    OBVIOUS
  <2>3. Header(setup) \in Seq(Bit) /\ Len(Header(setup)) = m
    BY <1>1, <2>2, HeaderIs
  <2>4. ASSUME NEW i \in 1 .. m PROVE decoded.bits[k + i] = Header(setup)[i]
    <3>1. i \in 1 .. 16 /\ i \in 1 .. n - 5 /\ k + i = i
      BY <1>2, <2>1, <2>2
    <3>2. sent[i] = Header(setup)[i]
      BY <1>1, <1>6, <3>1, SentIs
    <3> QED BY <1>9, <3>1, <3>2 DEF Agree
  <2>5. SubSeq(decoded.bits, k + 1, k + m) = Header(setup)
    BY <2>3, <2>4, PartIs
  <2>6. k + 1 = 1 /\ k + m = 16
    BY <2>1, <2>2
  <2> QED BY <2>5, <2>6
<1>15. SubSeq(decoded.bits, 16 + 1, 16 + 8 * o) = Psdu(setup)
  <2>1. PICK k \in Nat : k = 16
    OBVIOUS
  <2>2. PICK m \in Nat : m = 8 * o
    OBVIOUS
  <2>3. Psdu(setup) \in Seq(Bit) /\ Len(Psdu(setup)) = m
    BY <1>1, <1>3, <2>2, PsduIs
  <2>4. ASSUME NEW i \in 1 .. m PROVE decoded.bits[k + i] = Psdu(setup)[i]
    <3>1. k + i \in 1 .. n - 5
      BY <1>4, <2>1, <2>2
    <3>2. sent[16 + i] = Psdu(setup)[i]
      BY <1>1, <1>3, <1>6, <2>2, SentIs
    <3> QED BY <1>9, <2>1, <3>1, <3>2 DEF Agree
  <2>5. SubSeq(decoded.bits, k + 1, k + m) = Psdu(setup)
    BY <2>3, <2>4, PartIs
  <2>6. k + 1 = 16 + 1 /\ k + m = 16 + 8 * o
    BY <2>1, <2>2
  <2> QED BY <2>5, <2>6
<1> QED BY <1>5, <1>7, <1>8, <1>9, <1>10, <1>11, <1>12, <1>13, <1>14, <1>15

-----------------------------------------------------------------------------
PublishedRight ==
  \E p \in published :
    /\ p.header = Header(setup) /\ p.psdu = Psdu(setup) /\ p.valid
    /\ p.metric <= Cardinality(damaged)
    /\ Cardinality(damaged) = 1 => p.metric = 1

CorrectedInv ==
  Correctable =>
    /\ outcome \in {"on air", "collected", "published"}
    /\ outcome = "collected" => pdu = air
    /\ outcome = "published" => PublishedRight

\* Of a correctable frame all is collected.
LEMMA CollectedRight ==
  ASSUME ReceptionInv, CorrectedInv, Acquire
  PROVE  CorrectedInv'
<1> SUFFICES ASSUME Correctable' PROVE outcome' = "collected" /\ pdu' = air'
  BY DEF CorrectedInv
<1>1. setup' = setup /\ air' = air /\ damaged' = damaged /\ expected' = HeaderHeard
  BY DEF Acquire
<1>2. AirAsSent /\ Correctable
  BY <1>1 DEF ReceptionInv, Correctable, DamagedHeaderBits
<1>3. PICK n \in Nat : n = Len(air)
  BY <1>2, AirIs
<1>4. /\ FrameLength(expected') # 0
      /\ 8 * PacketOctets(FrameLength(expected')) = n
  BY <1>1, <1>2, <1>3, HeaderRight
<1>5. outcome' = "collected" /\ pdu' = SubSeq(air, 1, n)
  <2>1. PICK length : length = FrameLength(expected') /\ length # 0
    BY <1>4
  <2>2. PICK collected : collected = 8 * PacketOctets(length) /\ collected = n
    BY <1>4, <2>1
  <2>3. ~(collected > Len(air))
    BY <1>3, <2>2
  <2>4. outcome' = "collected" /\ pdu' = SubSeq(air, 1, collected)
    BY <2>1, <2>2, <2>3 DEF Acquire
  <2> QED BY <2>2, <2>4
<1>6. SubSeq(air, 1, n) = air
  BY <1>2, <1>3, AirIs
<1> QED BY <1>1, <1>5, <1>6

\* What was collected of it is published as it was sent.
LEMMA DecodedCorrected ==
  ASSUME ReceptionInv, CorrectedInv, DecodeCoded
  PROVE  CorrectedInv'
<1> SUFFICES ASSUME Correctable' PROVE outcome' = "published" /\ PublishedRight'
  BY DEF CorrectedInv
<1>1. setup' = setup /\ air' = air /\ damaged' = damaged
  BY DEF DecodeCoded, CheckFcs, Drop
<1>2. outcome = "collected" /\ AirAsSent /\ Correctable
  BY <1>1 DEF DecodeCoded, ReceptionInv, Correctable, DamagedHeaderBits
<1>3. pdu = air /\ pdu # <<>> /\ Len(pdu) % (2 * BlockSymbols) = 0
  BY <1>2 DEF CorrectedInv, Correctable, ReceptionInv, Collected, PhrBits, PhrOctets
<1> DEFINE decoded == Decoded(Deinterleaved(Symbols(air)))
           header == Header(setup)
           end == PhrBits + 8 * FrameLength(header)
<1>4. /\ decoded.metric <= Cardinality(damaged)
      /\ Cardinality(damaged) = 1 => decoded.metric = 1
      /\ ~(decoded.metric > Len(Symbols(air)) \div MetricLimitDivisor)
      /\ SubSeq(decoded.bits, 1, PhrBits) = header
      /\ ~(end > Len(decoded.bits))
      /\ SubSeq(decoded.bits, PhrBits + 1, end) = Psdu(setup)
  BY <1>2, FrameRight
<1>5. CheckFcs(header, Psdu(setup), decoded.metric)
  BY <1>3, <1>4 DEF DecodeCoded
<1>6. FcsValid(Psdu(setup), Fcs16(header))
  <2>1. setup \in Setups
    BY <1>2 DEF AirAsSent
  <2>2. FcsValid(Psdu(setup), setup.fcs16) /\ setup.fcs16 \in BOOLEAN
    BY <2>1, PsduIs
  <2>3. Fcs16(header) <=> setup.fcs16
    BY <2>1, HeaderIs
  <2>4. Fcs16(header) \in BOOLEAN
    BY DEF Fcs16
  <2> QED BY <2>2, <2>3, <2>4
<1> HIDE DEF decoded, header, end
<1>7. /\ outcome' = "published"
      /\ published' = {[header |-> header, psdu |-> Psdu(setup),
                        metric |-> decoded.metric, valid |-> TRUE]}
  BY <1>5, <1>6 DEF CheckFcs
<1>8. PICK p : /\ p = [header |-> header, psdu |-> Psdu(setup),
                       metric |-> decoded.metric, valid |-> TRUE]
               /\ p \in published'
  BY <1>7
<1>9. /\ p.header = header /\ p.psdu = Psdu(setup) /\ p.valid
      /\ p.metric = decoded.metric
  BY <1>8
<1>10. Header(setup') = header /\ Psdu(setup') = Psdu(setup)
  BY <1>1 DEF header
<1> QED BY <1>1, <1>4, <1>7, <1>8, <1>9, <1>10 DEF PublishedRight

\* Every step keeps a correctable frame on its way.
LEMMA StepCorrected == ReceptionInv /\ CorrectedInv /\ [Next]_vars => CorrectedInv'
<1> SUFFICES ASSUME ReceptionInv, CorrectedInv, [Next]_vars PROVE CorrectedInv'
  OBVIOUS
<1>1. CASE UNCHANGED vars
  BY <1>1 DEF vars, CorrectedInv, Correctable, DamagedHeaderBits, PublishedRight
<1>2. CASE Damage
  BY <1>2 DEF Damage, CorrectedInv
<1>3. CASE CheckUncoded
  BY <1>3 DEF CheckUncoded, CheckFcs, Drop, CorrectedInv, Correctable
<1> QED BY <1>1, <1>2, <1>3, CollectedRight, DecodedCorrected DEF Next

\* ErrorsCorrected: for every setup, payload and padding, a coded frame with one
\* bit damaged anywhere, or with two of which at most one is in the header, is
\* published as it was sent (pdu_fec_decode_impl.cc:61-200).
THEOREM ErrorsAlwaysCorrected == Spec => []ErrorsCorrected
<1>1. Init => CorrectedInv
  BY DEF Init, CorrectedInv
<1>2. CorrectedInv => ErrorsCorrected
  BY DEF CorrectedInv, Correctable, ErrorsCorrected, PublishedRight, Final
<1> QED BY <1>1, <1>2, StepCorrected, ReceptionAlways, PTL DEF Spec
================================================================================

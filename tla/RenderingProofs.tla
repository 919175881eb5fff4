-------------------------- MODULE RenderingProofs --------------------------
(***************************************************************************)
(* Proofs about the pure functions of DataPath: every payload that the     *)
(* models let through, and that rendering does not fail on, is rendered    *)
(* into what it asks for but for the part that is named here, and Day 0    *)
(* leaves a whole config.  The functions are recursive, so these are       *)
(* inductions over data: each is about the set of the numbers up to which  *)
(* the recursion does what it should, and a function that is chosen by its *)
(* recursive equation is first shown to exist.                             *)
(***************************************************************************)
EXTENDS DataPathInvariant, WellFoundedInduction, TLAPS

-----------------------------------------------------------------------------
(* Induction over the naturals, for a set of them.                         *)

LEMMA LeastNat ==
    ASSUME NEW T, T \subseteq Nat, T # {}
    PROVE  \E x \in T : \A y \in T : x <= y
<1> DEFINE less == {xy \in Nat \X Nat : xy[1] < xy[2]}
<1>1. OpToRel(<, Nat) = less
  BY DEF OpToRel
<1>2. \A x, y \in Nat : <<y, x>> \in less <=> y < x
  OBVIOUS
<1> HIDE DEF less
<1>3. IsWellFoundedOn(less, Nat)
  BY <1>1, NatLessThanWellFounded, Zenon
<1>4. PICK x \in T : \A y \in T : <<y, x>> \notin less
  BY <1>3, WFMin
<1>5. ASSUME NEW y \in T
      PROVE  x <= y
  <2>1. ~(y < x)
    BY <1>2, <1>4
  <2> QED
    BY <2>1
<1> QED
  BY <1>5

LEMMA NatSetInduction ==
    ASSUME NEW T, 0 \in T, \A n \in Nat : n \in T => n + 1 \in T
    PROVE  Nat \subseteq T
<1> DEFINE rest == Nat \ T
<1> SUFFICES ASSUME rest # {}
             PROVE  FALSE
  OBVIOUS
<1>1. PICK x \in rest : \A y \in rest : x <= y
  BY LeastNat
<1>2. x # 0 /\ x - 1 \in Nat
  BY <1>1
<1>3. x - 1 \in T
  BY <1>1, <1>2
<1> QED
  BY <1>1, <1>2, <1>3

-----------------------------------------------------------------------------
(* Masks.                                                                  *)

\* The value of an octet with the bits of s.
Value(s) ==
    (IF 0 \in s THEN 1 ELSE 0) + (IF 1 \in s THEN 2 ELSE 0)
    + (IF 2 \in s THEN 4 ELSE 0) + (IF 3 \in s THEN 8 ELSE 0)
    + (IF 4 \in s THEN 16 ELSE 0) + (IF 5 \in s THEN 32 ELSE 0)
    + (IF 6 \in s THEN 64 ELSE 0) + (IF 7 \in s THEN 128 ELSE 0)

\* Taking a bit away takes its power of 2 from the value.
LEMMA ValueLess ==
    ASSUME NEW s \in SUBSET (0..7), NEW b \in s
    PROVE  Value(s) = 2^b + Value(s \ {b}) /\ 2^b \in Nat \ {0}
<1>1. b \in {0, 1, 2, 3, 4, 5, 6, 7}
  OBVIOUS
<1>2. CASE b = 0
  <2>1. 2^0 = 1
    OBVIOUS
  <2> QED
    BY <1>2, <2>1 DEF Value
<1>3. CASE b = 1
  <2>1. 2^1 = 2
    OBVIOUS
  <2> QED
    BY <1>3, <2>1 DEF Value
<1>4. CASE b = 2
  <2>1. 2^2 = 4
    OBVIOUS
  <2> QED
    BY <1>4, <2>1 DEF Value
<1>5. CASE b = 3
  <2>1. 2^3 = 8
    OBVIOUS
  <2> QED
    BY <1>5, <2>1 DEF Value
<1>6. CASE b = 4
  <2>1. 2^4 = 16
    OBVIOUS
  <2> QED
    BY <1>6, <2>1 DEF Value
<1>7. CASE b = 5
  <2>1. 2^5 = 32
    OBVIOUS
  <2> QED
    BY <1>7, <2>1 DEF Value
<1>8. CASE b = 6
  <2>1. 2^6 = 64
    OBVIOUS
  <2> QED
    BY <1>8, <2>1 DEF Value
<1>9. CASE b = 7
  <2>1. 2^7 = 128
    OBVIOUS
  <2> QED
    BY <1>9, <2>1 DEF Value
<1> QED
  BY <1>1, <1>2, <1>3, <1>4, <1>5, <1>6, <1>7, <1>8, <1>9

LEMMA SumOfBits ==
    ASSUME NEW bits \in SUBSET (0..7)
    PROVE  MapThenSumSet(LAMBDA b : 2^b, bits) = Value(bits)
<1> DEFINE Pick(s) == CHOOSE b \in s : TRUE
           Step(f, s) == IF s = {} THEN 0 ELSE 2^Pick(s) + f[s \ {Pick(s)}]
           Sums(f) == f = [s \in SUBSET bits |-> Step(f, s)]
           sum == CHOOSE f : Sums(f)
<1>1. MapThenSumSet(LAMBDA b : 2^b, bits) = sum[bits]
  BY DEF MapThenSumSet, MapThenFoldSet
<1>2. ASSUME NEW f, NEW s \in SUBSET bits,
             s # {} => f[s \ {Pick(s)}] = Value(s \ {Pick(s)})
      PROVE  Step(f, s) = Value(s)
  <2>1. CASE s = {}
    BY <2>1 DEF Value
  <2>2. CASE s # {}
    <3>1. Pick(s) \in s
      BY <2>2
    <3> HIDE DEF Pick
    <3>2. Value(s) = 2^Pick(s) + Value(s \ {Pick(s)})
      BY <3>1, ValueLess
    <3> QED
      BY <1>2, <2>2, <3>2
  <2> QED
    BY <2>1, <2>2
<1>3. \A s \in SUBSET bits : s # {} => Pick(s) \in s
  OBVIOUS
<1> HIDE DEF Pick, Step
<1>4. Sums(sum)
  <2> DEFINE g == [s \in SUBSET bits |-> Value(s)]
  <2>1. ASSUME NEW s \in SUBSET bits
        PROVE  Step(g, s) = Value(s)
    BY <1>2
  <2>2. Sums(g)
    BY <2>1
  <2> HIDE DEF g
  <2> QED
    BY <2>2
<1> HIDE DEF sum
<1>5. \A n \in Nat : \A s \in SUBSET bits : Value(s) <= n => sum[s] = Value(s)
  <2> DEFINE T == {n \in Nat : \A s \in SUBSET bits :
                                  Value(s) <= n => sum[s] = Value(s)}
  <2>0. ASSUME NEW n \in Int, \A s \in SUBSET bits :
                                 Value(s) < n => sum[s] = Value(s),
               NEW s \in SUBSET bits, Value(s) <= n
        PROVE  sum[s] = Value(s)
    <3>1. CASE s = {}
      <4>1. Step(sum, s) = Value(s)
        BY <1>2, <3>1
      <4> QED
        BY <1>4, <4>1
    <3>2. CASE s # {}
      <4>1. Pick(s) \in s
        BY <1>3, <3>2
      <4>2. /\ Value(s) = 2^Pick(s) + Value(s \ {Pick(s)})
            /\ 2^Pick(s) \in Nat \ {0}
        BY <4>1, ValueLess
      <4>3. Value(s \ {Pick(s)}) \in Int
        BY DEF Value
      <4>4. Value(s \ {Pick(s)}) < n
        BY <2>0, <4>2, <4>3
      <4>5. sum[s \ {Pick(s)}] = Value(s \ {Pick(s)})
        BY <2>0, <4>4
      <4>6. Step(sum, s) = Value(s)
        BY <1>2, <4>5
      <4> QED
        BY <1>4, <4>6
    <3> QED
      BY <3>1, <3>2
  <2>1. 0 \in T
    <3>1. \A s \in SUBSET bits : ~(Value(s) < 0)
      BY DEF Value
    <3> QED
      BY <2>0, <3>1
  <2>2. ASSUME NEW n \in Nat, n \in T
        PROVE  n + 1 \in T
    <3>1. \A s \in SUBSET bits : Value(s) \in Int
      BY DEF Value
    <3>2. \A s \in SUBSET bits : Value(s) < n + 1 => sum[s] = Value(s)
      BY <2>2, <3>1
    <3> QED
      BY <2>0, <3>2
  <2> HIDE DEF T
  <2>3. Nat \subseteq T
    BY <2>1, <2>2, NatSetInduction
  <2> QED
    BY <2>3 DEF T
<1>6. Value(bits) \in Nat
  BY DEF Value
<1>7. sum[bits] = Value(bits)
  BY <1>5, <1>6
<1> QED
  BY <1>1, <1>7

\* The greater and the smaller of two numbers.
LEMMA MaxMin ==
    ASSUME NEW m \in Int, NEW n \in Int
    PROVE  /\ Max({m, n}) = IF m >= n THEN m ELSE n
           /\ Min({m, n}) = IF m <= n THEN m ELSE n
<1>1. \A x, y \in {m, n} :
         (\A z \in {m, n} : x >= z) /\ (\A z \in {m, n} : y >= z) => x = y
  OBVIOUS
<1>2. \A x, y \in {m, n} :
         (\A z \in {m, n} : x <= z) /\ (\A z \in {m, n} : y <= z) => x = y
  OBVIOUS
<1>3. Max({m, n}) = IF m >= n THEN m ELSE n
  BY <1>1 DEF Max
<1>4. Min({m, n}) = IF m <= n THEN m ELSE n
  BY <1>2 DEF Min
<1> QED
  BY <1>3, <1>4

\* The mask that the shifts of _cidr_to_mask yield is the one that is meant,
\* for every prefix length.
THEOREM MaskIsExact ==
    ASSUME NEW len \in 0..32
    PROVE  Mask(len) = MaskOf(len)
<1> SUFFICES ASSUME NEW k \in 1..4
             PROVE  Mask(len)[k] = MaskOf(len)[k]
  BY DEF Mask, MaskOf
<1> DEFINE bits == {b \in 0..7 : b >= 8 * k - len}
           ones == Max({0, Min({8, len - 8 * (k - 1)})})
<1>1. Mask(len)[k] = Value(bits)
  <2>1. {b \in 0..7 : b + (32 - 8 * k) \in Shifted(Word, 32 - len) \cap Word}
           = bits
    <3>1. ASSUME NEW b \in 0..7
          PROVE  b + (32 - 8 * k) \in Shifted(Word, 32 - len) \cap Word
                   <=> b >= 8 * k - len
      <4>1. b + (32 - 8 * k) \in Word
        BY DEF Word
      <4>2. b + (32 - 8 * k) \in Shifted(Word, 32 - len)
              <=> \E c \in 0..31 : b + (32 - 8 * k) = c + (32 - len)
        BY DEF Shifted, Word
      <4>3. ASSUME b >= 8 * k - len
            PROVE  \E c \in 0..31 : b + (32 - 8 * k) = c + (32 - len)
        <5>1. b + len - 8 * k \in 0..31
          BY <4>3
        <5>2. b + (32 - 8 * k) = (b + len - 8 * k) + (32 - len)
          OBVIOUS
        <5> QED
          BY <5>1, <5>2
      <4>4. ASSUME NEW c \in 0..31, b + (32 - 8 * k) = c + (32 - len)
            PROVE  b >= 8 * k - len
        BY <4>4
      <4> QED
        BY <4>1, <4>2, <4>3, <4>4
    <3> QED
      BY <3>1
  <2>2. Octet(Shifted(Word, 32 - len) \cap Word, 32 - 8 * k)
           = MapThenSumSet(LAMBDA b : 2^b, bits)
    BY <2>1 DEF Octet
  <2>3. bits \in SUBSET (0..7)
    OBVIOUS
  <2> HIDE DEF bits
  <2>4. MapThenSumSet(LAMBDA b : 2^b, bits) = Value(bits)
    BY <2>3, SumOfBits
  <2> QED
    BY <2>2, <2>4 DEF Mask
<1>2. ones = IF len - 8 * (k - 1) >= 8 THEN 8
             ELSE IF len - 8 * (k - 1) >= 0 THEN len - 8 * (k - 1) ELSE 0
  <2> DEFINE m == len - 8 * (k - 1)
             low == Min({8, m})
  <2>1. m \in Int
    OBVIOUS
  <2> HIDE DEF m
  <2>2. low = IF 8 <= m THEN 8 ELSE m
    BY <2>1, MaxMin
  <2>3. low \in Int
    BY <2>1, <2>2
  <2> HIDE DEF low
  <2>4. Max({0, low}) = IF 0 >= low THEN 0 ELSE low
    BY <2>3, MaxMin
  <2>5. Max({0, low}) = IF m >= 8 THEN 8 ELSE IF m >= 0 THEN m ELSE 0
    BY <2>1, <2>2, <2>4
  <2> QED
    BY <2>5 DEF low, m
<1>3. MaskOf(len)[k] = 256 - 2^(8 - ones)
  BY DEF MaskOf
<1>4. ones \in 0..8 /\ bits = {b \in 0..7 : b >= 8 - ones}
  <2> HIDE DEF ones
  <2>1. ones \in 0..8
    BY <1>2
  <2>2. ASSUME NEW b \in 0..7
        PROVE  b >= 8 * k - len <=> b >= 8 - ones
    BY <1>2
  <2> QED
    BY <2>1, <2>2
<1> HIDE DEF ones, bits
<1>5. ASSUME NEW e \in 0..8
      PROVE  Value({b \in 0..7 : b >= e}) = 256 - 2^e
  <2> DEFINE top == {b \in 0..7 : b >= e}
  <2>a. \A b \in 0..7 : b \in top <=> b >= e
    OBVIOUS
  <2> SUFFICES Value(top) = 256 - 2^e
    OBVIOUS
  <2> HIDE DEF top
  <2>1. CASE e = 0
    <3>1. 2^0 = 1
      OBVIOUS
    <3>2. Value(top) = 255
      BY <2>a, <2>1 DEF Value
    <3> QED
      BY <2>1, <3>1, <3>2
  <2>2. CASE e = 1
    <3>1. 2^1 = 2
      OBVIOUS
    <3>2. Value(top) = 254
      BY <2>a, <2>2 DEF Value
    <3> QED
      BY <2>2, <3>1, <3>2
  <2>3. CASE e = 2
    <3>1. 2^2 = 4
      OBVIOUS
    <3>2. Value(top) = 252
      BY <2>a, <2>3 DEF Value
    <3> QED
      BY <2>3, <3>1, <3>2
  <2>4. CASE e = 3
    <3>1. 2^3 = 8
      OBVIOUS
    <3>2. Value(top) = 248
      BY <2>a, <2>4 DEF Value
    <3> QED
      BY <2>4, <3>1, <3>2
  <2>5. CASE e = 4
    <3>1. 2^4 = 16
      OBVIOUS
    <3>2. Value(top) = 240
      BY <2>a, <2>5 DEF Value
    <3> QED
      BY <2>5, <3>1, <3>2
  <2>6. CASE e = 5
    <3>1. 2^5 = 32
      OBVIOUS
    <3>2. Value(top) = 224
      BY <2>a, <2>6 DEF Value
    <3> QED
      BY <2>6, <3>1, <3>2
  <2>7. CASE e = 6
    <3>1. 2^6 = 64
      OBVIOUS
    <3>2. Value(top) = 192
      BY <2>a, <2>7 DEF Value
    <3> QED
      BY <2>7, <3>1, <3>2
  <2>8. CASE e = 7
    <3>1. 2^7 = 128
      OBVIOUS
    <3>2. Value(top) = 128
      BY <2>a, <2>8 DEF Value
    <3> QED
      BY <2>8, <3>1, <3>2
  <2>9. CASE e = 8
    <3>1. 2^8 = 256
      OBVIOUS
    <3>2. Value(top) = 0
      BY <2>a, <2>9 DEF Value
    <3> QED
      BY <2>9, <3>1, <3>2
  <2>b. e \in {0, 1, 2, 3, 4, 5, 6, 7, 8}
    OBVIOUS
  <2> QED
    BY <2>b, <2>1, <2>2, <2>3, <2>4, <2>5, <2>6, <2>7, <2>8, <2>9
<1>6. 8 - ones \in 0..8
  BY <1>4
<1> QED
  BY <1>1, <1>3, <1>4, <1>5, <1>6


-----------------------------------------------------------------------------
(* Sequences.                                                              *)

LEMMA ConcatElements ==
    ASSUME NEW S, NEW s \in Seq(S), NEW t \in Seq(S)
    PROVE  s \o t \in Seq(S) /\ ToSet(s \o t) = ToSet(s) \cup ToSet(t)
<1>1. s \o t \in Seq(S)
  OBVIOUS
<1>2. ToSet(s \o t) \subseteq ToSet(s) \cup ToSet(t)
  BY DEF ToSet
<1>3. ToSet(s) \subseteq ToSet(s \o t)
  BY DEF ToSet
<1>4. ASSUME NEW j \in 1..Len(t)
      PROVE  t[j] \in ToSet(s \o t)
  <2>1. /\ Len(s) + j \in DOMAIN (s \o t)
        /\ (s \o t)[Len(s) + j] = t[j]
    OBVIOUS
  <2> QED
    BY <2>1 DEF ToSet
<1>5. ToSet(t) \subseteq ToSet(s \o t)
  BY <1>4 DEF ToSet
<1> QED
  BY <1>1, <1>2, <1>3, <1>5

LEMMA AppendElements ==
    ASSUME NEW S, NEW s \in Seq(S), NEW e \in S
    PROVE  /\ Append(s, e) \in Seq(S)
           /\ ToSet(Append(s, e)) = ToSet(s) \cup {e}
<1>1. DOMAIN Append(s, e) = 1..(Len(s) + 1)
  OBVIOUS
<1>2. \A j \in 1..Len(s) : Append(s, e)[j] = s[j]
  OBVIOUS
<1>3. Append(s, e)[Len(s) + 1] = e
  OBVIOUS
<1>4. ToSet(s) \cup {e} \subseteq ToSet(Append(s, e))
  BY <1>1, <1>2, <1>3 DEF ToSet
<1>5. ToSet(Append(s, e)) \subseteq ToSet(s) \cup {e}
  BY <1>1, <1>2, <1>3 DEF ToSet
<1> QED
  BY <1>4, <1>5

\* What sequences yield when they are put one after the other.
LEMMA FlattenElements ==
    ASSUME NEW S, NEW seqs \in Seq(Seq(S))
    PROVE  /\ FlattenSeq(seqs) \in Seq(S)
           /\ ToSet(FlattenSeq(seqs))
                = UNION {ToSet(seqs[k]) : k \in DOMAIN seqs}
<1>1. CASE seqs = <<>>
  <2>1. FlattenSeq(seqs) = <<>>
    BY <1>1 DEF FlattenSeq
  <2>2. ToSet(<<>>) = {}
    BY DEF ToSet
  <2>3. UNION {ToSet(seqs[k]) : k \in DOMAIN seqs} = {}
    BY <1>1
  <2> QED
    BY <2>1, <2>2, <2>3
<1>2. CASE seqs # <<>>
  <2>0. Len(seqs) \in Nat \ {0} /\ DOMAIN seqs = 1..Len(seqs)
    BY <1>2
  <2> DEFINE Step(f, i) == IF i = 1 THEN seqs[i] ELSE f[i - 1] \o seqs[i]
             Flattens(f, n) == f = [i \in 1..n |-> Step(f, i)]
             flatten == CHOOSE f : Flattens(f, Len(seqs))
  <2>1. FlattenSeq(seqs) = flatten[Len(seqs)]
    <3>1. Len(seqs) # 0
      BY <1>2
    <3> QED
      BY <3>1 DEF FlattenSeq
  <2>2. \A f, g, i : i = 1 \/ f[i - 1] = g[i - 1] => Step(f, i) = Step(g, i)
    OBVIOUS
  <2>3. \A f, i : /\ i = 1 => Step(f, i) = seqs[i]
                  /\ i # 1 => Step(f, i) = f[i - 1] \o seqs[i]
    OBVIOUS
  <2> HIDE DEF Step
  <2>4. \E f : Flattens(f, Len(seqs))
    <3> DEFINE T == {n \in Nat : \E f : Flattens(f, n)}
    <3>1. 0 \in T
      <4>1. Flattens([i \in 1..0 |-> 0], 0)
        OBVIOUS
      <4> QED
        BY <4>1
    <3>2. ASSUME NEW n \in Nat, n \in T
          PROVE  n + 1 \in T
      <4>1. PICK f : Flattens(f, n)
        BY <3>2
      <4> DEFINE g == [i \in 1..(n + 1) |-> Step(f, i)]
      <4>2. \A i \in 1..n : g[i] = f[i]
        BY <4>1
      <4>3. ASSUME NEW i \in 1..(n + 1)
            PROVE  Step(f, i) = Step(g, i)
        <5>1. i = 1 \/ i - 1 \in 1..n
          OBVIOUS
        <5>2. i = 1 \/ f[i - 1] = g[i - 1]
          BY <4>2, <5>1
        <5> HIDE DEF g
        <5> QED
          BY <2>2, <5>2
      <4>4. Flattens(g, n + 1)
        BY <4>3
      <4> HIDE DEF g, Flattens
      <4> QED
        BY <4>4
    <3> HIDE DEF T
    <3>3. Nat \subseteq T
      BY <3>1, <3>2, NatSetInduction
    <3>4. Len(seqs) \in T
      BY <3>3
    <3> QED
      BY <3>4 DEF T
  <2>5. Flattens(flatten, Len(seqs))
    BY <2>4
  <2> HIDE DEF flatten
  <2>a. \A i \in 1..Len(seqs) : flatten[i] = Step(flatten, i)
    BY <2>5
  <2>b. \A i \in 1..Len(seqs) : seqs[i] \in Seq(S)
    BY <2>0
  <2> DEFINE Yields(n) ==
        /\ flatten[n] \in Seq(S)
        /\ \A x : x \in ToSet(flatten[n])
                  <=> \E k \in 1..n : x \in ToSet(seqs[k])
  <2>6. Yields(1)
    <3>1. 1 \in 1..Len(seqs)
      BY <2>0
    <3>2. flatten[1] = Step(flatten, 1)
      BY <2>a, <3>1
    <3>3. Step(flatten, 1) = seqs[1]
      BY <2>3
    <3>4. seqs[1] \in Seq(S)
      BY <2>b, <3>1
    <3>5. flatten[1] = seqs[1]
      BY <3>2, <3>3
    <3>6. \A k : k \in 1..1 <=> k = 1
      OBVIOUS
    <3> QED
      BY <3>4, <3>5, <3>6
  <2>7. ASSUME NEW n \in Nat \ {0}, n + 1 <= Len(seqs), Yields(n)
        PROVE  Yields(n + 1)
    <3>0. n + 1 \in 1..Len(seqs) /\ n + 1 # 1 /\ (n + 1) - 1 = n
      <4> HIDE DEF Yields
      <4> QED
        BY <2>0, <2>7
    <3>1. flatten[n + 1] = Step(flatten, n + 1)
      BY <2>a, <3>0
    <3>2. Step(flatten, n + 1) = flatten[(n + 1) - 1] \o seqs[n + 1]
      BY <2>3, <3>0
    <3>3. flatten[n + 1] = flatten[n] \o seqs[n + 1]
      BY <3>0, <3>1, <3>2
    <3>4. seqs[n + 1] \in Seq(S)
      BY <2>b, <3>0
    <3>5. /\ flatten[n + 1] \in Seq(S)
          /\ ToSet(flatten[n + 1])
                = ToSet(flatten[n]) \cup ToSet(seqs[n + 1])
      BY <2>7, <3>3, <3>4, ConcatElements
    <3>6. \A k : k \in 1..(n + 1) <=> k \in 1..n \/ k = n + 1
      BY <3>0
    <3> QED
      BY <2>7, <3>5, <3>6
  <2>8. Yields(Len(seqs))
    <3> DEFINE T == {n \in Nat : n + 1 <= Len(seqs) => Yields(n + 1)}
    <3> HIDE DEF Yields
    <3>1. 0 \in T
      BY <2>6
    <3>2. ASSUME NEW n \in Nat, n \in T
          PROVE  n + 1 \in T
      BY <2>7, <3>2
    <3> HIDE DEF T
    <3>3. Nat \subseteq T
      BY <3>1, <3>2, NatSetInduction
    <3>4. Len(seqs) - 1 \in T
      BY <2>0, <3>3
    <3>5. (Len(seqs) - 1) + 1 = Len(seqs)
      BY <2>0
    <3> QED
      BY <2>0, <3>4, <3>5 DEF T
  <2> HIDE DEF flatten
  <2>9. ToSet(flatten[Len(seqs)]) = UNION {ToSet(seqs[k]) : k \in DOMAIN seqs}
    BY <2>0, <2>8
  <2> QED
    BY <2>1, <2>8, <2>9
<1> QED
  BY <1>1, <1>2


-----------------------------------------------------------------------------
(* Folds from the left, which take the greatest index of a set last.       *)

LEMMA GreatestIndex ==
    ASSUME NEW n \in Nat
    PROVE  /\ \A s \in SUBSET (1..(n + 1)) : s \ {Max(s)} \in SUBSET (1..n)
           /\ 1..(n + 1) \ {Max(1..(n + 1))} = 1..n
           /\ Max(1..(n + 1)) = n + 1
<1>1. ASSUME NEW s \in SUBSET (1..(n + 1)), n + 1 \in s
      PROVE  Max(s) = n + 1
  <2>1. \A y \in s : n + 1 >= y
    OBVIOUS
  <2>2. \A x \in s : (\A y \in s : x >= y) => x = n + 1
    BY <1>1
  <2> QED
    BY <1>1, <2>1, <2>2 DEF Max
<1>2. ASSUME NEW s \in SUBSET (1..(n + 1))
      PROVE  s \ {Max(s)} \in SUBSET (1..n)
  <2>1. CASE n + 1 \in s
    <3>1. Max(s) = n + 1
      BY <1>1, <2>1
    <3> QED
      BY <3>1
  <2>2. CASE n + 1 \notin s
    <3>1. ASSUME NEW x \in s
          PROVE  x \in 1..n
      <4>1. x \in 1..(n + 1) /\ x # n + 1
        BY <2>2
      <4> QED
        BY <4>1
    <3> QED
      BY <3>1
  <2> QED
    BY <2>1, <2>2
<1>3. Max(1..(n + 1)) = n + 1
  <2>1. 1..(n + 1) \in SUBSET (1..(n + 1)) /\ n + 1 \in 1..(n + 1)
    OBVIOUS
  <2> QED
    BY <1>1, <2>1
<1>4. 1..(n + 1) \ {n + 1} = 1..n
  OBVIOUS
<1> QED
  BY <1>2, <1>3, <1>4

\* The VLANs are kept one by one, in the order in which they are tagged.
LEMMA KeptOneByOne ==
    ASSUME NEW S, NEW all \in Seq(S)
    PROVE  \E kept :
              /\ kept[0] = <<>>
              /\ \A k \in 1..Len(all) :
                    kept[k] = FirstSight(kept[k - 1], all[k])
              /\ FoldLeft(FirstSight, <<>>, all) = kept[Len(all)]
<1> DEFINE Step(f, s) == IF s = {} THEN <<>>
                         ELSE FirstSight(f[s \ {Max(s)}], all[Max(s)])
           Folds(f, n) == f = [s \in SUBSET (1..n) |-> Step(f, s)]
           fold == CHOOSE f : Folds(f, Len(all))
<1>0. Len(all) \in Nat /\ DOMAIN all = 1..Len(all)
  OBVIOUS
<1>1. FoldLeft(FirstSight, <<>>, all) = fold[1..Len(all)]
  BY <1>0 DEF FoldLeft, MapThenFoldSet
<1>2. \A f, g, s :
         s = {} \/ f[s \ {Max(s)}] = g[s \ {Max(s)}] => Step(f, s) = Step(g, s)
  OBVIOUS
<1>3. \A f, s : /\ s = {} => Step(f, s) = <<>>
                /\ s # {} => Step(f, s)
                               = FirstSight(f[s \ {Max(s)}], all[Max(s)])
  OBVIOUS
<1> HIDE DEF Step
<1>4. \E f : Folds(f, Len(all))
  <2> DEFINE T == {n \in Nat : \E f : Folds(f, n)}
  <2>1. 0 \in T
    <3> DEFINE f == [s \in SUBSET (1..0) |-> <<>>]
    <3>1. \A s \in SUBSET (1..0) : s = {}
      OBVIOUS
    <3>2. \A s \in SUBSET (1..0) : Step(f, s) = <<>>
      BY <1>3, <3>1
    <3>3. Folds(f, 0)
      BY <3>2
    <3> HIDE DEF f, Folds
    <3> QED
      BY <3>3
  <2>2. ASSUME NEW n \in Nat, n \in T
        PROVE  n + 1 \in T
    <3>1. PICK f : Folds(f, n)
      BY <2>2
    <3> DEFINE g == [s \in SUBSET (1..(n + 1)) |-> Step(f, s)]
    <3>2. \A s \in SUBSET (1..n) : g[s] = f[s]
      <4>1. SUBSET (1..n) \subseteq SUBSET (1..(n + 1))
        OBVIOUS
      <4> QED
        BY <3>1, <4>1
    <3>3. ASSUME NEW s \in SUBSET (1..(n + 1))
          PROVE  Step(f, s) = Step(g, s)
      <4>1. s \ {Max(s)} \in SUBSET (1..n)
        BY GreatestIndex
      <4>2. f[s \ {Max(s)}] = g[s \ {Max(s)}]
        BY <3>2, <4>1
      <4> HIDE DEF g
      <4> QED
        BY <1>2, <4>2
    <3>4. Folds(g, n + 1)
      BY <3>3
    <3> HIDE DEF g, Folds
    <3> QED
      BY <3>4
  <2> HIDE DEF T
  <2>3. Nat \subseteq T
    BY <2>1, <2>2, NatSetInduction
  <2>4. Len(all) \in T
    BY <1>0, <2>3
  <2> QED
    BY <2>4 DEF T
<1>5. Folds(fold, Len(all))
  BY <1>4
<1> HIDE DEF fold
<1> DEFINE kept == [k \in 0..Len(all) |-> fold[1..k]]
<1>6. kept[0] = <<>>
  <2>1. 1..0 = {} /\ 1..0 \in SUBSET (1..Len(all))
    OBVIOUS
  <2>2. fold[1..0] = Step(fold, 1..0)
    BY <1>5, <2>1
  <2>3. Step(fold, 1..0) = <<>>
    BY <1>3, <2>1
  <2> QED
    BY <1>0, <2>2, <2>3
<1>7. ASSUME NEW k \in 1..Len(all)
      PROVE  kept[k] = FirstSight(kept[k - 1], all[k])
  <2>0. k - 1 \in Nat /\ (k - 1) + 1 = k
    BY <1>0
  <2>1. 1..k \in SUBSET (1..Len(all)) /\ 1..k # {}
    <3>1. 1 \in 1..k /\ \A j \in 1..k : j \in 1..Len(all)
      BY <1>0
    <3> QED
      BY <3>1
  <2>2. 1..k \ {Max(1..k)} = 1..(k - 1) /\ Max(1..k) = k
    BY <2>0, GreatestIndex
  <2>3. fold[1..k] = Step(fold, 1..k)
    BY <1>5, <2>1
  <2>4. Step(fold, 1..k) = FirstSight(fold[1..(k - 1)], all[k])
    BY <1>3, <2>1, <2>2
  <2>5. kept[k] = fold[1..k] /\ kept[k - 1] = fold[1..(k - 1)]
    BY <1>0, <2>0
  <2> QED
    BY <2>3, <2>4, <2>5
<1>8. kept[Len(all)] = fold[1..Len(all)]
  BY <1>0
<1> HIDE DEF kept
<1> QED
  BY <1>1, <1>6, <1>7, <1>8

\* Tagged VLAN m is the first one with its id.
IsFirst(all, m) == \A l \in 1..(m - 1) : all[l].vid # all[m].vid

\* What the fold keeps of the VLANs: the first one of each id.
LEMMA FirstsAreKept ==
    ASSUME NEW S, NEW all \in Seq(S)
    PROVE  LET kept == FoldLeft(FirstSight, <<>>, all)
           IN  /\ kept \in Seq(S)
               /\ \A j \in DOMAIN kept : \E m \in DOMAIN all :
                     kept[j] = all[m] /\ IsFirst(all, m)
               /\ \A m \in DOMAIN all : \E j \in DOMAIN kept :
                     kept[j].vid = all[m].vid
<1>0. Len(all) \in Nat /\ DOMAIN all = 1..Len(all)
  OBVIOUS
<1>1. PICK kept :
         /\ kept[0] = <<>>
         /\ \A k \in 1..Len(all) : kept[k] = FirstSight(kept[k - 1], all[k])
         /\ FoldLeft(FirstSight, <<>>, all) = kept[Len(all)]
  BY KeptOneByOne
<1> DEFINE Keeps(k) ==
        /\ kept[k] \in Seq(S)
        /\ \A j \in 1..Len(kept[k]) : \E m \in 1..k :
              kept[k][j] = all[m] /\ IsFirst(all, m)
        /\ \A m \in 1..k : \E j \in 1..Len(kept[k]) :
              kept[k][j].vid = all[m].vid
<1>2. Keeps(0)
  BY <1>1
<1>3. ASSUME NEW n \in Nat, n + 1 <= Len(all), Keeps(n)
      PROVE  Keeps(n + 1)
  <2> DEFINE now == kept[n]
             vlan == all[n + 1]
             next == kept[n + 1]
  <2>1. /\ now \in Seq(S)
        /\ \A j \in 1..Len(now) : \E m \in 1..n :
              now[j] = all[m] /\ IsFirst(all, m)
        /\ \A m \in 1..n : \E j \in 1..Len(now) : now[j].vid = all[m].vid
    BY <1>3
  <2>2. n + 1 \in 1..Len(all) /\ (n + 1) - 1 = n
    BY <1>0, <1>3
  <2>3. next = FirstSight(now, vlan)
    BY <1>1, <2>2
  <2>4. vlan \in S
    BY <2>2
  <2>5. \A m : m \in 1..(n + 1) <=> m \in 1..n \/ m = n + 1
    BY <2>2
  <2>6. DOMAIN now = 1..Len(now)
    BY <2>1
  <2> HIDE DEF Keeps
  <2>7. /\ next \in Seq(S)
        /\ \A j \in 1..Len(next) : \E m \in 1..(n + 1) :
              next[j] = all[m] /\ IsFirst(all, m)
        /\ \A m \in 1..(n + 1) : \E j \in 1..Len(next) :
              next[j].vid = all[m].vid
    <3>1. CASE \E j \in DOMAIN now : now[j].vid = vlan.vid
      <4>1. next = now
        BY <2>3, <3>1 DEF FirstSight
      <4> HIDE DEF next, now
      <4> QED
        BY <2>1, <2>5, <2>6, <3>1, <4>1
    <3>2. CASE ~\E j \in DOMAIN now : now[j].vid = vlan.vid
      <4>1. next = Append(now, vlan)
        BY <2>3, <3>2 DEF FirstSight
      <4>2. IsFirst(all, n + 1)
        BY <2>1, <2>2, <2>6, <3>2 DEF IsFirst
      <4> HIDE DEF next, now
      <4>3. next \in Seq(S) /\ Len(next) = Len(now) + 1
        BY <2>1, <2>4, <4>1
      <4>4. /\ \A j \in 1..Len(now) : next[j] = now[j]
            /\ next[Len(now) + 1] = all[n + 1]
        BY <2>1, <2>4, <4>1
      <4>5. \A j : j \in 1..Len(next) <=> j \in 1..Len(now) \/ j = Len(now) + 1
        BY <2>1, <4>3
      <4>6. \A j \in 1..Len(next) : \E m \in 1..(n + 1) :
               next[j] = all[m] /\ IsFirst(all, m)
        BY <2>1, <2>5, <4>2, <4>4, <4>5
      <4>7. \A m \in 1..(n + 1) : \E j \in 1..Len(next) :
               next[j].vid = all[m].vid
        BY <2>1, <2>5, <4>4, <4>5
      <4> QED
        BY <4>3, <4>6, <4>7
    <3> QED
      BY <3>1, <3>2
  <2> QED
    BY <2>7 DEF Keeps
<1>4. Keeps(Len(all))
  <2> DEFINE T == {n \in Nat : n <= Len(all) => Keeps(n)}
  <2> HIDE DEF Keeps
  <2>1. 0 \in T
    BY <1>2
  <2>2. ASSUME NEW n \in Nat, n \in T
        PROVE  n + 1 \in T
    BY <1>0, <1>3, <2>2
  <2> HIDE DEF T
  <2>3. Nat \subseteq T
    BY <2>1, <2>2, NatSetInduction
  <2>4. Len(all) \in T
    BY <1>0, <2>3
  <2> QED
    BY <1>0, <2>4 DEF T
<1>5. DOMAIN kept[Len(all)] = 1..Len(kept[Len(all)])
  BY <1>4
<1> QED
  BY <1>0, <1>1, <1>4, <1>5

\* The tagged VLANs of a payload are a sequence of those of its interfaces.
LEMMA TaggedIsSequence ==
    ASSUME NEW p \in Payloads
    PROVE  Tagged(p) \in Seq(ToSet(Tagged(p)))
<1> DEFINE S == UNION {ToSet(i.vlans) : i \in ToSet(p.interfaces)}
           seqs == [k \in DOMAIN p.interfaces |-> p.interfaces[k].vlans]
<1>1. /\ p.interfaces \in Seq(ToSet(p.interfaces))
      /\ \A i \in ToSet(p.interfaces) : i.vlans \in Seq(ToSet(i.vlans))
  BY DataPathAssumption
<1>2. ASSUME NEW i \in ToSet(p.interfaces)
      PROVE  i.vlans \in Seq(S)
  <2>1. ToSet(i.vlans) \subseteq S
    OBVIOUS
  <2> HIDE DEF S
  <2> QED
    BY <1>1, <2>1
<1> HIDE DEF S
<1>3. seqs \in Seq(Seq(S))
  <2>1. \A k \in DOMAIN p.interfaces : p.interfaces[k] \in ToSet(p.interfaces)
    BY DEF ToSet
  <2>2. \A k \in DOMAIN p.interfaces : p.interfaces[k].vlans \in Seq(S)
    BY <1>2, <2>1
  <2>3. DOMAIN p.interfaces = 1..Len(p.interfaces) /\ Len(p.interfaces) \in Nat
    BY <1>1
  <2> QED
    BY <2>2, <2>3
<1> HIDE DEF seqs
<1>4. Tagged(p) = FlattenSeq(seqs)
  BY DEF Tagged, seqs
<1>5. Tagged(p) \in Seq(S)
  BY <1>3, <1>4, FlattenElements
<1> QED
  BY <1>5 DEF ToSet


-----------------------------------------------------------------------------
(* Rendering.                                                              *)

LEMMA NameOfFirst ==
    ASSUME NEW p \in Payloads, NEW m \in DOMAIN Tagged(p),
           IsFirst(Tagged(p), m)
    PROVE  NameOf(p, Tagged(p)[m].vid) = Tagged(p)[m].name
<1> DEFINE all == Tagged(p)
           same == {k \in DOMAIN all : all[k].vid = all[m].vid}
<1>1. DOMAIN all = 1..Len(all) /\ Len(all) \in Nat
  BY TaggedIsSequence
<1>2. ASSUME NEW k \in same
      PROVE  m <= k
  <2>1. m \in Nat /\ k \in Nat /\ k >= 1
    BY <1>1
  <2>2. k \notin 1..(m - 1)
    BY DEF IsFirst
  <2> QED
    BY <2>1, <2>2
<1>3. m \in same
  OBVIOUS
<1>4. same \subseteq Nat
  BY <1>1
<1>5. Min(same) = m
  <2> HIDE DEF same
  <2>1. \A k \in same : (\A y \in same : k <= y) => k = m
    BY <1>2, <1>3, <1>4
  <2> QED
    BY <1>2, <1>3, <2>1 DEF Min
<1> QED
  BY <1>5 DEF NameOf

\* A sequence of one line, and of two.
LEMMA OneLine ==
    ASSUME NEW S, NEW x \in S
    PROVE  /\ <<x>> \in Seq(S) /\ <<x>> \in Seq({x})
           /\ ToSet(<<x>>) = {x}
BY DEF ToSet

LEMMA TwoLines ==
    ASSUME NEW S, NEW x \in S, NEW y \in S
    PROVE  <<x, y>> \in Seq(S) /\ ToSet(<<x, y>>) = {x, y}
BY DEF ToSet

\* The lines of the VLANs name each tagged id once, as it is named first.
LEMMA VlanLinesExact ==
    ASSUME NEW p \in Payloads
    PROVE  /\ VlanLines(Parse(p)) \in Seq(ToSet(VlanLines(Parse(p))))
           /\ ToSet(VlanLines(Parse(p)))
                = {[do |-> "vlan", at |-> v.vid, to |-> v.vid] :
                      v \in ToSet(Tagged(p))}
                  \cup {[do |-> "name", at |-> v.vid, to |-> NameOf(p, v.vid)] :
                           v \in ToSet(Tagged(p))}
<1> DEFINE all == Tagged(p)
           kept == Vlans(p)
           MadeOf(v) == [do |-> "vlan", at |-> v.vid, to |-> v.vid]
           NamedOf(v) == [do |-> "name", at |-> v.vid, to |-> NameOf(p, v.vid)]
           seqs == [k \in DOMAIN kept |-> <<MadeOf(kept[k]), NamedOf(kept[k])>>]
           S == {MadeOf(v) : v \in ToSet(all)}
                \cup {NamedOf(v) : v \in ToSet(all)}
<1>1. /\ kept \in Seq(ToSet(all))
      /\ \A j \in DOMAIN kept : \E m \in DOMAIN all :
            kept[j] = all[m] /\ IsFirst(all, m)
      /\ \A m \in DOMAIN all : \E j \in DOMAIN kept :
            kept[j].vid = all[m].vid
  BY TaggedIsSequence, FirstsAreKept DEF Vlans
<1>2. Parse(p).vlans = kept
  BY DEF Parse
<1> HIDE DEF all, kept
<1>3. ASSUME NEW j \in DOMAIN kept
      PROVE  /\ kept[j].name = NameOf(p, kept[j].vid)
             /\ kept[j] \in ToSet(all)
  <2>1. PICK m \in DOMAIN all : kept[j] = all[m] /\ IsFirst(all, m)
    BY <1>1
  <2>2. NameOf(p, kept[j].vid) = kept[j].name
    BY <2>1, NameOfFirst DEF all
  <2> QED
    BY <2>1, <2>2 DEF ToSet
<1>4. VlanLines(Parse(p)) = FlattenSeq(seqs)
  <2>1. seqs = [k \in DOMAIN kept |->
                   <<[do |-> "vlan", at |-> kept[k].vid, to |-> kept[k].vid],
                     [do |-> "name", at |-> kept[k].vid,
                      to |-> kept[k].name]>>]
    BY <1>3
  <2> HIDE DEF seqs
  <2> QED
    BY <1>2, <2>1 DEF VlanLines
<1>5. ASSUME NEW v
      PROVE  MadeOf(v).at = v.vid /\ NamedOf(v).at = v.vid
  OBVIOUS
<1>6. ASSUME NEW v, NEW w, v.vid = w.vid
      PROVE  MadeOf(v) = MadeOf(w) /\ NamedOf(v) = NamedOf(w)
  BY <1>6
<1> HIDE DEF MadeOf, NamedOf
<1>7. ASSUME NEW j \in DOMAIN kept
      PROVE  /\ seqs[j] \in Seq(S)
             /\ ToSet(seqs[j]) = {MadeOf(kept[j]), NamedOf(kept[j])}
  <2>1. MadeOf(kept[j]) \in S /\ NamedOf(kept[j]) \in S
    BY <1>3
  <2>2. seqs[j] = <<MadeOf(kept[j]), NamedOf(kept[j])>>
    OBVIOUS
  <2> HIDE DEF seqs, S
  <2> QED
    BY <2>1, <2>2, TwoLines
<1>8. DOMAIN kept = 1..Len(kept) /\ Len(kept) \in Nat
  BY <1>1
<1>9. DOMAIN seqs = DOMAIN kept /\ seqs = [j \in DOMAIN kept |-> seqs[j]]
  OBVIOUS
<1>10. seqs \in Seq(Seq(S))
  <2> HIDE DEF seqs, S
  <2> QED
    BY <1>7, <1>8, <1>9
<1>11. ASSUME NEW l
       PROVE  l \in S <=> \E j \in DOMAIN kept : l \in ToSet(seqs[j])
  <2>1. ASSUME NEW v \in ToSet(all)
        PROVE  \E j \in DOMAIN kept :
                  MadeOf(v) = MadeOf(kept[j]) /\ NamedOf(v) = NamedOf(kept[j])
    <3>1. PICK m \in DOMAIN all : v = all[m]
      BY DEF ToSet
    <3>2. PICK j \in DOMAIN kept : kept[j].vid = v.vid
      BY <1>1, <3>1
    <3> QED
      BY <1>6, <3>2
  <2>2. \A j \in DOMAIN kept : kept[j] \in ToSet(all)
    BY <1>3
  <2>3. l \in S <=> \E v \in ToSet(all) : l = MadeOf(v) \/ l = NamedOf(v)
    OBVIOUS
  <2> HIDE DEF seqs, S
  <2> QED
    BY <1>7, <2>1, <2>2, <2>3
<1>12. /\ FlattenSeq(seqs) \in Seq(S)
       /\ ToSet(FlattenSeq(seqs)) = S
  <2> HIDE DEF seqs, S
  <2>1. /\ FlattenSeq(seqs) \in Seq(S)
        /\ ToSet(FlattenSeq(seqs)) = UNION {ToSet(seqs[k]) : k \in DOMAIN seqs}
    BY <1>10, FlattenElements
  <2> QED
    BY <1>9, <1>11, <2>1
<1>13. /\ VlanLines(Parse(p)) \in Seq(S)
       /\ ToSet(VlanLines(Parse(p))) = S
  <2> HIDE DEF seqs, S
  <2> QED
    BY <1>4, <1>12
<1>14. S = {MadeOf(v) : v \in ToSet(Tagged(p))}
           \cup {NamedOf(v) : v \in ToSet(Tagged(p))}
  BY DEF all
<1> HIDE DEF S
<1> QED
  BY <1>13, <1>14 DEF MadeOf, NamedOf

\* An address is written with the mask that is meant, when it can be.
LEMMA AddressExact ==
    ASSUME NEW address, address.len \in (0..128) \cup {None},
           ~TooLong(address)
    PROVE  IpToIos(address) = Meant(address)
<1>1. CASE address.len = None
  BY <1>1 DEF IpToIos, Meant
<1>2. CASE address.len # None
  <2>1. address.len \in 0..32
    BY <1>2 DEF TooLong
  <2> QED
    BY <1>2, <2>1, MaskIsExact DEF IpToIos, Meant
<1> QED
  BY <1>1, <1>2

\* The primary address always can.
LEMMA PrimaryExact ==
    ASSUME NEW p \in Payloads
    PROVE  IpToIos(p.primary) = Meant(p.primary)
<1>1. p.primary.len \in 0..32 /\ None \notin 0..128
  BY DataPathAssumption
<1>2. p.primary.len # None /\ p.primary.len \in 0..128
  BY <1>1
<1>3. ~TooLong(p.primary)
  BY <1>1 DEF TooLong
<1> QED
  BY <1>2, <1>3, AddressExact

\* The lines of an interface: its first address, if it has one, and whether it
\* is shut.
LEMMA InterfaceLinesExact ==
    ASSUME NEW p \in Payloads, ~Raises(Parse(p)),
           NEW i \in ToSet(p.interfaces)
    PROVE  /\ InterfaceLines(InterfaceIntent(i))
                \in Seq(ToSet(InterfaceLines(InterfaceIntent(i))))
           /\ ToSet(InterfaceLines(InterfaceIntent(i)))
                = (IF i.addresses = <<>> THEN {}
                   ELSE {[do |-> "address", at |-> i.name,
                          to |-> Meant(i.addresses[1])]})
                  \cup {[do |-> "shutdown", at |-> i.name, to |-> ~i.enabled]}
<1> DEFINE iface == InterfaceIntent(i)
           first == [do |-> "address", at |-> i.name,
                     to |-> Meant(i.addresses[1])]
           shut == [do |-> "shutdown", at |-> i.name, to |-> ~i.enabled]
<1>1. /\ iface.name = i.name /\ iface.enabled = i.enabled
      /\ iface.address = IF i.addresses = <<>> THEN None ELSE i.addresses[1]
  BY DEF InterfaceIntent
<1> HIDE DEF iface
<1>2. [do |-> "shutdown", at |-> iface.name, to |-> ~iface.enabled] = shut
  BY <1>1
<1>3. CASE i.addresses = <<>>
  <2>1. InterfaceLines(iface) = <<shut>>
    <3> HIDE DEF shut
    <3> QED
      BY <1>1, <1>2, <1>3 DEF InterfaceLines
  <2> HIDE DEF shut
  <2>2. <<shut>> \in Seq({shut}) /\ ToSet(<<shut>>) = {shut}
    BY DEF ToSet
  <2>3. /\ InterfaceLines(iface) \in Seq(ToSet(InterfaceLines(iface)))
        /\ ToSet(InterfaceLines(iface)) = {shut}
    BY <2>1, <2>2
  <2> QED
    BY <1>3, <2>3 DEF shut, iface
<1>4. CASE i.addresses # <<>>
  <2>1. /\ i.addresses[1] # None
        /\ i.addresses[1].len \in (0..128) \cup {None}
    <3>1. i.addresses \in Seq(ToSet(i.addresses))
      BY DataPathAssumption
    <3>2. i.addresses[1] \in ToSet(i.addresses)
      BY <1>4, <3>1 DEF ToSet
    <3> QED
      BY <3>2, DataPathAssumption
  <2>a. ~TooLong(i.addresses[1])
    <3>1. PICK k \in DOMAIN p.interfaces : i = p.interfaces[k]
      BY DEF ToSet
    <3>2. /\ k \in DOMAIN Parse(p).interfaces
          /\ Parse(p).interfaces[k] = InterfaceIntent(i)
      BY <3>1 DEF Parse
    <3>3. InterfaceIntent(i).address = i.addresses[1]
      BY <1>4 DEF InterfaceIntent
    <3> QED
      BY <2>1, <3>2, <3>3 DEF Raises
  <2>2. IpToIos(iface.address) = Meant(i.addresses[1])
    BY <1>1, <1>4, <2>1, <2>a, AddressExact
  <2>3. InterfaceLines(iface) = <<first>> \o <<shut>>
    <3> HIDE DEF shut
    <3> QED
      BY <1>1, <1>2, <1>4, <2>1, <2>2 DEF InterfaceLines
  <2> HIDE DEF first, shut
  <2>4. /\ <<first>> \in Seq({first, shut}) /\ <<shut>> \in Seq({first, shut})
        /\ ToSet(<<first>>) = {first} /\ ToSet(<<shut>>) = {shut}
    <3> DEFINE both == {first, shut}
    <3>1. first \in both /\ shut \in both
      OBVIOUS
    <3> HIDE DEF both
    <3>2. <<first>> \in Seq(both) /\ ToSet(<<first>>) = {first}
      BY <3>1, OneLine
    <3>3. <<shut>> \in Seq(both) /\ ToSet(<<shut>>) = {shut}
      BY <3>1, OneLine
    <3> QED
      BY <3>2, <3>3 DEF both
  <2>5. /\ <<first>> \o <<shut>> \in Seq({first, shut})
        /\ ToSet(<<first>> \o <<shut>>) = {first} \cup {shut}
    <3> DEFINE both == {first, shut}
               one == <<first>>
               two == <<shut>>
    <3>1. one \in Seq(both) /\ two \in Seq(both)
      BY <2>4
    <3>2. ToSet(one) = {first} /\ ToSet(two) = {shut}
      BY <2>4
    <3> HIDE DEF both, one, two
    <3>3. one \o two \in Seq(both) /\ ToSet(one \o two) = {first} \cup {shut}
      BY <3>1, <3>2, ConcatElements
    <3> QED
      BY <3>3 DEF both, one, two
  <2>6. /\ InterfaceLines(iface) \in Seq(ToSet(InterfaceLines(iface)))
        /\ ToSet(InterfaceLines(iface)) = {first} \cup {shut}
    BY <2>3, <2>5
  <2> QED
    BY <1>4, <2>6 DEF first, shut, iface
<1> QED
  BY <1>3, <1>4

\* The lines of the peer: the neighbor and the network of the primary address.
LEMMA PeerLinesExact ==
    ASSUME NEW p \in Payloads
    PROVE  /\ PeerLines(Parse(p)) \in Seq(ToSet(PeerLines(Parse(p))))
           /\ ToSet(PeerLines(Parse(p)))
                = {[do |-> "neighbor", at |-> q, to |-> q] :
                      q \in {p.peer} \ {None}}
                  \cup {[do |-> "network", at |-> q, to |-> Meant(p.primary)] :
                           q \in {p.peer} \ {None}}
<1> DEFINE neighbor == [do |-> "neighbor", at |-> p.peer, to |-> p.peer]
           network == [do |-> "network", at |-> p.peer,
                       to |-> Meant(p.primary)]
<1>1. IpToIos(p.primary) = Meant(p.primary)
  BY PrimaryExact
<1>2. Parse(p).peer = p.peer /\ Parse(p).primary = p.primary
  BY DEF Parse
<1>3. PeerLines(Parse(p)) = IF p.peer = None THEN <<>>
                            ELSE <<neighbor, network>>
  BY <1>1, <1>2 DEF PeerLines
<1> HIDE DEF neighbor, network
<1>4. /\ <<neighbor, network>> \in Seq({neighbor, network})
      /\ ToSet(<<neighbor, network>>) = {neighbor, network}
      /\ <<>> \in Seq({}) /\ ToSet(<<>>) = {}
  BY DEF ToSet
<1>5. /\ PeerLines(Parse(p)) \in Seq(ToSet(PeerLines(Parse(p))))
      /\ ToSet(PeerLines(Parse(p))) = IF p.peer = None THEN {}
                                      ELSE {neighbor, network}
  BY <1>3, <1>4
<1>6. CASE p.peer = None
  BY <1>5, <1>6
<1>7. CASE p.peer # None
  BY <1>5, <1>7 DEF neighbor, network
<1> QED
  BY <1>6, <1>7

\* The lines of all the interfaces of a payload.
LEMMA AllInterfaceLinesExact ==
    ASSUME NEW p \in Payloads, ~Raises(Parse(p))
    PROVE  LET lines == FlattenSeq([k \in DOMAIN Parse(p).interfaces |->
                                       InterfaceLines(Parse(p).interfaces[k])])
           IN  /\ lines \in Seq(ToSet(lines))
               /\ \A l : l \in ToSet(lines) <=>
                     \E i \in ToSet(p.interfaces) :
                        l \in ToSet(InterfaceLines(InterfaceIntent(i)))
<1> DEFINE LinesOf(i) == InterfaceLines(InterfaceIntent(i))
           seqs == [k \in DOMAIN p.interfaces |-> LinesOf(p.interfaces[k])]
           S == UNION {ToSet(LinesOf(i)) : i \in ToSet(p.interfaces)}
<1>0. \A i \in ToSet(p.interfaces) : LinesOf(i) \in Seq(ToSet(LinesOf(i)))
  BY InterfaceLinesExact
<1>1. [k \in DOMAIN Parse(p).interfaces |->
          InterfaceLines(Parse(p).interfaces[k])] = seqs
  <2>1. Parse(p).interfaces = [k \in DOMAIN p.interfaces |->
                                  InterfaceIntent(p.interfaces[k])]
    BY DEF Parse
  <2>2. DOMAIN Parse(p).interfaces = DOMAIN p.interfaces
    BY <2>1
  <2>3. \A k \in DOMAIN p.interfaces :
           Parse(p).interfaces[k] = InterfaceIntent(p.interfaces[k])
    BY <2>1
  <2> QED
    BY <2>2, <2>3
<1> HIDE DEF LinesOf
<1>2. ASSUME NEW i \in ToSet(p.interfaces)
      PROVE  LinesOf(i) \in Seq(S)
  <2>1. ToSet(LinesOf(i)) \subseteq S
    OBVIOUS
  <2> HIDE DEF S
  <2> QED
    BY <1>0, <2>1
<1> HIDE DEF S
<1>3. /\ p.interfaces \in Seq(ToSet(p.interfaces))
      /\ DOMAIN p.interfaces = 1..Len(p.interfaces)
      /\ Len(p.interfaces) \in Nat
  <2>1. p.interfaces \in Seq(ToSet(p.interfaces))
    BY DataPathAssumption
  <2> QED
    BY <2>1
<1>4. \A k \in DOMAIN p.interfaces : p.interfaces[k] \in ToSet(p.interfaces)
  BY DEF ToSet
<1>5. seqs \in Seq(Seq(S))
  BY <1>2, <1>3, <1>4
<1>6. /\ DOMAIN seqs = DOMAIN p.interfaces
      /\ \A k \in DOMAIN p.interfaces : seqs[k] = LinesOf(p.interfaces[k])
  OBVIOUS
<1> HIDE DEF seqs
<1> DEFINE lines == FlattenSeq(seqs)
<1>7. /\ lines \in Seq(S)
      /\ ToSet(lines) = UNION {ToSet(seqs[k]) : k \in DOMAIN seqs}
  BY <1>5, FlattenElements
<1> HIDE DEF lines
<1>8. lines \in Seq(ToSet(lines))
  BY <1>7 DEF ToSet
<1>9. ASSUME NEW l
      PROVE  l \in ToSet(lines) <=>
                \E i \in ToSet(p.interfaces) : l \in ToSet(LinesOf(i))
  <2>1. l \in ToSet(lines) <=> \E k \in DOMAIN seqs : l \in ToSet(seqs[k])
    BY <1>7
  <2>2. \A i : i \in ToSet(p.interfaces) <=>
           \E k \in DOMAIN p.interfaces : i = p.interfaces[k]
    BY DEF ToSet
  <2> QED
    BY <1>6, <2>1, <2>2
<1> QED
  BY <1>1, <1>8, <1>9 DEF lines, LinesOf

\* What a payload is rendered into is what its config should say.
LEMMA RenderedIsSaid ==
    ASSUME NEW p \in Payloads, ~Raises(Parse(p))
    PROVE  /\ Render(Parse(p)) \in Seq(Said(p))
           /\ ToSet(Render(Parse(p))) = Said(p)
<1> DEFINE vlans == VlanLines(Parse(p))
           ifaces == FlattenSeq([k \in DOMAIN Parse(p).interfaces |->
                                    InterfaceLines(Parse(p).interfaces[k])])
           peers == PeerLines(Parse(p))
           saidVlans == {[do |-> "vlan", at |-> v.vid, to |-> v.vid] :
                            v \in ToSet(Tagged(p))}
                        \cup {[do |-> "name", at |-> v.vid,
                               to |-> NameOf(p, v.vid)] :
                                 v \in ToSet(Tagged(p))}
           saidAddresses ==
               {[do |-> "address", at |-> i.name,
                 to |-> Meant(i.addresses[1])] :
                   i \in {j \in ToSet(p.interfaces) : j.addresses # <<>>}}
           saidShut ==
               {[do |-> "shutdown", at |-> i.name, to |-> ~i.enabled] :
                   i \in ToSet(p.interfaces)}
           saidPeers ==
               {[do |-> "neighbor", at |-> q, to |-> q] :
                   q \in {p.peer} \ {None}}
               \cup {[do |-> "network", at |-> q, to |-> Meant(p.primary)] :
                        q \in {p.peer} \ {None}}
<1>1. vlans \in Seq(ToSet(vlans)) /\ ToSet(vlans) = saidVlans
  BY VlanLinesExact
<1>2. /\ ifaces \in Seq(ToSet(ifaces))
      /\ \A l : l \in ToSet(ifaces) <=>
            \E i \in ToSet(p.interfaces) :
               l \in ToSet(InterfaceLines(InterfaceIntent(i)))
  BY AllInterfaceLinesExact
<1>3. peers \in Seq(ToSet(peers)) /\ ToSet(peers) = saidPeers
  BY PeerLinesExact
<1>4. Render(Parse(p)) = vlans \o ifaces \o peers
  BY DEF Render
<1> HIDE DEF vlans, ifaces, peers
<1>5. ToSet(ifaces) = saidAddresses \cup saidShut
  <2>1. ASSUME NEW i \in ToSet(p.interfaces)
        PROVE  ToSet(InterfaceLines(InterfaceIntent(i)))
                 = (IF i.addresses = <<>> THEN {}
                    ELSE {[do |-> "address", at |-> i.name,
                           to |-> Meant(i.addresses[1])]})
                   \cup {[do |-> "shutdown", at |-> i.name,
                          to |-> ~i.enabled]}
    BY InterfaceLinesExact
  <2> DEFINE First(i) == [do |-> "address", at |-> i.name,
                          to |-> Meant(i.addresses[1])]
             Shut(i) == [do |-> "shutdown", at |-> i.name, to |-> ~i.enabled]
  <2>2. /\ saidAddresses =
              {First(i) : i \in {j \in ToSet(p.interfaces) :
                                    j.addresses # <<>>}}
        /\ saidShut = {Shut(i) : i \in ToSet(p.interfaces)}
    OBVIOUS
  <2>3. \A i \in ToSet(p.interfaces) : \A l :
           l \in ToSet(InterfaceLines(InterfaceIntent(i))) <=>
              (i.addresses # <<>> /\ l = First(i)) \/ l = Shut(i)
    BY <2>1
  <2> HIDE DEF First, Shut, saidAddresses, saidShut
  <2>4. \A l : l \in saidAddresses <=>
           \E i \in ToSet(p.interfaces) : i.addresses # <<>> /\ l = First(i)
    BY <2>2
  <2>5. \A l : l \in saidShut <=>
           \E i \in ToSet(p.interfaces) : l = Shut(i)
    BY <2>2
  <2>6. \A l : l \in ToSet(ifaces) <=> l \in saidAddresses \/ l \in saidShut
    BY <1>2, <2>3, <2>4, <2>5
  <2> QED
    BY <2>6
<1>6. Said(p) = saidVlans \cup saidAddresses \cup saidShut \cup saidPeers
  BY DEF Said
<1> HIDE DEF saidVlans, saidAddresses, saidShut, saidPeers
<1> DEFINE S == Said(p)
<1>7. vlans \in Seq(S) /\ ifaces \in Seq(S) /\ peers \in Seq(S)
  BY <1>1, <1>2, <1>3, <1>5, <1>6
<1> HIDE DEF S
<1>8. /\ vlans \o ifaces \in Seq(S)
      /\ ToSet(vlans \o ifaces) = ToSet(vlans) \cup ToSet(ifaces)
  BY <1>7, ConcatElements
<1> DEFINE former == vlans \o ifaces
<1>9. /\ former \o peers \in Seq(S)
      /\ ToSet(former \o peers) = ToSet(former) \cup ToSet(peers)
  <2>1. former \in Seq(S)
    BY <1>8
  <2> HIDE DEF former
  <2> QED
    BY <1>7, <2>1, ConcatElements
<1>10. ToSet(Render(Parse(p))) = Said(p) /\ Render(Parse(p)) \in Seq(Said(p))
  BY <1>1, <1>3, <1>4, <1>5, <1>6, <1>8, <1>9 DEF S
<1> QED
  BY <1>10

\* A payload whose VLANs the models let through tags no other id: the one kept
\* of each id stands for all of them.
LEMMA TaggedIsAccepted ==
    ASSUME NEW p \in Payloads, ~Refused(p), NEW v \in ToSet(Tagged(p))
    PROVE  v.vid \in 1..4094
<1>1. PICK m \in DOMAIN Tagged(p) : v = Tagged(p)[m]
  BY DEF ToSet
<1>2. \A l \in DOMAIN Tagged(p) : \E j \in DOMAIN Vlans(p) :
         Vlans(p)[j].vid = Tagged(p)[l].vid
  BY TaggedIsSequence, FirstsAreKept DEF Vlans
<1>3. PICK j \in DOMAIN Vlans(p) : Vlans(p)[j].vid = v.vid
  BY <1>1, <1>2
<1> QED
  BY <1>3 DEF Refused, Accepted

\* What is asked for and not said is what Unsaid lists, and nothing is said that
\* is not asked for but the network that a host names.
LEMMA SaidIsAsked ==
    ASSUME NEW p \in Payloads
    PROVE  /\ Asked(p) \ Unsaid(p) \subseteq Said(p)
           /\ \A a \in Said(p) \ Asked(p) :
                 /\ a = [do |-> "network", at |-> p.peer, to |-> Meant(p.primary)]
                 /\ Meant(p.primary) # Subnet(p.primary)
<1> DEFINE MadeOf(v) == [do |-> "vlan", at |-> v.vid, to |-> v.vid]
           NamedOf(v, n) == [do |-> "name", at |-> v.vid, to |-> n]
           ShutOf(i) == [do |-> "shutdown", at |-> i.name, to |-> ~i.enabled]
           AddressOf(i, a) ==
               [do |-> "address", at |-> i.name, to |-> Meant(a)]
           NeighborOf(q) == [do |-> "neighbor", at |-> q, to |-> q]
           NetworkOf(q, n) == [do |-> "network", at |-> q, to |-> n]
           tagged == ToSet(Tagged(p))
           ifaces == ToSet(p.interfaces)
           peers == {p.peer} \ {None}
<1>a. Asked(p) =
         Addresses(p)
         \cup {MadeOf(v) : v \in tagged}
         \cup {NamedOf(v, v.name) : v \in tagged}
         \cup {ShutOf(i) : i \in ifaces}
         \cup {NeighborOf(q) : q \in peers}
         \cup {NetworkOf(q, Subnet(p.primary)) : q \in peers}
  BY Zenon DEF Asked
<1>b. Said(p) =
         {MadeOf(v) : v \in tagged}
         \cup {NamedOf(v, NameOf(p, v.vid)) : v \in tagged}
         \cup {ShutOf(i) : i \in ifaces}
         \cup {AddressOf(i, i.addresses[1]) :
                  i \in {j \in ifaces : j.addresses # <<>>}}
         \cup {NeighborOf(q) : q \in peers}
         \cup {NetworkOf(q, Meant(p.primary)) : q \in peers}
  BY Zenon DEF Said
<1>c. Unsaid(p) =
         Secondary(p)
         \cup {NamedOf(v, v.name) :
                  v \in {w \in tagged : w.name # NameOf(p, w.vid)}}
         \cup {NetworkOf(q, Subnet(p.primary)) :
                 q \in IF Subnet(p.primary) = Meant(p.primary)
                       THEN {} ELSE {p.peer}}
  BY Zenon DEF Unsaid
<1>5. ASSUME NEW i, NEW b, NEW c, Meant(b) = Meant(c)
      PROVE  AddressOf(i, b) = AddressOf(i, c)
  BY <1>5
<1>d. ASSUME NEW v, NEW w, NEW n, v.vid = w.vid
      PROVE  NamedOf(v, n) = NamedOf(w, n)
  BY <1>d
<1>e. ASSUME NEW a
      PROVE  a \in Addresses(p) <=>
                \E i \in ifaces : \E b \in ToSet(i.addresses) :
                   a = AddressOf(i, b)
  BY DEF Addresses
<1>f. ASSUME NEW a
      PROVE  a \in Secondary(p) <=>
                \E i \in ifaces : \E b \in ToSet(i.addresses) :
                   /\ Meant(b) # Meant(i.addresses[1])
                   /\ a = AddressOf(i, b)
  BY DEF Secondary
<1> HIDE DEF MadeOf, NamedOf, ShutOf, AddressOf, NeighborOf, NetworkOf
<1>1. ASSUME NEW a
      PROVE  a \in Asked(p) <=>
                \/ \E v \in tagged : a = MadeOf(v) \/ a = NamedOf(v, v.name)
                \/ \E i \in ifaces :
                      \/ a = ShutOf(i)
                      \/ \E b \in ToSet(i.addresses) : a = AddressOf(i, b)
                \/ \E q \in peers :
                      a = NeighborOf(q) \/ a = NetworkOf(q, Subnet(p.primary))
  BY <1>a, <1>e
<1>2. ASSUME NEW a
      PROVE  a \in Said(p) <=>
                \/ \E v \in tagged :
                      a = MadeOf(v) \/ a = NamedOf(v, NameOf(p, v.vid))
                \/ \E i \in ifaces :
                      \/ a = ShutOf(i)
                      \/ i.addresses # <<>> /\ a = AddressOf(i, i.addresses[1])
                \/ \E q \in peers :
                      a = NeighborOf(q) \/ a = NetworkOf(q, Meant(p.primary))
  BY <1>b
<1>3. ASSUME NEW a
      PROVE  a \in Unsaid(p) <=>
                \/ \E v \in tagged : /\ v.name # NameOf(p, v.vid)
                                     /\ a = NamedOf(v, v.name)
                \/ \E i \in ifaces : \E b \in ToSet(i.addresses) :
                      /\ Meant(b) # Meant(i.addresses[1])
                      /\ a = AddressOf(i, b)
                \/ /\ Subnet(p.primary) # Meant(p.primary)
                   /\ a = NetworkOf(p.peer, Subnet(p.primary))
  BY <1>c, <1>f
<1>4. ASSUME NEW i \in ifaces, NEW b \in ToSet(i.addresses)
      PROVE  i.addresses # <<>>
  <2>1. ToSet(<<>>) = {}
    BY DEF ToSet
  <2> QED
    BY <2>1
<1>6. ASSUME NEW i \in ifaces, i.addresses # <<>>
      PROVE  i.addresses[1] \in ToSet(i.addresses)
  <2>1. i.addresses \in Seq(ToSet(i.addresses))
    BY DataPathAssumption
  <2> QED
    BY <1>6, <2>1 DEF ToSet
<1>7. ASSUME NEW v \in tagged
      PROVE  NamedOf(v, NameOf(p, v.vid)) \in Asked(p)
  <2>1. PICK m \in DOMAIN Tagged(p) : v = Tagged(p)[m]
    BY DEF ToSet
  <2>2. PICK j \in DOMAIN Vlans(p) : Vlans(p)[j].vid = v.vid
    BY <2>1, TaggedIsSequence, FirstsAreKept DEF Vlans
  <2>3. PICK f \in DOMAIN Tagged(p) :
               Vlans(p)[j] = Tagged(p)[f] /\ IsFirst(Tagged(p), f)
    BY TaggedIsSequence, FirstsAreKept DEF Vlans
  <2>4. NameOf(p, Tagged(p)[f].vid) = Tagged(p)[f].name
    BY <2>3, NameOfFirst
  <2>5. Tagged(p)[f] \in tagged /\ Tagged(p)[f].vid = v.vid
    BY <2>2, <2>3 DEF ToSet
  <2> QED
    BY <1>1, <1>d, <2>4, <2>5
<1>8. ASSUME NEW a \in Asked(p), a \notin Unsaid(p)
      PROVE  a \in Said(p)
  <2>1. ASSUME NEW v \in tagged, a = MadeOf(v) \/ a = NamedOf(v, v.name)
        PROVE  a \in Said(p)
    BY <1>2, <1>3, <1>8, <2>1
  <2>2. ASSUME NEW i \in ifaces, a = ShutOf(i)
        PROVE  a \in Said(p)
    BY <1>2, <2>2
  <2>3. ASSUME NEW i \in ifaces, NEW b \in ToSet(i.addresses),
               a = AddressOf(i, b)
        PROVE  a \in Said(p)
    <3>1. Meant(b) = Meant(i.addresses[1])
      BY <1>3, <1>8, <2>3
    <3>2. a = AddressOf(i, i.addresses[1])
      BY <1>5, <2>3, <3>1
    <3> QED
      BY <1>2, <1>4, <3>2
  <2>4. ASSUME NEW q \in peers,
               a = NeighborOf(q) \/ a = NetworkOf(q, Subnet(p.primary))
        PROVE  a \in Said(p)
    BY <1>2, <1>3, <1>8, <2>4
  <2> QED
    BY <1>1, <2>1, <2>2, <2>3, <2>4
<1>9. ASSUME NEW a \in Said(p), a \notin Asked(p)
      PROVE  /\ a = NetworkOf(p.peer, Meant(p.primary))
             /\ Meant(p.primary) # Subnet(p.primary)
  BY <1>1, <1>2, <1>6, <1>7, <1>9
<1> QED
  BY <1>8, <1>9 DEF NetworkOf

\* Whatever is said is a line of one of six kinds, about a place that no other
\* line of its kind is about.
LEMMA SaidLines ==
    ASSUME NEW p \in Payloads, NEW a \in Said(p)
    PROVE  /\ a = [do |-> a.do, at |-> a.at, to |-> a.to]
           /\ a.do \in {"vlan", "name", "address", "shutdown", "neighbor",
                        "network"}
           /\ a.do = "vlan" =>
                 a.to = a.at /\ \E v \in ToSet(Tagged(p)) : a.at = v.vid
           /\ a.do = "name" =>
                 /\ \E v \in ToSet(Tagged(p)) : a.at = v.vid
                 /\ a.to = NameOf(p, a.at)
           /\ a.do = "address" =>
                 \E i \in ToSet(p.interfaces) :
                    a.at = i.name /\ a.to = Meant(i.addresses[1])
           /\ a.do = "shutdown" =>
                 /\ a.to \in BOOLEAN
                 /\ \E i \in ToSet(p.interfaces) :
                       a.at = i.name /\ (a.to <=> ~i.enabled)
           /\ a.do = "neighbor" => a.to = p.peer
           /\ a.do = "network" => a.to = Meant(p.primary)
<1>1. CASE a \in {[do |-> "vlan", at |-> v.vid, to |-> v.vid] :
                     v \in ToSet(Tagged(p))}
  BY <1>1
<1>2. CASE a \in {[do |-> "name", at |-> v.vid, to |-> NameOf(p, v.vid)] :
                     v \in ToSet(Tagged(p))}
  BY <1>2
<1>3. CASE a \in {[do |-> "address", at |-> i.name,
                   to |-> Meant(i.addresses[1])] :
                     i \in {j \in ToSet(p.interfaces) : j.addresses # <<>>}}
  BY <1>3
<1>4. CASE a \in {[do |-> "shutdown", at |-> i.name, to |-> ~i.enabled] :
                     i \in ToSet(p.interfaces)}
  <2>1. PICK i \in ToSet(p.interfaces) :
               a = [do |-> "shutdown", at |-> i.name, to |-> ~i.enabled]
    BY <1>4
  <2> DEFINE off == ~i.enabled
  <2>2. /\ off \in BOOLEAN /\ (off <=> ~i.enabled)
        /\ a = [do |-> "shutdown", at |-> i.name, to |-> off]
    BY <2>1
  <2> HIDE DEF off
  <2> QED
    BY <2>2
<1>5. CASE a \in {[do |-> "neighbor", at |-> q, to |-> q] :
                     q \in {p.peer} \ {None}}
  BY <1>5
<1>6. CASE a \in {[do |-> "network", at |-> q, to |-> Meant(p.primary)] :
                     q \in {p.peer} \ {None}}
  BY <1>6
<1> QED
  BY <1>1, <1>2, <1>3, <1>4, <1>5, <1>6 DEF Said

\* What a payload is rendered into, when the models let it through and no first
\* address of an interface has a prefix beyond 32, is what it asks for, with
\* the masks of all the addresses and every id of a VLAN one a router takes:
\* but for the other names of a VLAN, the other addresses of an interface and
\* the network of a primary address that has bits of its own, which is named by
\* the host (nautobot_activities.py lines 230 to 282, ansible_activities.py
\* lines 78 to 116 and 148 to 170).
THEOREM RenderingExact ==
    ASSUME NEW p \in Payloads, ~Refused(p), ~Raises(Parse(p))
    PROVE  LET lines == ToSet(Render(Parse(p)))
           IN  /\ Asked(p) \ Unsaid(p) \subseteq lines
               /\ \A a \in lines \ Asked(p) :
                     /\ a = [do |-> "network", at |-> p.peer,
                             to |-> Meant(p.primary)]
                     /\ Meant(p.primary) # Subnet(p.primary)
               /\ \A a \in lines : a.do \in {"vlan", "name"} =>
                     a.at \in 1..4094
<1>1. ToSet(Render(Parse(p))) = Said(p)
  BY RenderedIsSaid
<1>2. \A a \in Said(p) : a.do \in {"vlan", "name"} => a.at \in 1..4094
  BY TaggedIsAccepted, SaidLines
<1> QED
  BY <1>1, <1>2, SaidIsAsked

-----------------------------------------------------------------------------
(* The lines on the router.                                                *)

\* No two lines that are said contradict each other: a VLAN has one name,
\* an interface is named once, and an interface has one address.
LEMMA NoConflict ==
    ASSUME NEW p \in Payloads, NEW a \in Said(p), NEW b \in Said(p),
           a.do = b.do, a.at = b.at,
           a.do \in {"vlan", "name", "address", "shutdown"}
    PROVE  a.to = b.to
<1>1. \A i, j \in ToSet(p.interfaces) : i.name = j.name => i = j
  <2>1. \A j, k \in DOMAIN p.interfaces :
           p.interfaces[j].name = p.interfaces[k].name => j = k
    BY DataPathAssumption
  <2> QED
    BY <2>1 DEF ToSet
<1>0. CASE a.do = "vlan"
  <2>1. a.to = a.at
    BY <1>0, SaidLines
  <2>2. b.to = b.at
    BY <1>0, SaidLines
  <2> QED
    BY <2>1, <2>2
<1>2. CASE a.do = "name"
  <2>1. a.to = NameOf(p, a.at)
    BY <1>2, SaidLines
  <2>2. b.to = NameOf(p, b.at)
    BY <1>2, SaidLines
  <2> QED
    BY <2>1, <2>2
<1>3. CASE a.do = "address"
  <2>1. PICK i \in ToSet(p.interfaces) :
               a.at = i.name /\ a.to = Meant(i.addresses[1])
    BY <1>3, SaidLines
  <2>2. PICK j \in ToSet(p.interfaces) :
               b.at = j.name /\ b.to = Meant(j.addresses[1])
    BY <1>3, SaidLines
  <2> QED
    BY <1>1, <2>1, <2>2
<1>4. CASE a.do = "shutdown"
  <2>1. PICK i \in ToSet(p.interfaces) :
               a.at = i.name /\ (a.to <=> ~i.enabled)
    BY <1>4, SaidLines
  <2>2. PICK j \in ToSet(p.interfaces) :
               b.at = j.name /\ (b.to <=> ~j.enabled)
    BY <1>4, SaidLines
  <2>3. a.to \in BOOLEAN
    BY <1>4, SaidLines
  <2>4. b.to \in BOOLEAN
    BY <1>4, SaidLines
  <2>5. i = j
    BY <1>1, <2>1, <2>2
  <2>6. a.to <=> b.to
    BY <2>1, <2>2, <2>5
  <2> QED
    BY <2>3, <2>4, <2>6
<1> QED
  BY <1>0, <1>2, <1>3, <1>4

\* An address for the management interface is one the payload names it with.
LEMMA SaidOfMgmt ==
    ASSUME NEW p \in Payloads, NEW a \in Said(p),
           a.do = "address", a.at = Mgmt
    PROVE  NamesMgmt(p)
BY SaidLines DEF NamesMgmt

\* A line that the router accepts has its place there.
LEMMA LinePlaces ==
    ASSUME NEW p \in Payloads, NEW a \in Said(p), Accepts(a)
    PROVE  /\ a.do = "name" => a.at \in Vids
           /\ a.do = "address" => a.at \in Hardware
<1>1. ASSUME a.do = "name"
      PROVE  a.at \in Vids
  <2>1. PICK v \in ToSet(Tagged(p)) : a.at = v.vid
    BY <1>1, SaidLines
  <2> QED
    BY <2>1 DEF Vids, ToSet
<1>2. ASSUME a.do = "address"
      PROVE  a.at \in Hardware
  BY <1>2 DEF Accepts
<1> QED
  BY <1>1, <1>2

\* What the delivery of a line changes in config c: the outcome is d.
Delivered(line, c, d) ==
    /\ d.vlans = IF line.do = "vlan" THEN c.vlans \cup {line.to} ELSE c.vlans
    /\ \A v \in Vids :
          d.names[v] = IF line.do = "name" /\ line.at = v
                       THEN line.to ELSE c.names[v]
    /\ \A n \in Hardware :
          d.address[n] = IF line.do = "address" /\ line.at = n
                         THEN line.to ELSE c.address[n]
    /\ line.do # "shutdown" => d.shut = c.shut
    /\ line.do = "shutdown" =>
          /\ line.to = TRUE => d.shut = c.shut \cup {line.at}
          /\ line.to = FALSE => d.shut = c.shut \ {line.at}
    /\ d.peers = IF line.do = "neighbor" THEN c.peers \cup {line.to}
                 ELSE c.peers
    /\ d.networks = IF line.do = "network" THEN c.networks \cup {line.to}
                    ELSE c.networks

LEMMA Applied ==
    ASSUME NEW p \in Payloads, NEW a \in Said(p), Accepts(a),
           NEW c, IsConfig(c)
    PROVE  IsConfig(Apply(c, a)) /\ Delivered(a, c, Apply(c, a))
<1>1. a.do \in {"vlan", "name", "address", "shutdown", "neighbor", "network"}
  BY SaidLines
<1>a. CASE a.do = "vlan"
  <2>1. Apply(c, a) = [c EXCEPT !.vlans = @ \cup {a.to}]
    BY <1>a DEF Apply
  <2> QED
    BY <1>a, <2>1 DEF IsConfig, Delivered
<1>2. CASE a.do = "name"
  <2>1. a.at \in Vids
    BY <1>2, LinePlaces
  <2>2. Apply(c, a) = [c EXCEPT !.names[a.at] = a.to]
    BY <1>2 DEF Apply
  <2> QED
    BY <1>2, <2>1, <2>2 DEF IsConfig, Delivered
<1>3. CASE a.do = "address"
  <2>1. a.at \in Hardware
    BY <1>3, LinePlaces
  <2>2. Apply(c, a) = [c EXCEPT !.address[a.at] = a.to]
    BY <1>3 DEF Apply
  <2> QED
    BY <1>3, <2>1, <2>2 DEF IsConfig, Delivered
<1>4. CASE a.do = "shutdown"
  <2>1. a.to \in BOOLEAN
    BY <1>4, SaidLines
  <2>2. Apply(c, a) = [c EXCEPT !.shut = IF a.to THEN @ \cup {a.at}
                                                  ELSE @ \ {a.at}]
    BY <1>4 DEF Apply
  <2>3. CASE a.to = TRUE
    BY <1>4, <2>2, <2>3 DEF IsConfig, Delivered
  <2>4. CASE a.to = FALSE
    BY <1>4, <2>2, <2>4 DEF IsConfig, Delivered
  <2> QED
    BY <2>1, <2>3, <2>4
<1>5. CASE a.do = "neighbor"
  <2>1. Apply(c, a) = [c EXCEPT !.peers = @ \cup {a.to}]
    BY <1>5 DEF Apply
  <2> QED
    BY <1>5, <2>1 DEF IsConfig, Delivered
<1>6. CASE a.do = "network"
  <2>1. Apply(c, a) = [c EXCEPT !.networks = @ \cup {a.to}]
    BY <1>6 DEF Apply
  <2> QED
    BY <1>6, <2>1 DEF IsConfig, Delivered
<1> QED
  BY <1>1, <1>a, <1>2, <1>3, <1>4, <1>5, <1>6

\* A line holds once it has been delivered.
LEMMA DeliveredHolds ==
    ASSUME NEW p \in Payloads, NEW a \in Said(p), Accepts(a),
           NEW c, NEW d, Delivered(a, c, d)
    PROVE  Holds(d, a)
<1>1. /\ a.do = "name" => a.at \in Vids
      /\ a.do = "address" => a.at \in Hardware
  BY LinePlaces
<1>2. a.do = "shutdown" => a.to \in BOOLEAN
  BY SaidLines
<1>3. a.do = "shutdown" => (a.at \in d.shut <=> a.to = TRUE)
  <2>1. CASE a.to = TRUE
    BY <2>1 DEF Delivered
  <2>2. CASE a.to = FALSE
    BY <2>2 DEF Delivered
  <2> QED
    BY <1>2, <2>1, <2>2
<1> QED
  BY <1>1, <1>3 DEF Delivered, Holds

\* A line that is said takes back no other one.
LEMMA DeliveredKeeps ==
    ASSUME NEW p \in Payloads, NEW a \in Said(p), Accepts(a),
           NEW c, NEW d, Delivered(a, c, d),
           NEW b \in Said(p), Accepts(b), Holds(c, b)
    PROVE  Holds(d, b)
<1>a. CASE b.do = "vlan"
  BY <1>a DEF Delivered, Holds
<1>1. CASE b.do = "name"
  <2>1. b.at \in Vids
    BY <1>1, LinePlaces
  <2>2. CASE a.do = "name" /\ a.at = b.at
    <3>1. a.to = b.to
      BY <1>1, <2>2, NoConflict
    <3> QED
      BY <1>1, <2>1, <2>2, <3>1 DEF Delivered, Holds
  <2>3. CASE ~(a.do = "name" /\ a.at = b.at)
    BY <1>1, <2>1, <2>3 DEF Delivered, Holds
  <2> QED
    BY <2>2, <2>3
<1>2. CASE b.do = "address"
  <2>1. b.at \in Hardware
    BY <1>2, LinePlaces
  <2>2. CASE a.do = "address" /\ a.at = b.at
    <3>1. a.to = b.to
      BY <1>2, <2>2, NoConflict
    <3> QED
      BY <1>2, <2>1, <2>2, <3>1 DEF Delivered, Holds
  <2>3. CASE ~(a.do = "address" /\ a.at = b.at)
    BY <1>2, <2>1, <2>3 DEF Delivered, Holds
  <2> QED
    BY <2>2, <2>3
<1>3. CASE b.do = "shutdown"
  <2>1. b.at \in c.shut <=> b.to = TRUE
    BY <1>3 DEF Holds
  <2>2. b.at \in d.shut <=> b.to = TRUE
    <3>1. CASE a.do # "shutdown"
      BY <2>1, <3>1 DEF Delivered
    <3>2. CASE a.do = "shutdown" /\ a.at # b.at
      <4>1. a.to \in BOOLEAN
        BY <3>2, SaidLines
      <4>2. b.at \in d.shut <=> b.at \in c.shut
        BY <3>2, <4>1 DEF Delivered
      <4> QED
        BY <2>1, <4>2
    <3>3. CASE a.do = "shutdown" /\ a.at = b.at
      <4>1. a.to = b.to
        BY <1>3, <3>3, NoConflict
      <4>2. Holds(d, a)
        BY DeliveredHolds
      <4>3. a.at \in d.shut <=> a.to = TRUE
        BY <3>3, <4>2 DEF Holds
      <4> QED
        BY <3>3, <4>1, <4>3
    <3> QED
      BY <3>1, <3>2, <3>3
  <2> QED
    BY <1>3, <2>2 DEF Holds
<1>4. CASE b.do = "neighbor"
  BY <1>4 DEF Delivered, Holds
<1>5. CASE b.do = "network"
  BY <1>5 DEF Delivered, Holds
<1>6. b.do \in {"vlan", "name", "address", "shutdown", "neighbor", "network"}
  BY SaidLines
<1> QED
  BY <1>a, <1>1, <1>2, <1>3, <1>4, <1>5, <1>6

\* The delivery of what holds changes nothing.
LEMMA DeliveredAgain ==
    ASSUME NEW p \in Payloads, NEW a \in Said(p), Accepts(a),
           NEW c, NEW d, IsConfig(c), IsConfig(d), Delivered(a, c, d),
           Holds(c, a)
    PROVE  d = c
<1>a. d.vlans = c.vlans
  BY DEF Delivered, Holds
<1>1. d.names = c.names
  <2>1. \A v \in Vids : d.names[v] = c.names[v]
    BY DEF Delivered, Holds
  <2> QED
    BY <2>1 DEF IsConfig
<1>2. d.address = c.address
  <2>1. \A n \in Hardware : d.address[n] = c.address[n]
    BY DEF Delivered, Holds
  <2> QED
    BY <2>1 DEF IsConfig
<1>3. d.shut = c.shut
  <2>1. CASE a.do # "shutdown"
    BY <2>1 DEF Delivered
  <2>2. CASE a.do = "shutdown"
    <3>1. a.to \in BOOLEAN
      BY <2>2, SaidLines
    <3>2. a.at \in c.shut <=> a.to = TRUE
      BY <2>2 DEF Holds
    <3> QED
      BY <2>2, <3>1, <3>2 DEF Delivered
  <2> QED
    BY <2>1, <2>2
<1>4. d.peers = c.peers /\ d.networks = c.networks
  BY DEF Delivered, Holds
<1> QED
  BY <1>a, <1>1, <1>2, <1>3, <1>4 DEF IsConfig

\* So that what is granted is what holds.
LEMMA GrantedIsHolds ==
    ASSUME NEW p \in Payloads, NEW a \in Said(p),
           NEW c, IsConfig(c)
    PROVE  Granted(a, c) <=> Accepts(a) /\ Holds(c, a)
<1> SUFFICES ASSUME Accepts(a)
             PROVE  Apply(c, a) = c <=> Holds(c, a)
  BY DEF Granted
<1>1. IsConfig(Apply(c, a)) /\ Delivered(a, c, Apply(c, a))
  BY Applied
<1>2. Holds(Apply(c, a), a)
  BY <1>1, DeliveredHolds
<1>3. Holds(c, a) => Apply(c, a) = c
  BY <1>1, DeliveredAgain
<1>4. ASSUME Apply(c, a) = c
      PROVE  Holds(c, a)
  BY <1>2, <1>4
<1> QED
  BY <1>3, <1>4

\* The switches of a config: what a delivery of a line that is said leaves
\* there was there, or is said.
LEMMA DeliveredSwitch ==
    ASSUME NEW p \in Payloads, NEW a \in Said(p), Accepts(a),
           NEW c, NEW d, Delivered(a, c, d), a.do = "shutdown"
    PROVE  /\ [do |-> "shutdown", at |-> a.at, to |-> a.at \in d.shut]
                 \in Said(p)
           /\ \A n : n # a.at => (n \in d.shut <=> n \in c.shut)
<1>1. a.to \in BOOLEAN
  BY SaidLines
<1>2. a = [do |-> "shutdown", at |-> a.at, to |-> a.to]
  BY SaidLines
<1>3. a.at \in d.shut <=> a.to = TRUE
  BY DeliveredHolds DEF Holds
<1> DEFINE off == a.at \in d.shut
<1>4. off \in BOOLEAN
  OBVIOUS
<1>5. off = a.to
  <2>1. off <=> a.to = TRUE
    BY <1>3
  <2> HIDE DEF off
  <2> QED
    BY <1>1, <1>4, <2>1
<1>6. [do |-> "shutdown", at |-> a.at, to |-> off] \in Said(p)
  <2> HIDE DEF off
  <2> QED
    BY <1>2, <1>5
<1>7. \A n : n # a.at => (n \in d.shut <=> n \in c.shut)
  BY <1>1 DEF Delivered
<1> QED
  BY <1>6, <1>7

-----------------------------------------------------------------------------
(* Booting.                                                                *)

\* Lines are applied one by one, in their order.
LEMMA AppliedOneByOne ==
    ASSUME NEW S, NEW all \in Seq(S), NEW boot
    PROVE  \E run :
              /\ run[0] = boot
              /\ \A k \in 1..Len(all) :
                    run[k] = Apply(run[k - 1], all[k])
              /\ FoldLeft(Apply, boot, all) = run[Len(all)]
<1> DEFINE Step(f, s) == IF s = {} THEN boot
                         ELSE Apply(f[s \ {Max(s)}], all[Max(s)])
           Folds(f, n) == f = [s \in SUBSET (1..n) |-> Step(f, s)]
           fold == CHOOSE f : Folds(f, Len(all))
<1>0. Len(all) \in Nat /\ DOMAIN all = 1..Len(all)
  OBVIOUS
<1>1. FoldLeft(Apply, boot, all) = fold[1..Len(all)]
  BY <1>0 DEF FoldLeft, MapThenFoldSet
<1>2. \A f, g, s :
         s = {} \/ f[s \ {Max(s)}] = g[s \ {Max(s)}] => Step(f, s) = Step(g, s)
  OBVIOUS
<1>3. \A f, s : /\ s = {} => Step(f, s) = boot
                /\ s # {} => Step(f, s)
                               = Apply(f[s \ {Max(s)}], all[Max(s)])
  OBVIOUS
<1> HIDE DEF Step
<1>4. \E f : Folds(f, Len(all))
  <2> DEFINE T == {n \in Nat : \E f : Folds(f, n)}
  <2>1. 0 \in T
    <3> DEFINE f == [s \in SUBSET (1..0) |-> boot]
    <3>1. \A s \in SUBSET (1..0) : s = {}
      OBVIOUS
    <3>2. \A s \in SUBSET (1..0) : Step(f, s) = boot
      BY <1>3, <3>1
    <3>3. Folds(f, 0)
      BY <3>2
    <3> HIDE DEF f, Folds
    <3> QED
      BY <3>3
  <2>2. ASSUME NEW n \in Nat, n \in T
        PROVE  n + 1 \in T
    <3>1. PICK f : Folds(f, n)
      BY <2>2
    <3> DEFINE g == [s \in SUBSET (1..(n + 1)) |-> Step(f, s)]
    <3>2. \A s \in SUBSET (1..n) : g[s] = f[s]
      <4>1. SUBSET (1..n) \subseteq SUBSET (1..(n + 1))
        OBVIOUS
      <4> QED
        BY <3>1, <4>1
    <3>3. ASSUME NEW s \in SUBSET (1..(n + 1))
          PROVE  Step(f, s) = Step(g, s)
      <4>1. s \ {Max(s)} \in SUBSET (1..n)
        BY GreatestIndex
      <4>2. f[s \ {Max(s)}] = g[s \ {Max(s)}]
        BY <3>2, <4>1
      <4> HIDE DEF g
      <4> QED
        BY <1>2, <4>2
    <3>4. Folds(g, n + 1)
      BY <3>3
    <3> HIDE DEF g, Folds
    <3> QED
      BY <3>4
  <2> HIDE DEF T
  <2>3. Nat \subseteq T
    BY <2>1, <2>2, NatSetInduction
  <2>4. Len(all) \in T
    BY <1>0, <2>3
  <2> QED
    BY <2>4 DEF T
<1>5. Folds(fold, Len(all))
  BY <1>4
<1> HIDE DEF fold
<1> DEFINE run == [k \in 0..Len(all) |-> fold[1..k]]
<1>6. run[0] = boot
  <2>1. 1..0 = {} /\ 1..0 \in SUBSET (1..Len(all))
    OBVIOUS
  <2>2. fold[1..0] = Step(fold, 1..0)
    BY <1>5, <2>1
  <2>3. Step(fold, 1..0) = boot
    BY <1>3, <2>1
  <2> QED
    BY <1>0, <2>2, <2>3
<1>7. ASSUME NEW k \in 1..Len(all)
      PROVE  run[k] = Apply(run[k - 1], all[k])
  <2>0. k - 1 \in Nat /\ (k - 1) + 1 = k
    BY <1>0
  <2>1. 1..k \in SUBSET (1..Len(all)) /\ 1..k # {}
    <3>1. 1 \in 1..k /\ \A j \in 1..k : j \in 1..Len(all)
      BY <1>0
    <3> QED
      BY <3>1
  <2>2. 1..k \ {Max(1..k)} = 1..(k - 1) /\ Max(1..k) = k
    BY <2>0, GreatestIndex
  <2>3. fold[1..k] = Step(fold, 1..k)
    BY <1>5, <2>1
  <2>4. Step(fold, 1..k) = Apply(fold[1..(k - 1)], all[k])
    BY <1>3, <2>1, <2>2
  <2>5. run[k] = fold[1..k] /\ run[k - 1] = fold[1..(k - 1)]
    BY <1>0, <2>0
  <2> QED
    BY <2>3, <2>4, <2>5
<1>8. run[Len(all)] = fold[1..Len(all)]
  BY <1>0
<1> HIDE DEF run
<1> QED
  BY <1>1, <1>6, <1>7, <1>8

\* Day 0 leaves a whole config, with the address of the management interface.
LEMMA BootedIsConfig ==
    ASSUME NEW p \in Payloads
    PROVE  /\ IsConfig(Booted(Parse(p)))
           /\ Booted(Parse(p)).address[Mgmt] = Meant(p.primary)
<1>1. Parse(p).primary = p.primary
  BY DEF Parse
<1>2. IpToIos(p.primary) = Meant(p.primary)
  BY PrimaryExact
<1>3. IsConfig(Booted(Parse(p)))
  BY DEF Booted, IsConfig
<1>4. Booted(Parse(p)).address[Mgmt] = IpToIos(p.primary)
  BY <1>1, DataPathAssumption DEF Booted
<1> QED
  BY <1>2, <1>3, <1>4

\* A line of a push leaves a whole config whole, and the address of the
\* management interface alone unless the payload names it.
LEMMA LineOnBooted ==
    ASSUME NEW p \in Payloads, NEW a \in Said(p), Accepts(a),
           NEW c, IsConfig(c), c.address[Mgmt] = Meant(p.primary) \/ NamesMgmt(p)
    PROVE  LET d == Apply(c, a)
           IN  IsConfig(d) /\ (d.address[Mgmt] = Meant(p.primary)
                               \/ NamesMgmt(p))
<1>1. IsConfig(Apply(c, a)) /\ Delivered(a, c, Apply(c, a))
  BY Applied
<1>2. CASE a.do = "address" /\ a.at = Mgmt
  BY <1>1, <1>2, SaidOfMgmt
<1>3. CASE ~(a.do = "address" /\ a.at = Mgmt)
  <2>1. Apply(c, a).address[Mgmt] = c.address[Mgmt]
    BY <1>1, <1>3, DataPathAssumption DEF Delivered
  <2> QED
    BY <1>1, <2>1
<1> QED
  BY <1>2, <1>3

\* What a run for a payload leaves on the router that Day 0 booted for it.
LEMMA RunOnBooted ==
    ASSUME NEW p \in Payloads, ~Raises(Parse(p)),
           \A line \in ToSet(Render(Parse(p))) : Accepts(line)
    PROVE  LET c == FoldLeft(Apply, Booted(Parse(p)), Render(Parse(p)))
           IN  IsConfig(c) /\ (c.address[Mgmt] = Meant(p.primary)
                               \/ NamesMgmt(p))
<1> DEFINE boot == Booted(Parse(p))
           lines == Render(Parse(p))
           Whole(c) == /\ IsConfig(c)
                       /\ c.address[Mgmt] = Meant(p.primary) \/ NamesMgmt(p)
<1>1. lines \in Seq(Said(p)) /\ \A k \in DOMAIN lines : Accepts(lines[k])
  BY RenderedIsSaid DEF ToSet
<1>2. Whole(boot)
  BY BootedIsConfig
<1>3. \A c : \A a \in Said(p) :
         Accepts(a) /\ Whole(c) => Whole(Apply(c, a))
  BY LineOnBooted
<1> HIDE DEF boot, lines, Whole
<1>4. DOMAIN lines = 1..Len(lines) /\ Len(lines) \in Nat
  BY <1>1
<1>5. PICK run :
         /\ run[0] = boot
         /\ \A k \in 1..Len(lines) : run[k] = Apply(run[k - 1], lines[k])
         /\ FoldLeft(Apply, boot, lines) = run[Len(lines)]
  BY <1>1, AppliedOneByOne
<1> DEFINE T == {n \in Nat : n <= Len(lines) => Whole(run[n])}
<1>6. 0 \in T
  BY <1>2, <1>5
<1>7. ASSUME NEW n \in Nat, n \in T
      PROVE  n + 1 \in T
  <2>1. SUFFICES ASSUME n + 1 <= Len(lines)
                 PROVE  Whole(run[n + 1])
    OBVIOUS
  <2>2. n + 1 \in 1..Len(lines) /\ (n + 1) - 1 = n /\ n <= Len(lines)
    BY <1>4, <2>1
  <2>3. Whole(run[n])
    BY <1>7, <2>2
  <2>4. run[n + 1] = Apply(run[n], lines[n + 1])
    BY <1>5, <2>2
  <2>5. lines[n + 1] \in Said(p) /\ Accepts(lines[n + 1])
    BY <1>1, <1>4, <2>2
  <2> QED
    BY <1>3, <2>3, <2>4, <2>5
<1> HIDE DEF T
<1>8. Nat \subseteq T
  BY <1>6, <1>7, NatSetInduction
<1>9. Whole(run[Len(lines)])
  <2>1. Len(lines) \in T
    BY <1>4, <1>8
  <2> QED
    BY <1>4, <2>1 DEF T
<1> QED
  BY <1>5, <1>9 DEF boot, lines, Whole

\* Every config that a run may find is whole, and has the address of Day 0 on
\* the management interface unless the payload of the boot names it
\* (bootstrap_activities.py line 118).
THEOREM BootingExact ==
    ASSUME NEW p \in Payloads, NEW c \in SetUp(p)
    PROVE  /\ IsConfig(c)
           /\ c.address[Mgmt] = Meant(p.primary) \/ NamesMgmt(p)
<1>1. CASE c = Booted(Parse(p))
  BY <1>1, BootedIsConfig
<1>2. CASE /\ ~Raises(Parse(p))
           /\ \A line \in ToSet(Render(Parse(p))) : Accepts(line)
           /\ c = FoldLeft(Apply, Booted(Parse(p)), Render(Parse(p)))
  BY <1>2, RunOnBooted
<1> QED
  BY <1>1, <1>2 DEF SetUp

=============================================================================

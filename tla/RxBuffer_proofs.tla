-------------------------- MODULE RxBuffer_proofs ---------------------------
(***************************************************************************)
(* The RX buffer, for every memory size and every set of frame lengths:    *)
(* what the software sees of it is exact in every cycle, and it is a FIFO  *)
(* of whole frames.  Error frames are not logged (MODE.ERFM is 0).         *)
(***************************************************************************)
EXTENDS RxBuffer, FiniteSetTheorems, SequenceTheorems, TLAPS

-----------------------------------------------------------------------------
(* Addresses wrap around the memory.                                        *)

\* Division with remainder by a positive number.
LEMMA DivMod ==
  ASSUME NEW d \in Nat \ {0}, NEW x \in Int
  PROVE  x % d \in 0..(d - 1) /\ x \div d \in Int /\ x = d * (x \div d) + (x % d)
  BY SMT

\* A product is at least as far from zero as a factor.
LEMMA Multiple ==
  ASSUME NEW d \in Nat \ {0}, NEW k \in Int
  PROVE  /\ k >= 1 => d * k >= d
         /\ k >= 2 => d * k >= 2 * d
         /\ k <= -1 => d * k <= -d
         /\ d * 0 = 0 /\ d * 1 = d
<1>1. k >= 1 => d * k >= d
  BY SMT
<1>2. k >= 2 => d * k >= 2 * d
  BY SMT
<1>3. k <= -1 => d * k <= -d
  BY SMT
<1> QED
  BY <1>1, <1>2, <1>3, SMT

\* The address k words after a.
At(a, k) == IF a + k < Size THEN a + k ELSE (a + k) - Size

\* The modulo of the model wraps at most once.
LEMMA AtMod ==
  ASSUME NEW a \in Addrs, NEW k \in 0..Size
  PROVE  (a + k) % Size = At(a, k) /\ At(a, k) \in Addrs
<1> DEFINE x == a + k
           q == x \div Size
           r == x % Size
<1>1. Size \in Nat \ {0} /\ a \in 0..(Size - 1) /\ x \in Int /\ 0 <= x /\ x < 2 * Size
  BY RxBufferAssumption DEF Addrs
<1>2. r \in 0..(Size - 1) /\ q \in Int /\ x = Size * q + r
  BY <1>1, DivMod, Zenon
<1>3. /\ q >= 2 => Size * q >= 2 * Size
      /\ q <= -1 => Size * q <= -Size
      /\ Size * 0 = 0 /\ Size * 1 = Size
  BY <1>1, <1>2, Multiple, Zenon
<1> HIDE DEF x, q, r
<1>4. q \in {0, 1}
  <2>1. Size * q \in Int
    BY <1>1, <1>2
  <2> DEFINE m == Size * q
  <2> HIDE DEF m
  <2>2. m \in Int /\ x = m + r /\ (q >= 2 => m >= 2 * Size) /\ (q <= -1 => m <= -Size)
    BY <2>1, <1>2, <1>3, Zenon DEF m
  <2> QED
    BY <2>2, <1>1, <1>2
<1>5. (q = 0 => x = r) /\ (q = 1 => x = Size + r)
  BY <1>2, <1>3, <1>1
<1>6. r = (IF x < Size THEN x ELSE x - Size)
  BY <1>1, <1>2, <1>4, <1>5
<1> QED
  BY <1>6, <1>1, <1>2, Zenon DEF x, r, At, Addrs

-----------------------------------------------------------------------------
(* Sequences of words that are frames one after the other                   *)

\* The parts of a word are numbers.
LEMMA WordParts ==
  ASSUME NEW w \in Words
  PROVE  w[2] \in 0..Size /\ w[3] \in 0..(Size - 1) /\ w[3] \in Counts \cup {0, 3}
<1>1. PICK f \in Frames, k \in 0..Size, n \in Counts \cup {0, 3} : w = <<f, k, n>>
  BY DEF Words
<1>2. w[2] = k /\ w[3] = n
  BY <1>1, Zenon
<1>3. 4 <= Size
  BY RxBufferAssumption
<1> QED
  BY <1>2, <1>3, RxBufferAssumption

\* v begins with the last c words of a frame; the others are whole frames.
Framed(v, c) ==
  /\ c \in 0..Len(v)
  /\ \A i \in 1..c : v[i][2] # 0
  /\ c < Len(v) => v[c + 1][2] = 0
  /\ \A i \in 1..Len(v) : v[i][2] = 0 =>
       /\ v[i][3] >= 3 /\ i + v[i][3] <= Len(v)
       /\ \A j \in 1..v[i][3] : v[i + j][2] # 0
       /\ i + v[i][3] < Len(v) => v[i + v[i][3] + 1][2] = 0

Starts(v) == {i \in 1..Len(v) : v[i][2] = 0}

\* What is left of the frame once another word has been read.
AfterWord(v, c) == IF c > 0 THEN c - 1 ELSE v[1][3]

\* Reading a word leaves frames.
LEMMA FramedTail ==
  ASSUME NEW v \in Seq(Words), NEW c, Framed(v, c), v # <<>>
  PROVE  Framed(Tail(v), AfterWord(v, c))
<1> DEFINE w == Tail(v)
           d == AfterWord(v, c)
<1>1. /\ w \in Seq(Words) /\ Len(w) = Len(v) - 1 /\ Len(v) \in Nat /\ Len(v) > 0
      /\ \A i \in 1..Len(w) : w[i] = v[i + 1]
  BY HeadTailProperties, EmptySeq, LenProperties
<1>2. \A i \in 1..Len(v) : v[i] \in Words /\ v[i][2] \in 0..Size /\ v[i][3] \in 0..(Size - 1)
  BY ElementOfSeq, WordParts, Zenon
<1>3. c \in 0..Len(v) /\ Size \in Nat
  BY RxBufferAssumption, Zenon DEF Framed
<1> HIDE DEF w
<1>4. d \in 0..Len(w)
  <2>1. CASE c > 0
    BY <2>1, <1>1, <1>3 DEF AfterWord
  <2>2. CASE c = 0
    <3>1. v[1][2] = 0 /\ v[1][3] \in Nat
      BY <2>2, <1>1, <1>2 DEF Framed
    <3>2. 1 + v[1][3] <= Len(v)
      BY <3>1, <1>1 DEF Framed
    <3> QED
      BY <3>1, <3>2, <2>2, <1>1 DEF AfterWord
  <2> QED
    BY <2>1, <2>2, <1>3
<1>5. ASSUME NEW i \in 1..d PROVE w[i][2] # 0
  <2>1. i \in 1..Len(w) /\ w[i] = v[i + 1]
    BY <1>4, <1>1
  <2>2. CASE c > 0
    BY <2>1, <2>2, <1>1, <1>3 DEF AfterWord, Framed
  <2>3. CASE c = 0
    <3>1. v[1][2] = 0 /\ v[1][3] \in Nat /\ i \in 1..v[1][3]
      BY <2>3, <1>1, <1>2 DEF Framed, AfterWord
    <3> QED
      BY <3>1, <2>1, <1>1 DEF Framed
  <2> QED
    BY <2>2, <2>3, <1>3
<1>6. ASSUME d < Len(w) PROVE w[d + 1][2] = 0
  <2>1. d + 1 \in 1..Len(w) /\ w[d + 1] = v[d + 2]
    BY <1>4, <1>1, <1>6
  <2>2. CASE c > 0
    BY <2>1, <2>2, <1>1, <1>3, <1>6 DEF AfterWord, Framed
  <2>3. CASE c = 0
    <3>1. v[1][2] = 0 /\ v[1][3] \in Nat /\ d = v[1][3]
      BY <2>3, <1>1, <1>2 DEF Framed, AfterWord
    <3>2. 1 + v[1][3] < Len(v) => v[1 + v[1][3] + 1][2] = 0
      BY <3>1, <1>1 DEF Framed
    <3>3. 1 + d < Len(v) /\ 1 + d + 1 = d + 2
      BY <1>6, <1>1, <1>4
    <3> QED
      BY <3>1, <3>2, <3>3, <2>1, Zenon
  <2> QED
    BY <2>2, <2>3, <1>3
<1>7. ASSUME NEW i \in 1..Len(w), w[i][2] = 0
      PROVE  /\ w[i][3] >= 3 /\ i + w[i][3] <= Len(w)
             /\ \A j \in 1..w[i][3] : w[i + j][2] # 0
             /\ i + w[i][3] < Len(w) => w[i + w[i][3] + 1][2] = 0
  <2> DEFINE n == w[i][3]
  <2>1. i + 1 \in 1..Len(v) /\ w[i] = v[i + 1] /\ v[i + 1][2] = 0 /\ n = v[i + 1][3] /\ n \in Nat
    <3>1. i + 1 \in 1..Len(v) /\ w[i] = v[i + 1]
      BY <1>1
    <3>2. v[i + 1][3] \in Nat
      BY <3>1, <1>2, <1>3
    <3> QED
      BY <3>1, <3>2, <1>7, Zenon
  <2> HIDE DEF n
  <2>2. /\ n >= 3 /\ i + 1 + n <= Len(v)
        /\ \A j \in 1..n : v[i + 1 + j][2] # 0
        /\ i + 1 + n < Len(v) => v[i + 1 + n + 1][2] = 0
    BY <2>1, Zenon DEF Framed
  <2>3. ASSUME NEW j \in 1..n PROVE w[i + j][2] # 0
    <3>1. i + j \in 1..Len(w) /\ (i + j) + 1 = i + 1 + j
      BY <2>1, <2>2, <1>1
    <3> QED
      BY <3>1, <2>2, <1>1, Zenon
  <2>4. ASSUME i + n < Len(w) PROVE w[i + n + 1][2] = 0
    <3> DEFINE l == Len(v)
    <3>0. l \in Nat /\ Len(w) = l - 1 /\ n \in Nat /\ i \in Nat /\ i >= 1
      BY <2>1, <1>1
    <3> HIDE DEF l
    <3>1. i + n + 1 \in 1..Len(w) /\ (i + n + 1) + 1 = i + 1 + n + 1 /\ i + 1 + n < l
      BY <3>0, <2>4
    <3> QED
      BY <3>1, <2>2, <1>1, Zenon DEF l
  <2>5. i + n <= Len(w)
    BY <2>1, <2>2, <1>1
  <2> QED
    BY <2>2, <2>3, <2>4, <2>5, Zenon DEF n
<1> HIDE DEF d
<1> QED
  BY <1>4, <1>5, <1>6, <1>7, Zenon DEF Framed, w, d

\* A function on 1..n is a sequence.
LEMMA FunctionIsSeq ==
  ASSUME NEW S, NEW n \in Nat, NEW g \in [1..n -> S]
  PROVE  g \in Seq(S) /\ Len(g) = n
  OBVIOUS

\* A whole frame is a sequence of words, of which only the first is a frame format word.
LEMMA WholeWords ==
  ASSUME NEW f \in Frames, NEW n \in Counts \cup {3}
  PROVE  LET w == Fifo!Whole(f, n) IN
         /\ w \in Seq(Words) /\ Len(w) = n + 1 /\ n \in 3..(Size - 1)
         /\ w[1] = <<f, 0, n>> /\ w[1][2] = 0 /\ w[1][3] = n
         /\ \A i \in 2..(n + 1) : w[i] = <<f, i - 1, 0>> /\ w[i][2] = i - 1
<1> DEFINE w == Fifo!Whole(f, n)
<1>1. n \in 3..(Size - 1) /\ Size \in Nat
  BY RxBufferAssumption
<1>2. <<f, 0, n>> \in Words /\ \A i \in 2..(n + 1) : <<f, i - 1, 0>> \in Words
  <2>1. 0 \in 0..Size /\ \A i \in 2..(n + 1) : i - 1 \in 0..Size
    BY <1>1
  <2>2. n \in Counts \cup {0, 3} /\ 0 \in Counts \cup {0, 3}
    BY Zenon
  <2> QED
    BY <2>1, <2>2, Zenon DEF Words
<1>3. w = [i \in 1..(n + 1) |-> IF i = 1 THEN <<f, 0, n>> ELSE <<f, i - 1, 0>>]
  BY Zenon DEF Fifo!Whole
<1> HIDE DEF w
<1>4. w \in [1..(n + 1) -> Words]
  <2>1. ASSUME NEW i \in 1..(n + 1) PROVE (IF i = 1 THEN <<f, 0, n>> ELSE <<f, i - 1, 0>>) \in Words
    <3>1. i = 1 \/ i \in 2..(n + 1)
      BY <1>1
    <3> QED
      BY <3>1, <1>2, Zenon
  <2> QED
    BY <1>3, <2>1, Zenon
<1>5. w \in Seq(Words) /\ Len(w) = n + 1
  <2>1. n + 1 \in Nat
    BY <1>1
  <2> QED
    BY <2>1, <1>4, FunctionIsSeq, Zenon
<1>6. w[1] = <<f, 0, n>> /\ w[1][2] = 0 /\ w[1][3] = n
  BY <1>1, <1>3
<1>7. ASSUME NEW i \in 2..(n + 1) PROVE w[i] = <<f, i - 1, 0>> /\ w[i][2] = i - 1
  <2>1. i \in 1..(n + 1) /\ i # 1
    BY <1>1
  <2> QED
    BY <2>1, <1>3, Zenon
<1> QED
  BY <1>1, <1>5, <1>6, <1>7, Zenon DEF w

\* Committing a frame leaves frames.
LEMMA FramedAppend ==
  ASSUME NEW v \in Seq(Words), NEW c, Framed(v, c), NEW f \in Frames, NEW n \in Counts \cup {3}
  PROVE  Framed(v \o Fifo!Whole(f, n), c)
<1> DEFINE w == Fifo!Whole(f, n)
           u == v \o w
           l == Len(v)
<1>1. /\ w \in Seq(Words) /\ Len(w) = n + 1 /\ n \in 3..(Size - 1) /\ n \in Nat
      /\ w[1][2] = 0 /\ w[1][3] = n
      /\ \A i \in 2..(n + 1) : w[i][2] # 0
  <2>1. /\ w \in Seq(Words) /\ Len(w) = n + 1 /\ n \in 3..(Size - 1)
        /\ w[1][2] = 0 /\ w[1][3] = n
        /\ \A i \in 2..(n + 1) : w[i][2] = i - 1
    BY WholeWords
  <2> HIDE DEF w
  <2>2. n \in Nat
    BY <2>1
  <2> QED
    BY <2>1, <2>2
<1> HIDE DEF w
<1>2. /\ u \in Seq(Words) /\ l \in Nat /\ Len(u) = l + n + 1
      /\ \A i \in 1..(l + n + 1) : u[i] = IF i <= l THEN v[i] ELSE w[i - l]
  <2>1. /\ u \in Seq(Words) /\ Len(u) = Len(v) + Len(w)
        /\ \A i \in 1..(Len(v) + Len(w)) : u[i] = IF i <= Len(v) THEN v[i] ELSE w[i - Len(v)]
    BY <1>1, ConcatProperties, ZenonT(60)
  <2>2. l \in Nat /\ Len(v) + Len(w) = l + n + 1
    BY <1>1, LenProperties
  <2> QED
    BY <2>1, <2>2, Zenon
<1>3. \A i \in 1..l : v[i][2] \in 0..Size /\ v[i][3] \in Nat
  <2>1. \A i \in 1..l : v[i][2] \in 0..Size /\ v[i][3] \in 0..(Size - 1)
    BY ElementOfSeq, WordParts, Zenon
  <2> QED
    BY <2>1, RxBufferAssumption
<1>4. /\ c \in 0..l
      /\ \A i \in 1..c : v[i][2] # 0
      /\ c < l => v[c + 1][2] = 0
      /\ \A i \in 1..l : v[i][2] = 0 =>
           /\ v[i][3] >= 3 /\ i + v[i][3] <= l
           /\ \A j \in 1..v[i][3] : v[i + j][2] # 0
           /\ i + v[i][3] < l => v[i + v[i][3] + 1][2] = 0
  BY Zenon DEF Framed
<1> HIDE DEF l, u
<1>5. \A i \in 1..l : u[i] = v[i]
  <2>1. \A i \in 1..l : i \in 1..(l + n + 1) /\ i <= l
    BY <1>1, <1>2
  <2> QED
    BY <2>1, <1>2, Zenon
<1>6. u[l + 1] = w[1] /\ \A j \in 1..n : u[l + 1 + j] = w[j + 1]
  <2>1. u[l + 1] = w[1]
    BY <1>1, <1>2
  <2>2. ASSUME NEW j \in 1..n PROVE u[l + 1 + j] = w[j + 1]
    <3>1. l + 1 + j \in 1..(l + n + 1) /\ ~(l + 1 + j <= l) /\ (l + 1 + j) - l = j + 1
      BY <1>1, <1>2
    <3> QED
      BY <3>1, <1>2, Zenon
  <2> QED
    BY <2>1, <2>2, Zenon
<1>7. c \in 0..Len(u) /\ \A i \in 1..c : u[i][2] # 0
  <2>1. c \in 0..Len(u) /\ \A i \in 1..c : i \in 1..l
    BY <1>1, <1>2, <1>4
  <2> QED
    BY <2>1, <1>4, <1>5, Zenon
<1>8. u[c + 1][2] = 0
  <2>1. CASE c < l
    <3>1. c + 1 \in 1..l
      BY <2>1, <1>4, <1>2
    <3> QED
      BY <3>1, <2>1, <1>4, <1>5, Zenon
  <2>2. CASE c = l
    BY <2>2, <1>6, <1>1, Zenon
  <2> QED
    BY <2>1, <2>2, <1>4, <1>2
<1>9. ASSUME NEW i \in 1..Len(u), u[i][2] = 0
      PROVE  /\ u[i][3] >= 3 /\ i + u[i][3] <= Len(u)
             /\ \A j \in 1..u[i][3] : u[i + j][2] # 0
             /\ i + u[i][3] < Len(u) => u[i + u[i][3] + 1][2] = 0
  <2>1. CASE i \in 1..l
    <3> DEFINE m == v[i][3]
    <3>1. /\ m \in Nat /\ m >= 3 /\ i + m <= l /\ u[i] = v[i]
          /\ \A j \in 1..m : v[i + j][2] # 0
          /\ i + m < l => v[i + m + 1][2] = 0
      BY <2>1, <1>9, <1>3, <1>4, <1>5, Zenon
    <3> HIDE DEF m
    <3>2. ASSUME NEW j \in 1..m PROVE u[i + j][2] # 0
      <4>1. i + j \in 1..l
        BY <3>1, <2>1, <1>2
      <4> QED
        BY <4>1, <3>1, <1>5, Zenon
    <3>3. u[i + m + 1][2] = 0
      <4>1. CASE i + m < l
        <5>1. i + m + 1 \in 1..l
          BY <4>1, <3>1, <2>1, <1>2
        <5> QED
          BY <5>1, <4>1, <3>1, <1>5, Zenon
      <4>2. CASE i + m = l
        BY <4>2, <1>6, <1>1, Zenon
      <4> QED
        BY <4>1, <4>2, <3>1, <2>1, <1>2
    <3>4. i + m <= Len(u)
      BY <3>1, <2>1, <1>1, <1>2
    <3>5. u[i][3] = m
      BY <3>1, Zenon DEF m
    <3> QED
      BY <3>1, <3>2, <3>3, <3>4, <3>5, Zenon
  <2>2. CASE i = l + 1
    <3>1. u[i][3] = n /\ i + n = Len(u) /\ n >= 3
      BY <2>2, <1>1, <1>2, <1>6
    <3>2. ASSUME NEW j \in 1..n PROVE u[i + j][2] # 0
      <4>1. u[l + 1 + j] = w[j + 1] /\ j + 1 \in 2..(n + 1)
        BY <1>1, <1>6
      <4> QED
        BY <4>1, <2>2, <1>1, Zenon
    <3>3. ~(i + n < Len(u)) /\ i + n <= Len(u)
      BY <3>1, <1>1, <1>2
    <3> QED
      BY <3>1, <3>2, <3>3, Zenon
  <2>3. CASE i > l + 1
    <3> DEFINE j == i - (l + 1)
    <3>1. j \in 1..n /\ l + 1 + j = i /\ j + 1 \in 2..(n + 1)
      BY <2>3, <1>1, <1>2
    <3> HIDE DEF j
    <3>2. u[i] = w[j + 1]
      BY <3>1, <1>6, Zenon
    <3> QED
      BY <3>1, <3>2, <1>1, <1>9, Zenon
  <2> QED
    BY <2>1, <2>2, <2>3, <1>2
<1> QED
  BY <1>7, <1>8, <1>9, Zenon DEF Framed, u, w

\* Shifting a set of numbers does not change how many they are.
LEMMA ShiftCount ==
  ASSUME NEW S \in SUBSET Nat, IsFiniteSet(S)
  PROVE  LET T == {i - 1 : i \in S} IN IsFiniteSet(T) /\ Cardinality(T) = Cardinality(S)
<1> DEFINE T == {i - 1 : i \in S}
           g == [i \in S |-> i - 1]
<1>1. g \in [S -> T]
  BY Zenon
<1>2. \A a, b \in S : g[a] = g[b] => a = b
  OBVIOUS
<1>3. \A t \in T : \E i \in S : g[i] = t
  BY Zenon
<1> HIDE DEF g, T
<1>4. g \in Bijection(S, T)
  <2>1. DOMAIN g = S
    BY <1>1, Zenon
  <2>2. g \in Injection(S, T)
    BY <1>1, <1>2, <2>1, Zenon DEF Injection, IsInjective
  <2>3. g \in Surjection(S, T)
    BY <1>1, <1>3, Zenon DEF Surjection
  <2> QED
    BY <2>2, <2>3, Zenon DEF Bijection
<1>5. ExistsBijection(S, T)
  BY <1>4, Zenon DEF ExistsBijection
<1>6. IsFiniteSet(T) /\ Cardinality(T) = Cardinality(S)
  BY <1>5, FS_Bijection, Zenon
<1> QED
  BY <1>6, Zenon DEF T

\* The frame format words of a sequence are finitely many.
LEMMA StartsFinite ==
  ASSUME NEW v \in Seq(Words)
  PROVE  /\ Len(v) \in Nat /\ Starts(v) \in SUBSET (1..Len(v))
         /\ IsFiniteSet(Starts(v)) /\ Cardinality(Starts(v)) \in Nat
<1>1. Len(v) \in Nat /\ Starts(v) \in SUBSET (1..Len(v))
  BY LenProperties, Zenon DEF Starts
<1>2. IsFiniteSet(1..Len(v))
  BY <1>1, FS_Interval
<1>3. IsFiniteSet(Starts(v))
  BY <1>1, <1>2, FS_Subset, Zenon
<1> QED
  BY <1>1, <1>3, FS_CardinalityType, Zenon

\* Reading a word takes a frame format word away exactly when no frame is begun.
LEMMA CountTail ==
  ASSUME NEW v \in Seq(Words), NEW c, Framed(v, c), v # <<>>
  PROVE  Cardinality(Starts(Tail(v))) =
           IF c = 0 THEN Cardinality(Starts(v)) - 1 ELSE Cardinality(Starts(v))
<1> DEFINE w == Tail(v)
           S == Starts(v) \ {1}
<1>1. /\ Len(w) = Len(v) - 1 /\ Len(v) \in Nat /\ Len(v) > 0
      /\ \A i \in 1..Len(w) : w[i] = v[i + 1]
  BY HeadTailProperties, EmptySeq, LenProperties
<1>2. S \in SUBSET Nat /\ IsFiniteSet(S)
      /\ Cardinality(S) = IF 1 \in Starts(v) THEN Cardinality(Starts(v)) - 1 ELSE Cardinality(Starts(v))
  <2>1. IsFiniteSet(Starts(v)) /\ Starts(v) \in SUBSET (1..Len(v))
    BY StartsFinite, Zenon
  <2>2. /\ IsFiniteSet(Starts(v) \ {1})
        /\ Cardinality(Starts(v) \ {1}) =
             IF 1 \in Starts(v) THEN Cardinality(Starts(v)) - 1 ELSE Cardinality(Starts(v))
    BY <2>1, FS_RemoveElement, Zenon
  <2>3. Starts(v) \in SUBSET Nat
    BY <2>1, <1>1
  <2> QED
    BY <2>2, <2>3, Zenon
<1>3. c \in 0..Len(v) /\ (1 \in Starts(v) <=> c = 0)
  <2>1. c \in 0..Len(v)
    BY Zenon DEF Framed
  <2>2. c = 0 => v[1][2] = 0
    BY <1>1 DEF Framed
  <2>3. c > 0 => v[1][2] # 0
    BY <2>1, <1>1 DEF Framed
  <2>4. 1 \in Starts(v) <=> v[1][2] = 0
    BY <1>1 DEF Starts
  <2> QED
    BY <2>1, <2>2, <2>3, <2>4, <1>1
<1> HIDE DEF w
<1>4. Starts(w) = {i - 1 : i \in S}
  <2>1. ASSUME NEW i \in Starts(w) PROVE i \in {k - 1 : k \in S}
    <3>1. i \in 1..Len(w) /\ v[i + 1][2] = 0
      BY <1>1, Zenon DEF Starts
    <3>2. i + 1 \in Starts(v) /\ i + 1 # 1 /\ i = (i + 1) - 1
      BY <3>1, <1>1 DEF Starts
    <3> QED
      BY <3>2, Zenon
  <2>2. ASSUME NEW i \in S PROVE i - 1 \in Starts(w)
    <3>1. i \in 1..Len(v) /\ i # 1 /\ v[i][2] = 0
      BY Zenon DEF Starts
    <3>2. i - 1 \in 1..Len(w) /\ (i - 1) + 1 = i
      BY <3>1, <1>1
    <3> QED
      BY <3>1, <3>2, <1>1, Zenon DEF Starts
  <2> QED
    BY <2>1, <2>2, Zenon
<1>5. Cardinality(Starts(w)) = Cardinality(S)
  BY <1>2, <1>4, ShiftCount, Zenon
<1> QED
  BY <1>2, <1>3, <1>5, Zenon DEF w

\* Committing a frame adds one frame format word.
LEMMA CountAppend ==
  ASSUME NEW v \in Seq(Words), NEW f \in Frames, NEW n \in Counts \cup {3}
  PROVE  Cardinality(Starts(v \o Fifo!Whole(f, n))) = Cardinality(Starts(v)) + 1
<1> DEFINE w == Fifo!Whole(f, n)
           u == v \o w
           l == Len(v)
<1>1. /\ w \in Seq(Words) /\ Len(w) = n + 1 /\ n \in 3..(Size - 1)
      /\ w[1][2] = 0
      /\ \A i \in 2..(n + 1) : w[i][2] = i - 1
  BY WholeWords
<1> HIDE DEF w
<1>2. n \in Nat /\ \A i \in 1..(n + 1) : w[i][2] = 0 <=> i = 1
  BY <1>1
<1>3. /\ u \in Seq(Words) /\ Len(u) = Len(v) + Len(w)
      /\ \A i \in 1..(Len(v) + Len(w)) : u[i] = IF i <= Len(v) THEN v[i] ELSE w[i - Len(v)]
  BY <1>1, ConcatProperties, Zenon
<1>4. l \in Nat /\ Len(u) = l + n + 1
  BY <1>1, <1>2, <1>3, LenProperties
<1> HIDE DEF u
<1>5. \A i \in 1..l : u[i] = v[i]
  BY <1>1, <1>2, <1>3, <1>4
<1>6. \A i \in (l + 1)..(l + n + 1) : u[i][2] = 0 <=> i = l + 1
  <2> TAKE i \in (l + 1)..(l + n + 1)
  <2>1. i \in 1..(Len(v) + Len(w)) /\ ~(i <= Len(v)) /\ i - l \in 1..(n + 1) /\ (i - l = 1 <=> i = l + 1)
    BY <1>1, <1>2, <1>3, <1>4
  <2>2. u[i] = w[i - l]
    BY <2>1, <1>3, Zenon
  <2> QED
    BY <2>1, <2>2, <1>2, Zenon
<1>7. Starts(u) = Starts(v) \cup {l + 1}
  <2>1. ASSUME NEW i \in Starts(u) PROVE i \in Starts(v) \cup {l + 1}
    <3>1. i \in 1..(l + n + 1) /\ u[i][2] = 0
      BY <1>4, Zenon DEF Starts
    <3>2. i \in 1..l \/ i \in (l + 1)..(l + n + 1)
      BY <3>1, <1>2, <1>4
    <3> QED
      BY <3>1, <3>2, <1>5, <1>6, Zenon DEF Starts
  <2>2. ASSUME NEW i \in Starts(v) PROVE i \in Starts(u)
    <3>1. i \in 1..l /\ v[i][2] = 0 /\ i \in 1..Len(u)
      BY <1>2, <1>4 DEF Starts
    <3> QED
      BY <3>1, <1>5, Zenon DEF Starts
  <2>3. l + 1 \in Starts(u)
    <3>1. l + 1 \in 1..Len(u) /\ l + 1 \in (l + 1)..(l + n + 1)
      BY <1>2, <1>4
    <3> QED
      BY <3>1, <1>6, Zenon DEF Starts
  <2> QED
    BY <2>1, <2>2, <2>3, Zenon
<1>8. l + 1 \notin Starts(v)
  BY <1>4 DEF Starts
<1> QED
  BY <1>7, <1>8, StartsFinite, FS_AddElement, Zenon DEF u, w

\* Frames have at least four words, so that there are few of them.
LEMMA FewFrames ==
  ASSUME NEW v \in Seq(Words), NEW c, Framed(v, c)
  PROVE  4 * Cardinality(Starts(v)) <= Len(v) - c /\ c \in Nat
<1> DEFINE S == Starts(v)
           D == 0..3
           T == (c + 1)..Len(v)
           g == [p \in S \X D |-> p[1] + p[2]]
<1>1. Len(v) \in Nat /\ S \in SUBSET (1..Len(v)) /\ IsFiniteSet(S) /\ Cardinality(S) \in Nat
  BY StartsFinite, Zenon
<1>2. c \in 0..Len(v) /\ \A i \in S : ~(i \in 1..c)
  BY Zenon DEF Framed, Starts
<1>3. \A i \in 1..Len(v) : v[i][2] \in 0..Size /\ v[i][3] \in 0..(Size - 1)
  BY ElementOfSeq, WordParts, Zenon
<1>4. ASSUME NEW i \in S PROVE c < i /\ i + 3 <= Len(v) /\ \A j \in 1..3 : i + j \notin S
  <2>1. i \in 1..Len(v) /\ v[i][2] = 0 /\ v[i][3] \in Nat /\ v[i][3] >= 3
    BY <1>3, RxBufferAssumption DEF Starts, Framed
  <2>2. i + v[i][3] <= Len(v) /\ \A j \in 1..v[i][3] : v[i + j][2] # 0
    BY <2>1, Zenon DEF Framed
  <2>3. c < i
    BY <2>1, <1>1, <1>2
  <2>4. \A j \in 1..3 : v[i + j][2] # 0
    BY <2>1, <2>2
  <2>5. i + 3 <= Len(v)
    BY <2>1, <2>2, <1>1
  <2> QED
    BY <2>3, <2>4, <2>5, Zenon DEF Starts
<1> HIDE DEF S
<1>5. g \in [S \X D -> T]
  <2>1. ASSUME NEW p \in S \X D PROVE p[1] + p[2] \in T
    <3>1. p[1] \in S /\ p[2] \in D
      BY Zenon
    <3>2. p[1] \in 1..Len(v) /\ c < p[1] /\ p[1] + 3 <= Len(v)
      BY <3>1, <1>1, <1>4, Zenon
    <3> QED
      BY <3>1, <3>2, <1>1, <1>2
  <2> QED
    BY <2>1, Zenon
<1>6. ASSUME NEW a \in S \X D, NEW b \in S \X D, g[a] = g[b] PROVE a = b
  <2>1. /\ a[1] \in S /\ a[2] \in D /\ b[1] \in S /\ b[2] \in D
        /\ a = <<a[1], a[2]>> /\ b = <<b[1], b[2]>>
    OBVIOUS
  <2>2. a[1] + a[2] = b[1] + b[2]
    BY <1>6, Zenon
  <2>3. a[1] \in Nat /\ b[1] \in Nat
    <3>1. a[1] \in 1..Len(v) /\ b[1] \in 1..Len(v)
      BY <2>1, <1>1, Zenon
    <3> QED
      BY <3>1, <1>1
  <2>4. ~(a[1] < b[1])
    <3> SUFFICES ASSUME a[1] < b[1] PROVE FALSE
      BY Zenon
    <3>1. b[1] - a[1] \in 1..3 /\ a[1] + (b[1] - a[1]) = b[1]
      BY <2>1, <2>2, <2>3
    <3> QED
      BY <3>1, <2>1, <1>4, Zenon
  <2>5. ~(b[1] < a[1])
    <3> SUFFICES ASSUME b[1] < a[1] PROVE FALSE
      BY Zenon
    <3>1. a[1] - b[1] \in 1..3 /\ b[1] + (a[1] - b[1]) = a[1]
      BY <2>1, <2>2, <2>3
    <3> QED
      BY <3>1, <2>1, <1>4, Zenon
  <2>6. a[1] = b[1] /\ a[2] = b[2]
    BY <2>1, <2>2, <2>3, <2>4, <2>5
  <2> QED
    BY <2>1, <2>6, Zenon
<1>7. IsFiniteSet(D) /\ Cardinality(D) = 4
  <2>1. IsFiniteSet(0..3) /\ Cardinality(0..3) = IF 0 > 3 THEN 0 ELSE 3 - 0 + 1
    <3>1. 0 \in Int /\ 3 \in Int
      OBVIOUS
    <3> QED
      BY <3>1, FS_Interval, Zenon
  <2> QED
    BY <2>1
<1>8. IsFiniteSet(T) /\ Cardinality(T) = Len(v) - c
  <2>1. IsFiniteSet(T) /\ Cardinality(T) = IF c + 1 > Len(v) THEN 0 ELSE Len(v) - (c + 1) + 1
    <3>1. c + 1 \in Int /\ Len(v) \in Int
      BY <1>1, <1>2
    <3> QED
      BY <3>1, FS_Interval, Zenon
  <2> QED
    BY <2>1, <1>1, <1>2
<1> HIDE DEF D, T, g
<1>9. g \in Injection(S \X D, T)
  <2>1. DOMAIN g = S \X D
    BY <1>5, Zenon
  <2> QED
    BY <2>1, <1>5, <1>6, Zenon DEF Injection, IsInjective
<1>10. Cardinality(S \X D) = Cardinality(S) * Cardinality(D)
  BY <1>1, <1>7, FS_Product, Zenon
<1>11. Cardinality(S \X D) <= Cardinality(T)
  BY <1>8, <1>9, FS_Injection, Zenon
<1>12. 4 * Cardinality(S) <= Len(v) - c
  BY <1>1, <1>2, <1>7, <1>8, <1>10, <1>11
<1> QED
  BY <1>12, <1>1, <1>2 DEF S

-----------------------------------------------------------------------------
(* The inductive invariant                                                  *)

\* Words in the memory, and those of them that are not committed
Held    == Size - rx_mem_free_raw
Partial == rx_mem_free_i - rx_mem_free_raw

Types ==
  /\ curr_state \in States \ ErrStates
  /\ read_pointer \in Addrs /\ write_pointer \in Addrs
  /\ write_pointer_raw \in Addrs /\ write_pointer_ts \in Addrs
  /\ rx_mem_free_i \in 0..Size /\ rx_mem_free_raw \in 0..Size
  /\ commit_rx_frame \in BOOLEAN /\ commit_overrun_abort \in BOOLEAN
  /\ data_overrun_flg \in BOOLEAN /\ data_overrun_i \in BOOLEAN
  /\ rx_buf_res \in BOOLEAN
  /\ ram \in [Addrs -> Words] /\ data_out \in Words
  /\ frame \in Frames /\ rwcnt \in Counts \cup {3} /\ to_store \in Nat /\ to_store <= rwcnt - 3

\* The counters agree with the pointers.
Pointers ==
  /\ rx_mem_free_raw <= rx_mem_free_i
  /\ write_pointer = At(read_pointer, Used)
  /\ write_pointer_raw = At(read_pointer, Held)

\* The commit of a frame, or its abort, falls into the first cycle of idle.  A
\* release marks the frame being stored as overrun.
FsmInv ==
  /\ rx_buf_res => data_overrun_i
  /\ commit_rx_frame => curr_state = "idle" /\ ~data_overrun_i
  /\ commit_overrun_abort => curr_state = "idle" /\ data_overrun_i
  /\ curr_state \in {"frame_format", "identifier", "skip_ts_low", "skip_ts_high"} => to_store = rwcnt - 3
  /\ curr_state \in {"end_ts_low", "end_ts_high"} => to_store = 0

\* Words of a frame that are in the memory, unless it has been overrun
StoredWords ==
  IF curr_state = "identifier" THEN 1
  ELSE IF curr_state = "skip_ts_low" THEN 2
  ELSE IF curr_state = "skip_ts_high" THEN 3
  ELSE IF curr_state \in {"data", "end_ts_low", "end_ts_high"} THEN (rwcnt + 1) - to_store
  ELSE IF commit_rx_frame THEN rwcnt + 1
  ELSE 0

PartialInv ==
  /\ curr_state = "frame_format" => Partial = 0
  /\ curr_state = "idle" /\ ~commit_rx_frame /\ ~commit_overrun_abort => Partial = 0
  /\ ~data_overrun_i => Partial = StoredWords

\* The timestamp goes into the third and the fourth word.
TsInv ==
  /\ curr_state \in {"skip_ts_high", "data", "end_ts_low"} /\ ~data_overrun_i =>
       write_pointer_ts = At(write_pointer, 2)
  /\ curr_state = "end_ts_high" /\ ~data_overrun_i =>
       write_pointer_ts = At(write_pointer, 3)

\* Word k of a frame, and when the memory holds it
WordAt(f, n, k) == IF k = 0 THEN <<f, 0, n>> ELSE <<f, k, 0>>

Due(k) == /\ k = 2 => curr_state \in {"end_ts_high", "idle"}
          /\ k = 3 => curr_state = "idle"

WordsInv ==
  ~data_overrun_i =>
    \A k \in 0..(Partial - 1) :
      Due(k) => ram[At(write_pointer, k)] = WordAt(frame, rwcnt, k)

\* read_counter_q is what is left of the frame being read.
FrameInv ==
  /\ Framed(Visible, read_counter_q) /\ read_counter_q < Size
  /\ frame_count = Cardinality(Starts(Visible)) + One(read_counter_q > 0)

\* The output of the memory is up to date before the first frame is committed.
FreshInv ==
  Used > 0 \/ (~data_overrun_i /\ Partial >= 2) => data_out = ram[read_pointer]

IInv == /\ Types /\ Pointers /\ FsmInv /\ PartialInv /\ TsInv /\ WordsInv
        /\ FrameInv /\ FreshInv

-----------------------------------------------------------------------------
(* Addresses and the words the software sees                                *)

\* The memory has at least four words.
LEMMA SizeFacts ==
  Size \in Nat /\ Size >= 4 /\ Addrs = 0..(Size - 1) /\ Counts \cup {3} \subseteq 3..(Size - 1)
<1>1. Size \in Nat /\ Size >= 4
  BY RxBufferAssumption
<1> QED
  BY <1>1, RxBufferAssumption DEF Addrs

\* Steps along the memory add up, and lead to different addresses.
LEMMA AtSteps ==
  ASSUME NEW a \in Addrs
  PROVE  /\ At(a, 0) = a /\ At(a, Size) = a
         /\ \A j \in 0..Size : At(a, j) \in Addrs
         /\ \A j, k \in 0..Size : j + k <= Size => At(At(a, j), k) = At(a, j + k)
         /\ \A j, k \in 0..(Size - 1) : At(a, j) = At(a, k) => j = k
<1>1. Size \in Nat /\ Size >= 4 /\ a \in 0..(Size - 1)
  BY SizeFacts, Zenon
<1>2. At(a, 0) = a /\ At(a, Size) = a /\ \A j \in 0..Size : At(a, j) \in Addrs
  BY <1>1 DEF At, Addrs
<1>3. \A j, k \in 0..Size : j + k <= Size => At(At(a, j), k) = At(a, j + k)
  BY <1>1 DEF At
<1>4. \A j, k \in 0..(Size - 1) : At(a, j) = At(a, k) => j = k
  BY <1>1 DEF At
<1> QED
  BY <1>2, <1>3, <1>4, Zenon

\* The counters as numbers of words.
LEMMA WordCounts ==
  ASSUME Types, Pointers
  PROVE  /\ Used \in 0..Size /\ Held \in 0..Size /\ Partial \in 0..Size
         /\ Held = Used + Partial
  BY SizeFacts DEF Types, Pointers, Used, Held, Partial

\* Words read out of the memory m from address r on.
LEMMA WordsFrom ==
  ASSUME NEW r \in Addrs, NEW u \in 0..Size, NEW m \in [Addrs -> Words]
  PROVE  LET v == [i \in 1..u |-> m[((r + i) - 1) % Size]] IN
         /\ v \in Seq(Words) /\ Len(v) = u
         /\ \A i \in 1..u : v[i] = m[At(r, i - 1)]
<1> DEFINE v == [i \in 1..u |-> m[((r + i) - 1) % Size]]
<1>1. Size \in Nat /\ u \in Nat /\ r \in Nat
  BY SizeFacts
<1>2. ASSUME NEW i \in 1..u
      PROVE  ((r + i) - 1) % Size = At(r, i - 1) /\ At(r, i - 1) \in Addrs
  <2>1. i - 1 \in 0..Size /\ (r + i) - 1 = r + (i - 1)
    BY <1>1
  <2> QED
    BY <2>1, AtMod, Zenon
<1>3. v \in [1..u -> Words] /\ \A i \in 1..u : v[i] = m[At(r, i - 1)]
  BY <1>2, Zenon
<1> HIDE DEF v
<1>4. v \in Seq(Words) /\ Len(v) = u
  BY <1>1, <1>3, FunctionIsSeq, Zenon
<1> QED
  BY <1>3, <1>4, Zenon DEF v

\* The words the software has still to read.
LEMMA VisibleWords ==
  ASSUME Types, Pointers
  PROVE  /\ Visible \in Seq(Words) /\ Len(Visible) = Used
         /\ \A i \in 1..Used : Visible[i] = ram[At(read_pointer, i - 1)]
<1>1. read_pointer \in Addrs /\ ram \in [Addrs -> Words] /\ Used \in 0..Size
  BY WordCounts, Zenon DEF Types
<1> QED
  BY <1>1, WordsFrom, Zenon DEF Visible

\* There are frames exactly while there are words.
LEMMA FramesAndWords ==
  ASSUME Types, Pointers, FrameInv
  PROVE  /\ frame_count \in Nat /\ read_counter_q \in 0..Used
         /\ frame_count > 0 <=> Used > 0
<1> DEFINE v == Visible
           n == Cardinality(Starts(v))
<1>1. v \in Seq(Words) /\ Len(v) = Used /\ Used \in 0..Size /\ Used \in Nat
  BY VisibleWords, WordCounts, SizeFacts
<1>2. n \in Nat /\ IsFiniteSet(Starts(v)) /\ (n = 0 <=> Starts(v) = {})
  <2>1. n \in Nat /\ IsFiniteSet(Starts(v))
    BY <1>1, StartsFinite, Zenon
  <2>2. Cardinality(Starts(v)) = 0 <=> Starts(v) = {}
    BY <2>1, FS_EmptySet, Zenon
  <2> QED
    BY <2>1, <2>2, Zenon
<1> HIDE DEF v, n
<1>3. /\ read_counter_q \in 0..Used
      /\ Used > 0 /\ read_counter_q = 0 => v[1][2] = 0
  BY <1>1 DEF FrameInv, Framed, v
<1>4. frame_count = n + One(read_counter_q > 0)
  BY Zenon DEF FrameInv, n, v
<1>5. Used > 0 /\ read_counter_q = 0 => n > 0
  <2> SUFFICES ASSUME Used > 0, read_counter_q = 0 PROVE n > 0
    BY Zenon
  <2>1. 1 \in Starts(v)
    BY <1>1, <1>3 DEF Starts
  <2> QED
    BY <2>1, <1>2
<1>6. Used = 0 => n = 0
  BY <1>1, <1>2 DEF Starts
<1> QED
  BY <1>1, <1>2, <1>3, <1>4, <1>5, <1>6 DEF One

-----------------------------------------------------------------------------
(* One clock cycle                                                          *)

\* The states of the FSM while error frames are not logged.
LEMMA FsmStates ==
  Types => curr_state \in {"idle", "frame_format", "identifier", "skip_ts_low",
                           "skip_ts_high", "data", "end_ts_low", "end_ts_high"}
  BY Zenon DEF Types, States, ErrStates

\* In each state the core gives few commands, and the FSM writes and moves on as follows.
LEMMA FsmStep ==
  ASSUME Types, ~ERFM, NEW cmd \in Commands, Legal(cmd)
  PROVE  /\ curr_state = "idle" =>
              /\ ~WriteRawIntent(cmd)
              /\ NextState(cmd) = IF cmd = "store_metadata" THEN "frame_format" ELSE "idle"
              /\ \/ cmd \in {"none", "store_metadata"}
                 \/ cmd = "rec_abort" /\ ~commit_rx_frame /\ ~commit_overrun_abort
         /\ curr_state = "frame_format" =>
              \/ cmd = "none" /\ WriteRawIntent(cmd) /\ NextState(cmd) = "identifier"
              \/ cmd = "rec_abort" /\ ~WriteRawIntent(cmd) /\ NextState(cmd) = "idle"
         /\ curr_state = "identifier" =>
              cmd = "none" /\ WriteRawIntent(cmd) /\ NextState(cmd) = "skip_ts_low"
         /\ curr_state = "skip_ts_low" =>
              cmd = "none" /\ WriteRawIntent(cmd) /\ NextState(cmd) = "skip_ts_high"
         /\ curr_state = "skip_ts_high" =>
              cmd = "none" /\ WriteRawIntent(cmd) /\ NextState(cmd) = "data"
         /\ curr_state = "data" =>
              \/ cmd = "none" /\ ~WriteRawIntent(cmd) /\ NextState(cmd) = "data"
              \/ cmd = "store_data" /\ to_store > 0 /\ WriteRawIntent(cmd) /\ NextState(cmd) = "data"
              \/ cmd = "rec_valid" /\ to_store = 0 /\ ~WriteRawIntent(cmd) /\ NextState(cmd) = "end_ts_low"
              \/ cmd = "rec_abort" /\ ~WriteRawIntent(cmd) /\ NextState(cmd) = "idle"
         /\ curr_state = "end_ts_low" =>
              cmd = "none" /\ ~WriteRawIntent(cmd) /\ NextState(cmd) = "end_ts_high"
         /\ curr_state = "end_ts_high" =>
              cmd = "none" /\ ~WriteRawIntent(cmd) /\ NextState(cmd) = "idle"
<1>1. CASE curr_state = "idle"
  BY <1>1, Zenon DEF Commands, Legal, NextState, WriteRawIntent, ErrStates
<1>2. CASE curr_state = "frame_format"
  BY <1>2, Zenon DEF Commands, Legal, NextState, WriteRawIntent, ErrStates
<1>3. CASE curr_state = "identifier"
  BY <1>3, Zenon DEF Commands, Legal, NextState, WriteRawIntent, ErrStates
<1>4. CASE curr_state = "skip_ts_low"
  BY <1>4, ZenonT(60) DEF Commands, Legal, NextState, WriteRawIntent, ErrStates
<1>5. CASE curr_state = "skip_ts_high"
  BY <1>5, Zenon DEF Commands, Legal, NextState, WriteRawIntent, ErrStates
<1>6. CASE curr_state = "data"
  BY <1>6, ZenonT(60) DEF Commands, Legal, NextState, WriteRawIntent, ErrStates
<1>7. CASE curr_state = "end_ts_low"
  BY <1>7, ZenonT(60) DEF Commands, Legal, NextState, WriteRawIntent, ErrStates
<1>8. CASE curr_state = "end_ts_high"
  BY <1>8, ZenonT(60) DEF Commands, Legal, NextState, WriteRawIntent, ErrStates
<1> QED
  BY <1>1, <1>2, <1>3, <1>4, <1>5, <1>6, <1>7, <1>8, FsmStates, ZenonT(60)

\* The next state is one of them.
LEMMA FsmStatesNext ==
  ASSUME Types, ~ERFM, NEW cmd \in Commands, Legal(cmd)
  PROVE  NextState(cmd) \in States \ ErrStates
  BY FsmStates, FsmStep, Zenon DEF States, ErrStates

\* The frame on the bus.
LEMMA CoreStep ==
  ASSUME Types, NEW cmd \in Commands, Core(cmd), Legal(cmd)
  PROVE  /\ frame' \in Frames /\ rwcnt' \in Counts \cup {3} /\ to_store' \in Nat /\ to_store' <= rwcnt' - 3
         /\ cmd \in {"none", "rec_valid"} => frame' = frame /\ rwcnt' = rwcnt /\ to_store' = to_store
         /\ cmd = "store_data" => frame' = frame /\ rwcnt' = rwcnt /\ to_store' = to_store - 1
         /\ cmd = "store_metadata" => to_store' = rwcnt' - 3
<1>1. (frame + 1) % FrameMod \in Frames
  <2>1. FrameMod \in Nat \ {0} /\ frame + 1 \in Int
    BY RxBufferAssumption DEF Types, Frames
  <2> QED
    BY <2>1, DivMod, Zenon DEF Frames
<1>2. Counts \cup {3} \subseteq 3..(Size - 1) /\ Size \in Nat
  BY SizeFacts, Zenon
<1>3. CASE cmd = "store_metadata"
  <2>1. frame' = (frame + 1) % FrameMod
    BY <1>3, Zenon DEF Core
  <2>2. rwcnt' \in Counts /\ to_store' = rwcnt' - 3
    BY <1>3, Zenon DEF Core
  <2>3. rwcnt' \in 3..(Size - 1)
    BY <2>2, <1>2, Zenon
  <2>4. to_store' \in Nat /\ to_store' <= rwcnt' - 3
    <3>1. rwcnt' \in Nat /\ rwcnt' >= 3
      BY <2>3, <1>2
    <3>2. \A m \in Nat : m >= 3 => m - 3 \in Nat /\ m - 3 <= m - 3
      OBVIOUS
    <3> QED
      BY <3>1, <3>2, <2>2, Zenon
  <2> QED
    BY <2>1, <2>2, <2>4, <1>1, <1>3, Zenon
<1>4. CASE cmd = "rec_abort"
  BY <1>4, <1>1 DEF Core
<1>5. CASE cmd = "store_data"
  <2>1. frame' = frame /\ rwcnt' = rwcnt /\ to_store' = to_store - 1 /\ to_store > 0
    BY <1>5, Zenon DEF Core, Legal
  <2>2. rwcnt \in 3..(Size - 1) /\ to_store \in Nat /\ to_store <= rwcnt - 3 /\ frame \in Frames /\ rwcnt \in Counts \cup {3}
    BY <1>2, Zenon DEF Types
  <2> QED
    BY <2>1, <2>2, <1>2, <1>5
<1>6. CASE cmd \in {"none", "rec_valid"}
  BY <1>6, Zenon DEF Core, Types
<1> QED
  BY <1>3, <1>4, <1>5, <1>6 DEF Commands

\* Without a release the registers take the values computed for them.
LEMMA Clocked ==
  ASSUME NEW cmd, NEW sw, Tick(cmd, sw), ~rx_buf_res, "rrb" \notin sw
  PROVE  /\ curr_state' = NextState(cmd) /\ ~rx_buf_res' /\ rx_buf_res' \in BOOLEAN
         /\ read_pointer' = ReadPointer(sw)
         /\ write_pointer' = IF commit_rx_frame THEN write_pointer_raw ELSE write_pointer
         /\ write_pointer_raw' = WritePointerRaw(cmd)
         /\ write_pointer_ts' = WritePointerTs
         /\ rx_mem_free_i' = MemFree(sw)
         /\ rx_mem_free_raw' = MemFreeRaw(cmd, sw)
         /\ frame_count' = FrameCount(sw)
         /\ read_counter_q' = ReadCounter(sw)
<1>1. rx_buf_res' \in BOOLEAN /\ ~rx_buf_res'
  <2>1. rx_buf_res' = ("rrb" \in sw)
    BY Zenon DEF Tick
  <2>2. ~rx_buf_res'
    BY <2>1, Zenon
  <2>3. ("rrb" \in sw) \in BOOLEAN
    OBVIOUS
  <2>4. rx_buf_res' \in BOOLEAN
    BY <2>1, <2>3, Zenon
  <2> QED
    BY <2>2, <2>4, Zenon
<1>2. \A x, y : Reg(x, y) = x
  BY <1>1, Zenon DEF Reg
<1> QED
  BY <1>1, <1>2, Zenon DEF Tick, Regs

\* The Boolean registers in a cycle without a release.
LEMMA ClockedFlags ==
  ASSUME NEW cmd, NEW sw, Tick(cmd, sw), ~rx_buf_res, "rrb" \notin sw
  PROVE  /\ commit_rx_frame' = (CommitIntent /\ (commit_rx_frame \/ ~data_overrun_i))
         /\ commit_overrun_abort' = (CommitIntent /\ (commit_overrun_abort \/ data_overrun_i))
         /\ data_overrun_i' = (OverrunCondition(cmd) \/ (data_overrun_i /\ ~ResetOverrunFlag))
         /\ commit_rx_frame' \in BOOLEAN /\ commit_overrun_abort' \in BOOLEAN
         /\ data_overrun_i' \in BOOLEAN /\ data_overrun_flg' \in BOOLEAN
<1>1. ~rx_buf_res'
  BY Clocked, Zenon
<1>2. /\ commit_rx_frame' = (CommitIntent /\ (commit_rx_frame \/ ~data_overrun_i))
      /\ commit_overrun_abort' = (CommitIntent /\ (commit_overrun_abort \/ data_overrun_i))
      /\ data_overrun_flg' = ("cdo" \notin sw /\ (data_overrun_flg \/ OverrunCondition(cmd)))
  BY <1>1, Zenon DEF Tick, Regs, Reg
<1>3. data_overrun_i' = (OverrunCondition(cmd) \/ (data_overrun_i /\ ~ResetOverrunFlag))
  BY Zenon DEF Tick, InternalOverrun
<1> QED
  BY <1>2, <1>3, Zenon

\* A release resets the registers, in two cycles.
LEMMA Released ==
  ASSUME NEW cmd, NEW sw, Tick(cmd, sw), rx_buf_res \/ "rrb" \in sw
  PROVE  /\ curr_state' = NextState(cmd) /\ rx_buf_res' = ("rrb" \in sw)
         /\ read_pointer' = 0 /\ write_pointer' = 0 /\ write_pointer_raw' = 0 /\ write_pointer_ts' = 0
         /\ rx_mem_free_i' = Size /\ rx_mem_free_raw' = Size
         /\ frame_count' = 0 /\ read_counter_q' = 0
         /\ commit_rx_frame' = FALSE /\ commit_overrun_abort' = FALSE /\ data_overrun_flg' = FALSE
         /\ data_overrun_i' = InternalOverrun(cmd, sw)
<1>1. rx_buf_res' = ("rrb" \in sw)
  BY Zenon DEF Tick
<1>2. rx_buf_res \/ rx_buf_res'
  BY <1>1, Zenon
<1>3. \A x, y : Reg(x, y) = y
  BY <1>2, Zenon DEF Reg
<1> QED
  BY <1>1, <1>3, Zenon DEF Tick, Regs

\* What a write finds: a free word, and a frame that is not complete.
LEMMA Room ==
  ASSUME IInv, ~ERFM, NEW cmd \in Commands, Legal(cmd), WriteRawOK(cmd)
  PROVE  /\ ~data_overrun_i /\ ~commit_rx_frame /\ ~AbortApplied(cmd)
         /\ curr_state \notin {"idle", "end_ts_low", "end_ts_high"}
         /\ Held < Size /\ Partial < Size
<1> USE DEF IInv
<1>1. ~data_overrun_i /\ WriteRawIntent(cmd) /\ IsFreeWord
  BY Zenon DEF WriteRawOK, OverrunCondition
<1>2. curr_state \notin {"idle", "end_ts_low", "end_ts_high"} /\ cmd \in {"none", "store_data"}
  BY <1>1, FsmStates, FsmStep, Zenon
<1>3. ~commit_rx_frame /\ ~AbortApplied(cmd)
  BY <1>2, Zenon DEF FsmInv, AbortApplied
<1>4. Partial = StoredWords
  BY <1>1, Zenon DEF PartialInv
<1>5. rwcnt \in 3..(Size - 1) /\ Size \in Nat /\ Size >= 4 /\ to_store \in Nat /\ to_store <= rwcnt - 3
  BY SizeFacts, Zenon DEF Types
<1>6. curr_state = "data" => to_store > 0
  BY <1>1, FsmStep, Zenon
<1>7. Partial < Size
  BY <1>2, <1>3, <1>4, <1>5, <1>6, FsmStates DEF StoredWords
<1>8. Held < Size
  <2> SUFFICES ASSUME Held = Size PROVE FALSE
    BY WordCounts, SizeFacts
  <2>1. write_pointer_raw = read_pointer
    BY AtSteps, Zenon DEF Pointers, Types
  <2>2. frame_count \in Nat /\ ~(frame_count > 0)
    BY <2>1, <1>1, FramesAndWords, Zenon DEF IsFreeWord
  <2>3. ~(Used > 0) /\ Used \in 0..Size /\ Held = Used + Partial /\ Partial \in 0..Size
    BY <2>2, FramesAndWords, WordCounts, Zenon
  <2> QED
    BY <2>3, <1>7, <1>5
<1> QED
  BY <1>1, <1>2, <1>3, <1>7, <1>8

\* A word read is one of a committed frame.
LEMMA ReadWord ==
  ASSUME Types, Pointers, FrameInv, NEW sw
  PROVE  /\ One(ReadIncrement(sw)) = (IF ReadIncrement(sw) THEN 1 ELSE 0)
         /\ ReadIncrement(sw) => Used > 0
         /\ One(ReadIncrement(sw)) \in 0..1 /\ One(ReadIncrement(sw)) <= Used
<1>1. ReadIncrement(sw) => Used > 0
  BY FramesAndWords, Zenon DEF ReadIncrement
<1>2. Used \in Nat
  BY WordCounts, SizeFacts
<1> QED
  BY <1>1, <1>2 DEF One

\* How the numbers of words change.
LEMMA ClockedCounts ==
  ASSUME IInv, ~ERFM, NEW cmd \in Commands, NEW sw, Tick(cmd, sw), ~rx_buf_res, "rrb" \notin sw
  PROVE  LET r == One(ReadIncrement(sw)) IN
         /\ rx_mem_free_i' \in 0..Size /\ rx_mem_free_raw' \in 0..Size
         /\ rx_mem_free_raw' <= rx_mem_free_i'
         /\ Used' = (IF commit_rx_frame THEN Held ELSE Used) - r
         /\ Held' = IF AbortApplied(cmd) THEN Used - r ELSE (Held - r) + One(WriteRawOK(cmd))
         /\ commit_rx_frame => ~AbortApplied(cmd) /\ ~WriteRawOK(cmd)
<1> DEFINE r == One(ReadIncrement(sw))
           w == One(WriteRawOK(cmd))
<1>1. r \in 0..1 /\ r <= Used
  BY ReadWord, Zenon DEF IInv
<1>2. w \in 0..1 /\ (w = 1 => WriteRawOK(cmd))
  BY DEF One
<1>3. Used \in 0..Size /\ Held \in 0..Size /\ Held = Used + Partial /\ Partial \in 0..Size /\ Size \in Nat
  BY WordCounts, SizeFacts, Zenon DEF IInv
<1>4. Legal(cmd)
  BY Zenon DEF Tick
<1>5. WriteRawOK(cmd) => Held < Size /\ ~commit_rx_frame /\ ~AbortApplied(cmd)
  BY <1>4, Room, Zenon
<1>6. commit_rx_frame => ~AbortApplied(cmd) /\ ~WriteRawOK(cmd)
  <2> SUFFICES ASSUME commit_rx_frame PROVE ~AbortApplied(cmd)
    BY <1>5, Zenon
  <2>1. curr_state = "idle" /\ ~data_overrun_i /\ ~commit_overrun_abort
    BY Zenon DEF IInv, FsmInv
  <2> QED
    BY <2>1, <1>4, FsmStep, Zenon DEF IInv, AbortApplied
<1> HIDE DEF r, w
<1>7. /\ rx_mem_free_i' = (IF commit_rx_frame THEN rx_mem_free_raw ELSE rx_mem_free_i) + r
      /\ rx_mem_free_raw' = IF AbortApplied(cmd) THEN rx_mem_free_i + r ELSE (rx_mem_free_raw + r) - w
  BY Clocked, Zenon DEF MemFree, MemFreeRaw, r, w
<1>8. rx_mem_free_i \in 0..Size /\ rx_mem_free_raw \in 0..Size
  BY Zenon DEF IInv, Types
<1>9. Used = Size - rx_mem_free_i /\ Held = Size - rx_mem_free_raw
      /\ Used' = Size - rx_mem_free_i' /\ Held' = Size - rx_mem_free_raw'
  BY Zenon DEF Used, Held
<1>10. CASE commit_rx_frame
  <2>1. rx_mem_free_i' = rx_mem_free_raw + r /\ rx_mem_free_raw' = (rx_mem_free_raw + r) - w /\ w = 0
    BY <1>10, <1>6, <1>7, <1>2
  <2> QED
    BY <2>1, <1>1, <1>3, <1>6, <1>8, <1>9, <1>10 DEF r, w
<1>11. CASE ~commit_rx_frame /\ AbortApplied(cmd)
  <2>1. rx_mem_free_i' = rx_mem_free_i + r /\ rx_mem_free_raw' = rx_mem_free_i + r
    BY <1>11, <1>7, Zenon
  <2> QED
    BY <2>1, <1>1, <1>3, <1>8, <1>9, <1>11 DEF r, w
<1>12. CASE ~commit_rx_frame /\ ~AbortApplied(cmd)
  <2>1. rx_mem_free_i' = rx_mem_free_i + r /\ rx_mem_free_raw' = (rx_mem_free_raw + r) - w
    BY <1>12, <1>7, Zenon
  <2>2. w = 1 => Held < Size
    BY <1>2, <1>5, Zenon
  <2> QED
    BY <2>1, <2>2, <1>1, <1>2, <1>3, <1>8, <1>9, <1>12 DEF r, w
<1> QED
  BY <1>10, <1>11, <1>12, Zenon

\* How the pointers move.
LEMMA ClockedPointers ==
  ASSUME IInv, ~ERFM, NEW cmd \in Commands, NEW sw, Tick(cmd, sw), ~rx_buf_res, "rrb" \notin sw
  PROVE  /\ read_pointer' = At(read_pointer, One(ReadIncrement(sw)))
         /\ write_pointer' = (IF commit_rx_frame THEN write_pointer_raw ELSE write_pointer)
         /\ read_pointer' \in Addrs /\ write_pointer' \in Addrs
         /\ write_pointer_raw' \in Addrs /\ write_pointer_ts' \in Addrs
         /\ Pointers'
<1> DEFINE r == One(ReadIncrement(sw))
<1>1. r \in 0..1 /\ r <= Used /\ r = IF ReadIncrement(sw) THEN 1 ELSE 0
  BY ReadWord, Zenon DEF IInv
<1>2. Used \in 0..Size /\ Held \in 0..Size /\ Held = Used + Partial /\ Partial \in 0..Size /\ Size \in Nat /\ Size >= 4
  BY WordCounts, SizeFacts, Zenon DEF IInv
<1>3. /\ rx_mem_free_raw' <= rx_mem_free_i'
      /\ Used' = (IF commit_rx_frame THEN Held ELSE Used) - r
      /\ Held' = IF AbortApplied(cmd) THEN Used - r ELSE (Held - r) + One(WriteRawOK(cmd))
      /\ commit_rx_frame => ~AbortApplied(cmd) /\ ~WriteRawOK(cmd)
  BY ClockedCounts, Zenon
<1>4. WriteRawOK(cmd) => Held < Size /\ ~AbortApplied(cmd)
  BY Room, Zenon DEF Tick
<1>5. /\ read_pointer \in Addrs /\ write_pointer \in Addrs /\ write_pointer_raw \in Addrs /\ write_pointer_ts \in Addrs
      /\ write_pointer = At(read_pointer, Used) /\ write_pointer_raw = At(read_pointer, Held)
  BY Zenon DEF IInv, Types, Pointers
<1>6. \A a \in Addrs : (a + 1) % Size = At(a, 1) /\ At(a, 1) \in Addrs
  BY <1>2, AtMod
<1> HIDE DEF r
<1>7. read_pointer' = At(read_pointer, r) /\ read_pointer' \in Addrs
  BY <1>1, <1>5, <1>6, Clocked, AtSteps DEF ReadPointer
<1>8. write_pointer' = IF commit_rx_frame THEN write_pointer_raw ELSE write_pointer
  BY Clocked, Zenon
<1>9. write_pointer_raw' = IF WriteRawOK(cmd) THEN At(write_pointer_raw, 1)
                           ELSE IF AbortApplied(cmd) THEN write_pointer ELSE write_pointer_raw
  BY <1>5, <1>6, Clocked, Zenon DEF WritePointerRaw
<1>10. write_pointer_ts' \in Addrs
  BY <1>5, <1>6, Clocked, Zenon DEF WritePointerTs
<1>11. /\ \A j \in 0..Size : At(read_pointer, j) \in Addrs
       /\ \A j, k \in 0..Size : j + k <= Size => At(At(read_pointer, j), k) = At(read_pointer, j + k)
  BY <1>5, AtSteps, Zenon
<1>12. \A x \in 0..Size : r <= x => At(read_pointer', x - r) = At(read_pointer, x)
  <2> SUFFICES ASSUME NEW x \in 0..Size, r <= x PROVE At(At(read_pointer, r), x - r) = At(read_pointer, x)
    BY <1>7, Zenon
  <2>1. r \in 0..Size /\ x - r \in 0..Size /\ r + (x - r) = x /\ r + (x - r) <= Size
    BY <1>1, <1>2
  <2> QED
    BY <2>1, <1>11
<1>13. write_pointer' = At(read_pointer', Used')
  BY <1>1, <1>2, <1>3, <1>5, <1>8, <1>12
<1>14. write_pointer_raw' = At(read_pointer', Held')
  <2>1. CASE WriteRawOK(cmd)
    <3>1. Held' = (Held + 1) - r /\ Held + 1 \in 0..Size /\ r <= Held + 1 /\ 1 \in 0..Size
      BY <2>1, <1>1, <1>2, <1>3, <1>4 DEF One
    <3>2. At(write_pointer_raw, 1) = At(read_pointer, Held + 1)
      BY <3>1, <1>2, <1>5, <1>11
    <3> QED
      BY <3>1, <3>2, <2>1, <1>9, <1>12, Zenon
  <2>2. CASE ~WriteRawOK(cmd) /\ AbortApplied(cmd)
    BY <2>2, <1>1, <1>2, <1>3, <1>5, <1>9, <1>12, Zenon
  <2>3. CASE ~WriteRawOK(cmd) /\ ~AbortApplied(cmd)
    <3>1. Held' = Held - r /\ r <= Held
      BY <2>3, <1>1, <1>2, <1>3 DEF One
    <3> QED
      BY <3>1, <2>3, <1>2, <1>5, <1>9, <1>12, Zenon
  <2> QED
    BY <2>1, <2>2, <2>3, Zenon
<1>15. write_pointer' \in Addrs /\ write_pointer_raw' \in Addrs
  BY <1>5, <1>6, <1>8, <1>9, Zenon
<1> QED
  BY <1>3, <1>7, <1>8, <1>10, <1>13, <1>14, <1>15 DEF Pointers, r

\* Which word of the frame being stored is written.
WriteOffset ==
  IF curr_state = "end_ts_low" THEN 2 ELSE IF curr_state = "end_ts_high" THEN 3 ELSE Partial

\* A write goes to the frame being stored, behind the committed words.
LEMMA WritePlace ==
  ASSUME IInv, ~ERFM, NEW cmd \in Commands, Legal(cmd), PortAWrite(cmd)
  PROVE  /\ ~data_overrun_i /\ ~commit_rx_frame /\ curr_state # "idle"
         /\ WriteOffset \in Nat /\ Used + WriteOffset < Size
         /\ PortAAddress = At(read_pointer, Used + WriteOffset)
         /\ SelectTsWptr \/ WriteRawOK(cmd)
<1>1. /\ Used \in 0..Size /\ Held \in 0..Size /\ Held = Used + Partial /\ Partial \in 0..Size /\ Size \in Nat /\ Size >= 4
      /\ Used \in Nat /\ Partial \in Nat
  BY WordCounts, SizeFacts DEF IInv
<1>2. CASE WriteRawOK(cmd)
  <2>1. /\ ~data_overrun_i /\ ~commit_rx_frame /\ Held < Size
        /\ curr_state \notin {"idle", "end_ts_low", "end_ts_high"}
    BY <1>2, Room, Zenon
  <2>2. WriteOffset = Partial /\ PortAAddress = write_pointer_raw
    BY <2>1, Zenon DEF WriteOffset, PortAAddress, SelectTsWptr
  <2>3. write_pointer_raw = At(read_pointer, Used + Partial)
    BY <1>1, Zenon DEF IInv, Pointers
  <2> QED
    BY <2>1, <2>2, <2>3, <1>1, <1>2
<1>3. CASE ~WriteRawOK(cmd)
  <2>1. SelectTsWptr /\ ~data_overrun_i
    BY <1>3, Zenon DEF PortAWrite
  <2>2. curr_state \in {"end_ts_low", "end_ts_high"}
    BY <2>1, Zenon DEF SelectTsWptr
  <2>3. ~commit_rx_frame /\ to_store = 0
    BY <2>2, Zenon DEF IInv, FsmInv
  <2>4. Partial = rwcnt + 1 /\ rwcnt \in Nat /\ rwcnt >= 3
    <3>1. rwcnt \in 3..(Size - 1)
      BY SizeFacts, Zenon DEF IInv, Types
    <3>2. Partial = (rwcnt + 1) - to_store
      BY <2>1, <2>2, Zenon DEF IInv, PartialInv, StoredWords
    <3> QED
      BY <3>1, <3>2, <2>3, <1>1
  <2>5. WriteOffset \in 2..3 /\ Used + WriteOffset < Size
    BY <2>2, <2>4, <1>1 DEF WriteOffset
  <2>6. PortAAddress = At(write_pointer, WriteOffset)
    BY <2>1, <2>2, Zenon DEF IInv, TsInv, PortAAddress, WriteOffset
  <2>7. write_pointer = At(read_pointer, Used) /\ read_pointer \in Addrs
    BY Zenon DEF IInv, Pointers, Types
  <2>8. WriteOffset \in 0..Size /\ Used + WriteOffset <= Size
    BY <2>5, <1>1
  <2>9. At(At(read_pointer, Used), WriteOffset) = At(read_pointer, Used + WriteOffset)
    BY <2>7, <2>8, <1>1, AtSteps
  <2>10. WriteOffset \in Nat
    BY <2>5
  <2> QED
    BY <2>1, <2>2, <2>3, <2>5, <2>6, <2>7, <2>9, <2>10
<1> QED
  BY <1>2, <1>3, Zenon

\* The word that is written.
LEMMA WriteWord ==
  ASSUME IInv, ~ERFM, NEW cmd \in Commands, Legal(cmd), PortAWrite(cmd)
  PROVE  /\ DataIn \in Words
         /\ curr_state \notin {"skip_ts_low", "skip_ts_high"} => DataIn = WordAt(frame, rwcnt, WriteOffset)
<1>1. /\ rwcnt \in Counts \cup {3} /\ rwcnt \in 3..(Size - 1) /\ Size \in Nat /\ Size >= 4 /\ frame \in Frames
      /\ to_store \in Nat /\ to_store <= rwcnt - 3
  BY SizeFacts, Zenon DEF IInv, Types
<1>2. ~data_overrun_i /\ ~commit_rx_frame /\ curr_state # "idle"
  BY WritePlace, Zenon
<1>3. Partial = StoredWords
  BY <1>2, Zenon DEF IInv, PartialInv
<1>4. \A k \in 0..Size : \A n \in Counts \cup {0, 3} : \A f \in Frames : <<f, k, n>> \in Words
  BY Zenon DEF Words
<1>5. 0 \in Frames
  BY RxBufferAssumption DEF Frames
<1>6. CASE curr_state = "frame_format"
  <2>1. DataIn = <<frame, 0, rwcnt>> /\ WriteOffset = 0
    BY <1>2, <1>3, <1>6, Zenon DEF DataIn, WriteOffset, StoredWords
  <2>2. 0 \in 0..Size
    BY <1>1
  <2> QED
    BY <2>1, <2>2, <1>1, <1>4, Zenon DEF WordAt
<1>7. CASE curr_state = "identifier"
  <2>1. DataIn = <<frame, 1, 0>> /\ WriteOffset = 1
    BY <1>3, <1>7, Zenon DEF DataIn, WriteOffset, StoredWords
  <2>2. 1 \in 0..Size
    BY <1>1
  <2> QED
    BY <2>1, <2>2, <1>1, <1>4 DEF WordAt
<1>8. CASE curr_state \in {"skip_ts_low", "skip_ts_high"}
  <2>1. DataIn = <<0, 1, 0>>
    BY <1>8, Zenon DEF DataIn, Zero
  <2>2. 1 \in 0..Size
    BY <1>1
  <2> QED
    BY <2>1, <2>2, <1>1, <1>4, <1>5, <1>8, Zenon
<1>9. CASE curr_state = "data"
  <2> DEFINE k == (rwcnt - to_store) + 1
  <2>1. k \in 0..Size /\ k # 0 /\ k = (rwcnt + 1) - to_store
    BY <1>1
  <2>2. DataIn = <<frame, k, 0>> /\ WriteOffset = k
    BY <2>1, <1>3, <1>9, Zenon DEF DataIn, WriteOffset, StoredWords
  <2> HIDE DEF k
  <2> QED
    BY <2>1, <2>2, <1>1, <1>4, Zenon DEF WordAt
<1>10. CASE curr_state = "end_ts_low"
  <2>1. DataIn = <<frame, 2, 0>> /\ WriteOffset = 2
    BY <1>10, Zenon DEF DataIn, WriteOffset
  <2>2. 2 \in 0..Size
    BY <1>1
  <2> QED
    BY <2>1, <2>2, <1>1, <1>4 DEF WordAt
<1>11. CASE curr_state = "end_ts_high"
  <2>1. DataIn = <<frame, 3, 0>> /\ WriteOffset = 3
    BY <1>11, Zenon DEF DataIn, WriteOffset
  <2>2. 3 \in 0..Size
    BY <1>1
  <2> QED
    BY <2>1, <2>2, <1>1, <1>4 DEF WordAt
<1> QED
  BY <1>2, <1>6, <1>7, <1>8, <1>9, <1>10, <1>11, FsmStates, Zenon DEF IInv

\* The memory after the cycle.
LEMMA MemoryStep ==
  ASSUME IInv, ~ERFM, NEW cmd \in Commands, NEW sw, Tick(cmd, sw)
  PROVE  /\ ram' \in [Addrs -> Words] /\ data_out' \in Words
         /\ \A j \in 0..(Size - 1) :
              ram'[At(read_pointer, j)] =
                IF PortAWrite(cmd) /\ j = Used + WriteOffset THEN DataIn
                ELSE ram[At(read_pointer, j)]
         /\ data_out' = IF RamClkEn(cmd, sw) THEN ram[ReadPointer(sw)] ELSE data_out
<1>1. /\ ram \in [Addrs -> Words] /\ data_out \in Words /\ read_pointer \in Addrs
      /\ Used \in 0..Size /\ Size \in Nat /\ Size >= 4
  BY WordCounts, SizeFacts, Zenon DEF IInv, Types
<1>2. Legal(cmd) /\ Ram(cmd, sw)
  BY Zenon DEF Tick
<1>3. ReadPointer(sw) \in Addrs
  <2>1. 1 \in 0..Size
    BY <1>1
  <2>2. (read_pointer + 1) % Size \in Addrs
    BY <2>1, <1>1, AtMod, Zenon
  <2> QED
    BY <2>2, <1>1, Zenon DEF ReadPointer
<1>4. data_out' = (IF RamClkEn(cmd, sw) THEN ram[ReadPointer(sw)] ELSE data_out) /\ data_out' \in Words
  BY <1>1, <1>2, <1>3, Zenon DEF Ram
<1>5. CASE PortAWrite(cmd)
  <2> DEFINE p == Used + WriteOffset
  <2>1. p \in 0..(Size - 1) /\ PortAAddress = At(read_pointer, p)
    BY <1>1, <1>2, <1>5, WritePlace
  <2>2. DataIn \in Words
    BY <1>2, <1>5, WriteWord, Zenon
  <2> HIDE DEF p
  <2>3. \A j \in 0..(Size - 1) : At(read_pointer, j) \in Addrs /\ (At(read_pointer, j) = At(read_pointer, p) => j = p)
    <3>1. \A j \in 0..(Size - 1) : j \in 0..Size
      BY <1>1
    <3> QED
      BY <3>1, <2>1, <1>1, AtSteps
  <2>4. ram' = [ram EXCEPT ![At(read_pointer, p)] = DataIn]
    BY <2>1, <1>2, <1>5, Zenon DEF Ram
  <2>5. ram' \in [Addrs -> Words]
    BY <2>2, <2>4, <1>1, Zenon
  <2>6. \A j \in 0..(Size - 1) : ram'[At(read_pointer, j)] = IF j = p THEN DataIn ELSE ram[At(read_pointer, j)]
    BY <2>1, <2>3, <2>4, <1>1, Zenon
  <2> QED
    BY <2>5, <2>6, <1>4, <1>5, Zenon DEF p
<1>6. CASE ~PortAWrite(cmd)
  <2>1. ram' = ram
    BY <1>2, <1>6, Zenon DEF Ram
  <2> QED
    BY <2>1, <1>1, <1>4, <1>6, Zenon
<1> QED
  BY <1>5, <1>6, Zenon

-----------------------------------------------------------------------------
(* A cycle without a release preserves the invariant.                       *)

\* Types are kept, and the commit of a frame is decided at its end.
LEMMA ClockedFsm ==
  ASSUME IInv, ~ERFM, NEW cmd \in Commands, NEW sw, Tick(cmd, sw), ~rx_buf_res, "rrb" \notin sw
  PROVE  /\ Types' /\ FsmInv'
         /\ commit_rx_frame' <=> curr_state = "end_ts_high" /\ ~data_overrun_i
         /\ commit_overrun_abort' <=> curr_state = "end_ts_high" /\ data_overrun_i
         /\ curr_state = "idle" => ~data_overrun_i'
         /\ curr_state # "idle" /\ ~data_overrun_i' =>
              ~data_overrun_i /\ (WriteRawIntent(cmd) <=> WriteRawOK(cmd))
         /\ curr_state # "idle" /\ data_overrun_i => data_overrun_i'
<1>0. Legal(cmd) /\ Core(cmd) /\ curr_state' = NextState(cmd)
  BY Zenon DEF Tick
<1>1. CommitIntent <=> curr_state = "end_ts_high"
  BY FsmStates, Zenon DEF IInv, CommitIntent
<1>2. commit_rx_frame \/ commit_overrun_abort => curr_state = "idle"
  BY Zenon DEF IInv, FsmInv
<1>3. /\ commit_rx_frame' <=> curr_state = "end_ts_high" /\ ~data_overrun_i
      /\ commit_overrun_abort' <=> curr_state = "end_ts_high" /\ data_overrun_i
  BY <1>1, <1>2, ClockedFlags, Zenon
<1>4. data_overrun_i' <=> OverrunCondition(cmd) \/ (data_overrun_i /\ curr_state # "idle")
  BY ClockedFlags, Zenon DEF ResetOverrunFlag
<1>5. curr_state = "idle" => ~data_overrun_i'
  BY <1>0, <1>4, FsmStep, Zenon DEF IInv, OverrunCondition
<1>6. curr_state # "idle" /\ ~data_overrun_i' =>
        ~data_overrun_i /\ (WriteRawIntent(cmd) <=> WriteRawOK(cmd))
  BY <1>4, Zenon DEF WriteRawOK
<1>7. Types'
  <2>1. curr_state' \in States \ ErrStates
    BY <1>0, FsmStatesNext, Zenon DEF IInv
  <2>2. /\ read_pointer' \in Addrs /\ write_pointer' \in Addrs
        /\ write_pointer_raw' \in Addrs /\ write_pointer_ts' \in Addrs
    BY ClockedPointers, Zenon
  <2>3. rx_mem_free_i' \in 0..Size /\ rx_mem_free_raw' \in 0..Size
    BY ClockedCounts, Zenon
  <2>4. /\ commit_rx_frame' \in BOOLEAN /\ commit_overrun_abort' \in BOOLEAN
        /\ data_overrun_flg' \in BOOLEAN /\ data_overrun_i' \in BOOLEAN /\ rx_buf_res' \in BOOLEAN
    BY ClockedFlags, Clocked, Zenon
  <2>5. ram' \in [Addrs -> Words] /\ data_out' \in Words
    BY MemoryStep, Zenon
  <2>6. frame' \in Frames /\ rwcnt' \in Counts \cup {3} /\ to_store' \in Nat /\ to_store' <= rwcnt' - 3
    BY <1>0, CoreStep, Zenon DEF IInv
  <2> QED
    BY <2>1, <2>2, <2>3, <2>4, <2>5, <2>6, Zenon DEF Types
<1>8. FsmInv'
  <2>1. ~rx_buf_res'
    BY Clocked, Zenon
  <2>2. curr_state = "end_ts_high" => curr_state' = "idle"
    BY <1>0, FsmStep, Zenon DEF IInv
  <2>3. curr_state = "end_ts_high" => (data_overrun_i' <=> data_overrun_i)
    <3> SUFFICES ASSUME curr_state = "end_ts_high" PROVE data_overrun_i' <=> data_overrun_i
      BY Zenon
    <3>1. ~OverrunCondition(cmd)
      BY <1>0, FsmStep, Zenon DEF IInv, OverrunCondition
    <3>2. curr_state # "idle"
      BY Zenon
    <3> QED
      BY <3>1, <3>2, <1>4, Zenon
  <2>4. curr_state' \in {"end_ts_low", "end_ts_high"} => to_store' = 0
    <3> SUFFICES ASSUME curr_state' \in {"end_ts_low", "end_ts_high"} PROVE to_store' = 0
      BY Zenon
    <3>1. (curr_state = "data" /\ cmd = "rec_valid") \/ (curr_state = "end_ts_low" /\ cmd = "none")
      BY <1>0, FsmStep, FsmStates, Zenon DEF IInv
    <3>2. to_store' = to_store
      BY <3>1, <1>0, CoreStep, Zenon DEF IInv
    <3>3. to_store = 0
      BY <3>1, <1>0, FsmStep, Zenon DEF IInv, FsmInv
    <3> QED
      BY <3>2, <3>3, Zenon
  <2>5. curr_state' \in {"frame_format", "identifier", "skip_ts_low", "skip_ts_high"} => to_store' = rwcnt' - 3
    <3> SUFFICES ASSUME curr_state' \in {"frame_format", "identifier", "skip_ts_low", "skip_ts_high"}
                 PROVE to_store' = rwcnt' - 3
      BY Zenon
    <3>1. \/ cmd = "store_metadata"
          \/ curr_state \in {"frame_format", "identifier", "skip_ts_low"} /\ cmd = "none"
      BY <1>0, FsmStep, FsmStates, Zenon DEF IInv
    <3>2. cmd = "none" => to_store' = to_store /\ rwcnt' = rwcnt
      BY <1>0, CoreStep, Zenon DEF IInv
    <3>3. cmd = "store_metadata" => to_store' = rwcnt' - 3
      BY <1>0, CoreStep, Zenon DEF IInv
    <3> QED
      BY <3>1, <3>2, <3>3, Zenon DEF IInv, FsmInv
  <2> QED
    BY <2>1, <2>2, <2>3, <2>4, <2>5, <1>3, Zenon DEF FsmInv
<1>9. curr_state # "idle" /\ data_overrun_i => data_overrun_i'
  BY <1>4, Zenon
<1> QED
  BY <1>3, <1>5, <1>6, <1>7, <1>8, <1>9, Zenon

\* How many words of the frame being stored are in the memory.
LEMMA PartialStep ==
  ASSUME IInv, ~ERFM, NEW cmd \in Commands, NEW sw, Tick(cmd, sw), ~rx_buf_res, "rrb" \notin sw
  PROVE  Partial' = IF commit_rx_frame \/ AbortApplied(cmd) THEN 0
                    ELSE Partial + One(WriteRawOK(cmd))
<1> DEFINE r == One(ReadIncrement(sw))
<1>1. /\ Used' = (IF commit_rx_frame THEN Held ELSE Used) - r
      /\ Held' = IF AbortApplied(cmd) THEN Used - r ELSE (Held - r) + One(WriteRawOK(cmd))
      /\ commit_rx_frame => ~AbortApplied(cmd) /\ ~WriteRawOK(cmd)
  BY ClockedCounts, Zenon
<1>2. r \in 0..1 /\ Used \in 0..Size /\ Held = Used + Partial /\ Partial \in 0..Size /\ Held \in 0..Size /\ Size \in Nat
  BY ReadWord, WordCounts, SizeFacts, Zenon DEF IInv
<1> HIDE DEF r
<1>3. Partial' = Held' - Used'
  <2>1. rx_mem_free_i' \in 0..Size /\ rx_mem_free_raw' \in 0..Size
    BY ClockedCounts
  <2> QED
    BY <2>1, <1>2 DEF Partial, Held, Used
<1> QED
  BY <1>1, <1>2, <1>3 DEF One

\* PartialInv is preserved.
LEMMA ClockedPartial ==
  ASSUME IInv, ~ERFM, NEW cmd \in Commands, NEW sw, Tick(cmd, sw), ~rx_buf_res, "rrb" \notin sw
  PROVE  PartialInv'
<1>0. Legal(cmd) /\ Core(cmd) /\ curr_state' = NextState(cmd)
  BY DEF Tick
<1>1. Partial' = IF commit_rx_frame \/ AbortApplied(cmd) THEN 0 ELSE Partial + One(WriteRawOK(cmd))
  BY PartialStep, Zenon
<1>2. /\ commit_rx_frame' <=> curr_state = "end_ts_high" /\ ~data_overrun_i
      /\ commit_overrun_abort' <=> curr_state = "end_ts_high" /\ data_overrun_i
      /\ curr_state = "idle" => ~data_overrun_i'
      /\ curr_state # "idle" /\ ~data_overrun_i' =>
           ~data_overrun_i /\ (WriteRawIntent(cmd) <=> WriteRawOK(cmd))
  BY ClockedFsm, Zenon
<1>3. Partial \in Nat /\ rwcnt \in Nat /\ to_store \in Nat /\ One(TRUE) = 1 /\ One(FALSE) = 0
  BY WordCounts, SizeFacts DEF IInv, Types, One
<1>4. WriteRawOK(cmd) => WriteRawIntent(cmd)
  BY Zenon DEF WriteRawOK
<1>5. One(WriteRawOK(cmd)) = IF WriteRawOK(cmd) THEN 1 ELSE 0
  BY Zenon DEF One
<1>6. curr_state # "idle" => ~commit_rx_frame /\ ~commit_overrun_abort
  BY Zenon DEF IInv, FsmInv
<1>7. AbortApplied(cmd) <=> cmd = "rec_abort" \/ commit_overrun_abort
  BY Zenon DEF AbortApplied
<1>8. /\ curr_state = "frame_format" => Partial = 0
      /\ curr_state = "idle" /\ ~commit_rx_frame /\ ~commit_overrun_abort => Partial = 0
      /\ ~data_overrun_i => Partial = StoredWords
  BY Zenon DEF IInv, PartialInv
<1>9. /\ cmd \in {"none", "rec_valid"} => rwcnt' = rwcnt /\ to_store' = to_store
      /\ cmd = "store_data" => rwcnt' = rwcnt /\ to_store' = to_store - 1
  BY <1>0, CoreStep, Zenon DEF IInv
<1>10. CASE curr_state = "idle"
  <2>1. ~WriteRawIntent(cmd) /\ curr_state' \in {"idle", "frame_format"} /\ ~commit_rx_frame'
    BY <1>0, <1>2, <1>10, FsmStep, Zenon DEF IInv
  <2>2. Partial' = 0
    BY <2>1, <1>1, <1>3, <1>4, <1>5, <1>7, <1>8, <1>10
  <2>3. StoredWords' = 0
    BY <2>1, Zenon DEF StoredWords
  <2> QED
    BY <2>2, <2>3, Zenon DEF PartialInv
<1>11. CASE curr_state # "idle" /\ cmd = "rec_abort"
  <2>1. curr_state' = "idle" /\ ~commit_rx_frame'
    BY <1>0, <1>2, <1>11, FsmStep, FsmStates DEF IInv
  <2>2. Partial' = 0
    BY <1>1, <1>7, <1>11, Zenon
  <2>3. StoredWords' = 0
    BY <2>1, Zenon DEF StoredWords
  <2> QED
    BY <2>2, <2>3 DEF PartialInv
<1>12. CASE curr_state = "end_ts_high"
  <2>1. /\ curr_state' = "idle" /\ ~WriteRawIntent(cmd) /\ cmd = "none" /\ to_store = 0
        /\ rwcnt' = rwcnt
    BY <1>0, <1>9, <1>12, FsmStep, Zenon DEF IInv, FsmInv
  <2>2. Partial' = Partial
    BY <2>1, <1>1, <1>3, <1>4, <1>5, <1>6, <1>7, <1>12
  <2>3. commit_rx_frame' \/ commit_overrun_abort'
    BY <1>2, <1>12, Zenon
  <2>4. ~data_overrun_i' => Partial' = StoredWords'
    <3> SUFFICES ASSUME ~data_overrun_i' PROVE Partial' = StoredWords'
      BY Zenon
    <3>1. ~data_overrun_i /\ commit_rx_frame'
      BY <1>2, <1>12, Zenon
    <3>2. Partial = rwcnt + 1
      BY <3>1, <2>1, <1>3, <1>8, <1>12 DEF StoredWords
    <3>3. StoredWords' = rwcnt' + 1
      BY <3>1, <2>1, Zenon DEF StoredWords
    <3> QED
      BY <3>2, <3>3, <2>1, <2>2, Zenon
  <2> QED
    BY <2>1, <2>3, <2>4, Zenon DEF PartialInv
<1>13. CASE curr_state \notin {"idle", "end_ts_high"} /\ cmd # "rec_abort"
  <2>1. curr_state' \notin {"idle", "frame_format"}
    BY <1>0, <1>13, FsmStep, FsmStates, Zenon DEF IInv
  <2>2. Partial' = Partial + One(WriteRawOK(cmd))
    BY <1>1, <1>6, <1>7, <1>13, Zenon
  <2>3. ~data_overrun_i' => Partial' = StoredWords'
    <3> SUFFICES ASSUME ~data_overrun_i' PROVE Partial' = StoredWords'
      OBVIOUS
    <3>1. Partial = StoredWords /\ (WriteRawIntent(cmd) <=> WriteRawOK(cmd)) /\ ~commit_rx_frame
      BY <1>2, <1>6, <1>8, <1>13, Zenon
    <3>2. Partial' = Partial + (IF WriteRawIntent(cmd) THEN 1 ELSE 0)
      BY <3>1, <2>2, <1>5, Zenon
    <3>3. CASE curr_state \in {"frame_format", "identifier", "skip_ts_low"}
      BY <3>1, <3>2, <3>3, <1>0, <1>13, FsmStep DEF IInv, StoredWords
    <3>4. CASE curr_state = "skip_ts_high"
      <4>1. curr_state' = "data" /\ WriteRawIntent(cmd) /\ cmd = "none"
        BY <3>4, <1>0, FsmStep, Zenon DEF IInv
      <4>2. to_store = rwcnt - 3
        BY <3>4, Zenon DEF IInv, FsmInv
      <4> QED
        BY <4>1, <4>2, <3>1, <3>2, <3>4, <1>3, <1>9 DEF StoredWords
    <3>5. CASE curr_state = "data"
      <4>1. \/ cmd = "none" /\ curr_state' = "data" /\ ~WriteRawIntent(cmd)
            \/ cmd = "store_data" /\ curr_state' = "data" /\ WriteRawIntent(cmd)
            \/ cmd = "rec_valid" /\ curr_state' = "end_ts_low" /\ ~WriteRawIntent(cmd)
        BY <3>5, <1>0, <1>13, FsmStep, Zenon DEF IInv
      <4> QED
        BY <4>1, <3>1, <3>2, <3>5, <1>3, <1>9 DEF StoredWords
    <3>6. CASE curr_state = "end_ts_low"
      <4>1. curr_state' = "end_ts_high" /\ cmd = "none" /\ ~WriteRawIntent(cmd)
        BY <3>6, <1>0, FsmStep, Zenon DEF IInv
      <4> QED
        BY <4>1, <3>1, <3>2, <3>6, <1>3, <1>9 DEF StoredWords
    <3> QED
      BY <3>3, <3>4, <3>5, <3>6, <1>13, FsmStates DEF IInv
  <2> QED
    BY <2>1, <2>3, Zenon DEF PartialInv
<1> QED
  BY <1>10, <1>11, <1>12, <1>13, Zenon

\* TsInv is preserved.
LEMMA ClockedTs ==
  ASSUME IInv, ~ERFM, NEW cmd \in Commands, NEW sw, Tick(cmd, sw), ~rx_buf_res, "rrb" \notin sw
  PROVE  TsInv'
<1>0. Legal(cmd) /\ curr_state' = NextState(cmd) /\ write_pointer_ts' = WritePointerTs
  BY Clocked, Zenon DEF Tick
<1>1. curr_state # "idle" /\ ~data_overrun_i' => ~data_overrun_i
  BY ClockedFsm, Zenon
<1>2. curr_state # "idle" => write_pointer' = write_pointer
  BY ClockedPointers, Zenon DEF IInv, FsmInv
<1>3. write_pointer \in Addrs /\ read_pointer \in Addrs /\ write_pointer_ts \in Addrs
  BY Zenon DEF IInv, Types
<1>4. /\ Used \in 0..Size /\ Partial \in 0..Size /\ Held = Used + Partial /\ Held \in 0..Size
      /\ Size \in Nat /\ Size >= 4
  BY WordCounts, SizeFacts, Zenon DEF IInv
<1>5. CASE curr_state = "skip_ts_low"
  <2>1. curr_state' = "skip_ts_high" /\ write_pointer_ts' = write_pointer_raw
    BY <1>0, <1>5, FsmStep, Zenon DEF IInv, WritePointerTs
  <2>2. ASSUME ~data_overrun_i' PROVE write_pointer_ts' = At(write_pointer', 2)
    <3>1. Partial = 2
      BY <2>2, <1>1, <1>5, Zenon DEF IInv, PartialInv, StoredWords
    <3>2. At(At(read_pointer, Used), 2) = At(read_pointer, Used + 2) /\ Held = Used + 2
      <4>1. 2 \in 0..Size /\ Used + 2 <= Size /\ Held = Used + 2
        BY <3>1, <1>4
      <4> QED
        BY <4>1, <1>3, <1>4, AtSteps
    <3>3. write_pointer = At(read_pointer, Used) /\ write_pointer_raw = At(read_pointer, Held)
      BY Zenon DEF IInv, Pointers
    <3> QED
      BY <3>2, <3>3, <2>1, <1>2, <1>5
  <2> QED
    BY <2>1, <2>2, Zenon DEF TsInv
<1>6. CASE curr_state \in {"skip_ts_high", "data"}
  <2>1. curr_state' \in {"data", "end_ts_low", "idle"} /\ write_pointer_ts' = write_pointer_ts
    BY <1>0, <1>6, FsmStep, Zenon DEF IInv, WritePointerTs
  <2>2. ~data_overrun_i' => write_pointer_ts = At(write_pointer, 2)
    BY <1>1, <1>6, Zenon DEF IInv, TsInv
  <2> QED
    BY <2>1, <2>2, <1>2, <1>6, Zenon DEF TsInv
<1>7. CASE curr_state = "end_ts_low"
  <2>1. curr_state' = "end_ts_high" /\ write_pointer_ts' = (write_pointer_ts + 1) % Size
    BY <1>0, <1>7, FsmStep, Zenon DEF IInv, WritePointerTs
  <2>2. ASSUME ~data_overrun_i' PROVE write_pointer_ts' = At(write_pointer', 3)
    <3>1. write_pointer_ts = At(write_pointer, 2)
      BY <2>2, <1>1, <1>7, Zenon DEF IInv, TsInv
    <3>2. 1 \in 0..Size /\ 2 \in 0..Size /\ 2 + 1 <= Size /\ 2 + 1 = 3
      BY <1>4
    <3>3. At(At(write_pointer, 2), 1) = At(write_pointer, 3)
      BY <3>2, <1>3, AtSteps
    <3>4. (write_pointer_ts + 1) % Size = At(write_pointer_ts, 1)
      BY <3>2, <1>3, AtMod, Zenon
    <3> QED
      BY <3>1, <3>3, <3>4, <2>1, <1>2, <1>7
  <2> QED
    BY <2>1, <2>2, Zenon DEF TsInv
<1>8. CASE curr_state \in {"idle", "frame_format", "identifier", "end_ts_high"}
  BY <1>0, <1>8, FsmStep, Zenon DEF IInv, TsInv
<1> QED
  BY <1>5, <1>6, <1>7, <1>8, FsmStates, Zenon DEF IInv

\* WordsInv is preserved.
LEMMA ClockedWords ==
  ASSUME IInv, ~ERFM, NEW cmd \in Commands, NEW sw, Tick(cmd, sw), ~rx_buf_res, "rrb" \notin sw
  PROVE  WordsInv'
<1>0. Legal(cmd) /\ Core(cmd) /\ curr_state' = NextState(cmd)
  BY DEF Tick
<1> SUFFICES ASSUME ~data_overrun_i', NEW k \in 0..(Partial' - 1), Due(k)'
             PROVE  ram'[At(write_pointer', k)] = WordAt(frame', rwcnt', k)
  BY Zenon DEF WordsInv
<1>1. /\ Used \in 0..Size /\ Partial \in 0..Size /\ Held = Used + Partial /\ Held \in 0..Size
      /\ Size \in Nat /\ Size >= 4
  BY WordCounts, SizeFacts, Zenon DEF IInv
<1>2. Partial' = IF commit_rx_frame \/ AbortApplied(cmd) THEN 0 ELSE Partial + One(WriteRawOK(cmd))
  BY PartialStep, Zenon
<1>3. k \in Nat /\ Partial' \in Nat /\ Partial' > 0 /\ k < Partial'
  <2>1. Partial' \in Nat
    BY <1>1, <1>2 DEF One
  <2>2. \A p \in Nat : \A i \in 0..(p - 1) : i \in Nat /\ p > 0 /\ i < p
    OBVIOUS
  <2> QED
    BY <2>1, <2>2, Zenon
<1>4. /\ ~commit_rx_frame /\ ~AbortApplied(cmd) /\ Partial' = Partial + One(WriteRawOK(cmd))
      /\ k <= Partial /\ (k = Partial => WriteRawOK(cmd))
  BY <1>1, <1>2, <1>3 DEF One
<1>5. curr_state # "idle"
  <2> SUFFICES ASSUME curr_state = "idle" PROVE FALSE
    BY Zenon
  <2>1. ~WriteRawOK(cmd)
    BY <1>0, FsmStep, Zenon DEF IInv, WriteRawOK
  <2>2. Partial = 0
    BY <1>4, Zenon DEF IInv, PartialInv, AbortApplied
  <2> QED
    BY <2>1, <2>2, <1>3, <1>4 DEF One
<1>6. cmd # "rec_abort" /\ cmd # "store_metadata"
  BY <1>0, <1>4, <1>5, Zenon DEF Legal, AbortApplied
<1>7. frame' = frame /\ rwcnt' = rwcnt
  BY <1>0, <1>6, CoreStep, Zenon DEF IInv, Commands
<1>8. write_pointer' = write_pointer /\ ~data_overrun_i
  BY <1>4, <1>5, ClockedPointers, ClockedFsm, Zenon
<1>9. Used + k < Size
  <2>1. k = Partial => Held < Size
    BY <1>0, <1>4, Room, Zenon
  <2> QED
    BY <2>1, <1>1, <1>3, <1>4
<1>10. At(write_pointer, k) = At(read_pointer, Used + k)
  <2>1. k \in 0..Size /\ Used + k <= Size
    BY <1>1, <1>3, <1>9
  <2> QED
    BY <2>1, <1>1, AtSteps DEF IInv, Types, Pointers
<1>11. ram'[At(read_pointer, Used + k)] =
         IF PortAWrite(cmd) /\ Used + k = Used + WriteOffset THEN DataIn ELSE ram[At(read_pointer, Used + k)]
  <2>1. Used + k \in 0..(Size - 1)
    BY <1>1, <1>3, <1>9
  <2> QED
    BY <2>1, MemoryStep, Zenon
<1>12. CASE PortAWrite(cmd) /\ k = WriteOffset
  <2>1. ram'[At(write_pointer', k)] = DataIn
    BY <1>8, <1>10, <1>11, <1>12, Zenon
  <2>2. DataIn = WordAt(frame, rwcnt, k)
    <3>1. curr_state \notin {"skip_ts_low", "skip_ts_high"}
      <4>1. curr_state = "skip_ts_low" => k = 2 /\ curr_state' = "skip_ts_high"
        BY <1>0, <1>8, <1>12, FsmStep, Zenon DEF IInv, PartialInv, StoredWords, WriteOffset
      <4>2. curr_state = "skip_ts_high" => k = 3 /\ curr_state' = "data"
        BY <1>0, <1>8, <1>12, FsmStep, Zenon DEF IInv, PartialInv, StoredWords, WriteOffset
      <4> QED
        BY <4>1, <4>2, Zenon DEF Due
    <3> QED
      BY <3>1, <1>0, <1>12, WriteWord, Zenon
  <2> QED
    BY <2>1, <2>2, <1>7, Zenon
<1>13. CASE ~(PortAWrite(cmd) /\ k = WriteOffset)
  <2>1. ram'[At(write_pointer', k)] = ram[At(write_pointer, k)]
    <3>1. ~(PortAWrite(cmd) /\ Used + k = Used + WriteOffset)
      <4> SUFFICES ASSUME PortAWrite(cmd) PROVE Used + k # Used + WriteOffset
        BY Zenon
      <4>1. WriteOffset \in Nat /\ Used \in Nat
        BY <1>0, <1>1, WritePlace
      <4>2. k # WriteOffset
        BY <1>13, Zenon
      <4> QED
        BY <4>1, <4>2, <1>3
    <3> QED
      BY <3>1, <1>8, <1>10, <1>11, Zenon
  <2>2. k \in 0..(Partial - 1)
    <3>1. k # Partial
      <4> SUFFICES ASSUME k = Partial PROVE FALSE
        BY Zenon
      <4>1. WriteRawOK(cmd)
        BY <1>4, Zenon
      <4>2. PortAWrite(cmd)
        BY <4>1, Zenon DEF PortAWrite
      <4>3. WriteOffset = Partial
        BY <4>1, <1>0, Room, Zenon DEF WriteOffset
      <4> QED
        BY <4>2, <4>3, <1>13, Zenon
    <3> QED
      BY <3>1, <1>1, <1>3, <1>4
  <2>3. curr_state \in {"end_ts_low", "end_ts_high"} => PortAWrite(cmd)
    <3>1. ~(curr_state \in {"end_ts_low", "end_ts_high"} /\ OverrunCondition(cmd))
      BY <1>0, FsmStep, Zenon DEF IInv, OverrunCondition
    <3> QED
      BY <3>1, <1>8, Zenon DEF PortAWrite, SelectTsWptr
  <2>4. Due(k)
    <3>1. curr_state' \in {"end_ts_high", "idle"} => curr_state \in {"end_ts_low", "end_ts_high"}
      BY <1>0, <1>5, <1>6, FsmStep, FsmStates, Zenon DEF IInv
    <3>2. curr_state' = "idle" => curr_state = "end_ts_high"
      BY <1>0, <1>5, <1>6, FsmStep, FsmStates, Zenon DEF IInv
    <3>3. k = 2 => curr_state = "end_ts_high"
      <4> SUFFICES ASSUME k = 2 PROVE curr_state = "end_ts_high"
        BY Zenon
      <4>1. curr_state \in {"end_ts_low", "end_ts_high"}
        BY <3>1, Zenon DEF Due
      <4> QED
        BY <4>1, <2>3, <1>13, Zenon DEF WriteOffset
    <3>4. k # 3
      <4> SUFFICES ASSUME k = 3 PROVE FALSE
        BY Zenon
      <4>1. curr_state = "end_ts_high"
        BY <3>2, Zenon DEF Due
      <4> QED
        BY <4>1, <2>3, <1>13, Zenon DEF WriteOffset
    <3> QED
      BY <3>3, <3>4, Zenon DEF Due
  <2>5. ram[At(write_pointer, k)] = WordAt(frame, rwcnt, k)
    BY <2>2, <2>4, <1>8, Zenon DEF IInv, WordsInv
  <2> QED
    BY <2>1, <2>5, <1>7, Zenon
<1> QED
  BY <1>12, <1>13, Zenon

\* What the software sees once it has read its word.
AfterRead(sw) == IF ReadIncrement(sw) THEN Tail(Visible) ELSE Visible

\* It is the rest of the words seen before.
LEMMA AfterReadWords ==
  ASSUME IInv, NEW sw
  PROVE  /\ AfterRead(sw) \in Seq(Words) /\ Len(AfterRead(sw)) = Used - One(ReadIncrement(sw))
         /\ \A i \in 1..(Used - One(ReadIncrement(sw))) :
              AfterRead(sw)[i] = ram[At(read_pointer, (i - 1) + One(ReadIncrement(sw)))]
<1>1. /\ Visible \in Seq(Words) /\ Len(Visible) = Used /\ Used \in Nat
      /\ \A i \in 1..Used : Visible[i] = ram[At(read_pointer, i - 1)]
  BY VisibleWords, WordCounts, SizeFacts DEF IInv
<1>2. CASE ReadIncrement(sw)
  <2>1. One(ReadIncrement(sw)) = 1 /\ Used > 0
    BY <1>2, ReadWord, Zenon DEF IInv
  <2>2. Visible # <<>>
    BY <2>1, <1>1
  <2>3. /\ Tail(Visible) \in Seq(Words) /\ Len(Tail(Visible)) = Used - 1
        /\ \A i \in 1..(Used - 1) : Tail(Visible)[i] = Visible[i + 1]
    BY <2>2, <1>1, HeadTailProperties, Zenon
  <2>4. ASSUME NEW i \in 1..(Used - 1) PROVE Tail(Visible)[i] = ram[At(read_pointer, (i - 1) + 1)]
    <3>1. i + 1 \in 1..Used /\ (i + 1) - 1 = (i - 1) + 1
      BY <1>1
    <3> QED
      BY <3>1, <2>3, <1>1, Zenon
  <2> QED
    BY <2>1, <2>3, <2>4, <1>2, Zenon DEF AfterRead
<1>3. CASE ~ReadIncrement(sw)
  <2>1. One(ReadIncrement(sw)) = 0
    BY <1>3, Zenon DEF One
  <2>2. Used - 0 = Used /\ \A i \in 1..Used : (i - 1) + 0 = i - 1
    BY <1>1
  <2> QED
    BY <2>1, <2>2, <1>1, <1>3 DEF AfterRead
<1> QED
  BY <1>2, <1>3, Zenon

\* A cycle without a release takes a word off, adds a whole frame, or does both.
LEMMA VisibleStep ==
  ASSUME IInv, ~ERFM, NEW cmd \in Commands, NEW sw, Tick(cmd, sw), ~rx_buf_res, "rrb" \notin sw
  PROVE  /\ Visible' = IF commit_rx_frame THEN AfterRead(sw) \o Fifo!Whole(frame, rwcnt)
                       ELSE AfterRead(sw)
         /\ Len(Visible') <= Size
<1> DEFINE r == One(ReadIncrement(sw))
           a == AfterRead(sw)
           w == Fifo!Whole(frame, rwcnt)
<1>1. r \in 0..1 /\ r <= Used /\ r \in Nat
  BY ReadWord DEF IInv
<1>2. /\ Used \in 0..Size /\ Partial \in 0..Size /\ Held = Used + Partial /\ Held \in 0..Size
      /\ Size \in Nat /\ Size >= 4 /\ read_pointer \in Addrs
  BY WordCounts, SizeFacts, Zenon DEF IInv, Types
<1>3. Used' = (IF commit_rx_frame THEN Held ELSE Used) - r
  BY ClockedCounts, Zenon
<1>4. read_pointer' = At(read_pointer, r) /\ read_pointer' \in Addrs
  BY ClockedPointers, Zenon
<1>5. /\ a \in Seq(Words) /\ Len(a) = Used - r
      /\ \A i \in 1..(Used - r) : a[i] = ram[At(read_pointer, (i - 1) + r)]
  BY AfterReadWords, Zenon
<1> HIDE DEF r, a
<1>6. Used' \in 0..Size
  BY <1>1, <1>2, <1>3
<1>7. /\ Visible' \in Seq(Words) /\ Len(Visible') = Used'
      /\ \A i \in 1..Used' : Visible'[i] = ram'[At(read_pointer', i - 1)]
  <2>1. ram' \in [Addrs -> Words]
    BY MemoryStep, Zenon
  <2> QED
    BY <2>1, <1>4, <1>6, WordsFrom, Zenon DEF Visible
<1>8. ASSUME NEW i \in 1..Used'
      PROVE  /\ At(read_pointer', i - 1) = At(read_pointer, (i - 1) + r)
             /\ (i - 1) + r \in 0..(Size - 1)
  <2>1. i - 1 \in 0..Size /\ r \in 0..Size /\ r + (i - 1) <= Size /\ (i - 1) + r = r + (i - 1) /\ (i - 1) + r \in 0..(Size - 1)
    BY <1>1, <1>2, <1>3
  <2>2. At(At(read_pointer, r), i - 1) = At(read_pointer, r + (i - 1))
    BY <2>1, <1>2, AtSteps
  <2> QED
    BY <2>1, <2>2, <1>4, Zenon
<1>9. CASE ~commit_rx_frame
  <2>1. Used' = Used - r
    BY <1>3, <1>9, Zenon
  <2>2. ASSUME NEW i \in 1..Used' PROVE Visible'[i] = a[i]
    <3>1. (i - 1) + r \in 0..(Size - 1) /\ (i - 1) + r < Used
      BY <2>1, <1>1, <1>2, <1>8
    <3>2. ~(PortAWrite(cmd) /\ (i - 1) + r = Used + WriteOffset)
      <4> SUFFICES ASSUME PortAWrite(cmd) PROVE (i - 1) + r # Used + WriteOffset
        BY Zenon
      <4>1. WriteOffset \in Nat
        BY WritePlace, Zenon DEF Tick
      <4> QED
        BY <4>1, <3>1, <1>2
    <3>3. ram'[At(read_pointer, (i - 1) + r)] = ram[At(read_pointer, (i - 1) + r)]
      BY <3>1, <3>2, MemoryStep, Zenon
    <3> QED
      BY <3>3, <2>1, <1>5, <1>7, <1>8, Zenon
  <2>3. Visible' = a
    BY <2>1, <2>2, <1>5, <1>7, SeqEqual, Zenon
  <2> QED
    BY <2>3, <1>6, <1>7, <1>9, <1>2 DEF a
<1>10. CASE commit_rx_frame
  <2>1. curr_state = "idle" /\ ~data_overrun_i
    BY <1>10, Zenon DEF IInv, FsmInv
  <2>2. ~PortAWrite(cmd)
    BY <2>1, WritePlace, Zenon DEF Tick
  <2>3. Partial = rwcnt + 1 /\ rwcnt \in Nat
    <3>1. rwcnt \in Nat
      BY SizeFacts DEF IInv, Types
    <3> QED
      BY <3>1, <2>1, <1>10, Zenon DEF IInv, PartialInv, StoredWords
  <2>4. /\ w \in Seq(Words) /\ Len(w) = rwcnt + 1 /\ w[1] = <<frame, 0, rwcnt>>
        /\ \A i \in 2..(rwcnt + 1) : w[i] = <<frame, i - 1, 0>>
    BY WholeWords DEF IInv, Types
  <2> HIDE DEF w
  <2>5. /\ a \o w \in Seq(Words) /\ Len(a \o w) = Len(a) + Len(w)
        /\ \A i \in 1..(Len(a) + Len(w)) : (a \o w)[i] = IF i <= Len(a) THEN a[i] ELSE w[i - Len(a)]
    BY <2>4, <1>5, ConcatProperties, Zenon
  <2>6. Used' = Held - r /\ Len(a) + Len(w) = Used'
    BY <2>3, <2>4, <1>1, <1>2, <1>3, <1>5, <1>10
  <2>7. ASSUME NEW i \in 1..Used' PROVE Visible'[i] = (a \o w)[i]
    <3>1. Visible'[i] = ram[At(read_pointer, (i - 1) + r)]
      BY <2>2, <1>7, <1>8, MemoryStep, Zenon
    <3>2. CASE i <= Used - r
      <4>1. i \in 1..(Used - r)
        BY <3>2, <2>6, <1>1, <1>2
      <4> QED
        BY <4>1, <3>1, <3>2, <2>5, <2>6, <1>5, ZenonT(60)
    <3>3. CASE i > Used - r
      <4> DEFINE k == ((i - 1) + r) - Used
      <4>1. k \in 0..(Partial - 1) /\ Used + k = (i - 1) + r /\ i - (Used - r) = k + 1 /\ k \in 0..rwcnt
        BY <3>3, <2>3, <2>6, <1>1, <1>2
      <4>2. (a \o w)[i] = w[k + 1]
        <5>1. ~(i <= Len(a)) /\ i \in 1..(Len(a) + Len(w)) /\ i - Len(a) = k + 1
          BY <4>1, <3>3, <2>6, <1>1, <1>2, <1>5
        <5> QED
          BY <5>1, <2>5, Zenon
      <4> HIDE DEF k
      <4>3. At(read_pointer, Used + k) = At(write_pointer, k)
        <5>1. k \in 0..Size /\ Used + k <= Size
          BY <4>1, <1>2
        <5> QED
          BY <5>1, <1>2, AtSteps DEF IInv, Pointers
      <4>4. ram[At(write_pointer, k)] = WordAt(frame, rwcnt, k)
        BY <4>1, <2>1, Zenon DEF IInv, WordsInv, Due
      <4>5. w[k + 1] = WordAt(frame, rwcnt, k)
        <5>1. CASE k = 0
          <6>1. k + 1 = 1
            BY <5>1
          <6> QED
            BY <5>1, <6>1, <2>4, Zenon DEF WordAt
        <5>2. CASE k # 0
          <6>1. k + 1 \in 2..(rwcnt + 1) /\ (k + 1) - 1 = k
            BY <5>2, <4>1, <2>3
          <6> QED
            BY <5>2, <6>1, <2>4, Zenon DEF WordAt
        <5> QED
          BY <5>1, <5>2, Zenon
      <4> QED
        BY <4>1, <4>2, <4>3, <4>4, <4>5, <3>1
    <3>4. i <= Used - r \/ i > Used - r
      BY <1>1, <1>2, <1>6
    <3> QED
      BY <3>2, <3>3, <3>4, Zenon
  <2>8. Visible' = a \o w
    BY <2>5, <2>6, <2>7, <1>7, SeqEqual, Zenon
  <2> QED
    BY <2>8, <1>6, <1>7, <1>10, <1>2 DEF a, w
<1> QED
  BY <1>9, <1>10, Zenon

\* FrameInv is preserved.
LEMMA ClockedFrames ==
  ASSUME IInv, ~ERFM, NEW cmd \in Commands, NEW sw, Tick(cmd, sw), ~rx_buf_res, "rrb" \notin sw
  PROVE  FrameInv'
<1> DEFINE v == Visible
           c == read_counter_q
           n == Cardinality(Starts(v))
           a == AfterRead(sw)
           d == ReadCounter(sw)
           m == Cardinality(Starts(a))
<1>1. /\ v \in Seq(Words) /\ Len(v) = Used /\ Used \in 0..Size /\ Size \in Nat
      /\ \A i \in 1..Used : v[i] = ram[At(read_pointer, i - 1)]
  BY VisibleWords, WordCounts, SizeFacts, Zenon DEF IInv
<1>2. Framed(v, c) /\ c < Size /\ frame_count = n + One(c > 0) /\ n \in Nat
  BY <1>1, StartsFinite, Zenon DEF IInv, FrameInv
<1>3. c \in Nat
  BY <1>1, <1>2 DEF Framed
<1>4. a \in Seq(Words)
  BY AfterReadWords, Zenon
<1>5. m \in Nat
  BY <1>4, StartsFinite, Zenon
<1>6. /\ Framed(a, d) /\ d \in Nat /\ d < Size
      /\ m + One(d > 0) = IF ReadIncrement(sw) /\ c = 1 THEN frame_count - 1 ELSE frame_count
  <2>1. CASE ReadIncrement(sw)
    <3>1. Used > 0
      BY <2>1, ReadWord, Zenon DEF IInv
    <3>2. v # <<>> /\ a = Tail(v)
      BY <3>1, <2>1, <1>1 DEF AfterRead
    <3>3. data_out = v[1]
      <4>1. 1 \in 1..Used /\ 1 - 1 = 0 /\ read_pointer \in Addrs
        BY <3>1, <1>1 DEF IInv, Types
      <4>2. v[1] = ram[At(read_pointer, 0)]
        BY <4>1, <1>1, Zenon
      <4>3. At(read_pointer, 0) = read_pointer
        BY <4>1, AtSteps, Zenon
      <4> QED
        BY <4>2, <4>3, <3>1, Zenon DEF IInv, FreshInv
    <3>4. d = AfterWord(v, c)
      BY <3>3, <2>1, Zenon DEF ReadCounter, AfterWord
    <3>5. Framed(a, d)
      BY <3>2, <3>4, <1>1, <1>2, FramedTail, Zenon
    <3>6. m = IF c = 0 THEN n - 1 ELSE n
      BY <3>2, <1>1, <1>2, CountTail, Zenon
    <3> HIDE DEF v, c, n, a, d, m
    <3>7. c = 0 => d \in Nat /\ d > 0 /\ d < Size
      <4> SUFFICES ASSUME c = 0 PROVE d \in Nat /\ d > 0 /\ d < Size
        BY Zenon
      <4>1. v[1][2] = 0 /\ v[1] \in Words
        BY <3>1, <1>1, <1>2, ElementOfSeq DEF Framed
      <4>2. v[1][3] \in Nat /\ v[1][3] < Size
        BY <4>1, <1>1, WordParts
      <4>3. v[1][3] >= 3
        BY <4>1, <3>1, <1>1, <1>2 DEF Framed
      <4>4. d = v[1][3]
        BY <3>4, <1>3 DEF AfterWord
      <4> QED
        BY <4>2, <4>3, <4>4
    <3>8. c > 0 => d = c - 1
      BY <3>4, <1>3, Zenon DEF AfterWord
    <3>9. d \in Nat /\ d < Size
      BY <3>7, <3>8, <1>1, <1>2, <1>3
    <3>10. m + One(d > 0) = IF c = 1 THEN frame_count - 1 ELSE frame_count
      BY <3>6, <3>7, <3>8, <1>2, <1>3 DEF One
    <3> QED
      BY <3>5, <3>9, <3>10, <2>1, Zenon
  <2>2. CASE ~ReadIncrement(sw)
    <3>1. a = v /\ d = c
      BY <2>2, Zenon DEF AfterRead, ReadCounter
    <3> QED
      BY <3>1, <2>2, <1>2, <1>3, Zenon
  <2> QED
    BY <2>1, <2>2, Zenon
<1>7. /\ read_counter_q' = d
      /\ frame_count' = IF ReadIncrement(sw) /\ c = 1
                        THEN IF commit_rx_frame THEN frame_count ELSE frame_count - 1
                        ELSE IF commit_rx_frame THEN frame_count + 1 ELSE frame_count
  BY Clocked, Zenon DEF FrameCount
<1>8. frame_count \in Nat
  BY FramesAndWords, Zenon DEF IInv
<1> HIDE DEF c, d, m, a, n, v
<1>9. One(d > 0) \in Nat /\ frame_count' = (m + One(d > 0)) + (IF commit_rx_frame THEN 1 ELSE 0)
  <2>1. One(d > 0) \in Nat
    BY Zenon DEF One
  <2> QED
    BY <2>1, <1>5, <1>6, <1>7, <1>8
<1>10. CASE commit_rx_frame
  <2>1. Visible' = a \o Fifo!Whole(frame, rwcnt)
    BY <1>10, VisibleStep, Zenon DEF a
  <2>2. frame \in Frames /\ rwcnt \in Counts \cup {3}
    BY Zenon DEF IInv, Types
  <2>3. Framed(Visible', d)
    BY <2>1, <2>2, <1>4, <1>6, FramedAppend, Zenon
  <2>4. Cardinality(Starts(Visible')) = m + 1
    BY <2>1, <2>2, <1>4, CountAppend, Zenon DEF m
  <2>5. frame_count' = Cardinality(Starts(Visible')) + One(d > 0)
    BY <2>4, <1>5, <1>9, <1>10
  <2> QED
    BY <2>3, <2>5, <1>6, <1>7, Zenon DEF FrameInv, Framed, Starts, One
<1>11. CASE ~commit_rx_frame
  <2>1. Visible' = a
    BY <1>11, VisibleStep, Zenon DEF a
  <2>2. frame_count' = Cardinality(Starts(Visible')) + One(d > 0)
    BY <2>1, <1>5, <1>9, <1>11 DEF m
  <2> QED
    BY <2>1, <2>2, <1>6, <1>7, Zenon DEF FrameInv, Framed, Starts, One
<1> QED
  BY <1>10, <1>11, Zenon

\* FreshInv is preserved.
LEMMA ClockedFresh ==
  ASSUME IInv, ~ERFM, NEW cmd \in Commands, NEW sw, Tick(cmd, sw), ~rx_buf_res, "rrb" \notin sw
  PROVE  FreshInv'
<1> SUFFICES ASSUME Used' > 0 \/ (~data_overrun_i' /\ Partial' >= 2)
             PROVE  data_out' = ram'[read_pointer']
  BY Zenon DEF FreshInv
<1> DEFINE r == One(ReadIncrement(sw))
<1>1. r \in 0..1 /\ r <= Used /\ r \in Nat
  BY ReadWord DEF IInv
<1>2. /\ Used \in 0..Size /\ Partial \in 0..Size /\ Held = Used + Partial /\ Held \in 0..Size
      /\ Size \in Nat /\ Size >= 4 /\ read_pointer \in Addrs
  BY WordCounts, SizeFacts, Zenon DEF IInv, Types
<1>3. Used' = (IF commit_rx_frame THEN Held ELSE Used) - r
  BY ClockedCounts, Zenon
<1>4. Partial' = IF commit_rx_frame \/ AbortApplied(cmd) THEN 0 ELSE Partial + One(WriteRawOK(cmd))
  BY PartialStep, Zenon
<1>5. read_pointer' = At(read_pointer, r) /\ read_pointer' = ReadPointer(sw)
  BY ClockedPointers, Clocked, Zenon
<1>6. data_out' = IF RamClkEn(cmd, sw) THEN ram[ReadPointer(sw)] ELSE data_out
  BY MemoryStep, Zenon
<1> HIDE DEF r
<1>7. ram'[read_pointer'] = ram[read_pointer']
  <2>1. ~(PortAWrite(cmd) /\ r = Used + WriteOffset)
    <3> SUFFICES ASSUME PortAWrite(cmd), r = Used + WriteOffset PROVE FALSE
      BY Zenon
    <3>1. ~commit_rx_frame /\ WriteOffset \in Nat /\ Legal(cmd)
      BY WritePlace, Zenon DEF Tick
    <3>2. WriteOffset = 0 /\ Used = r
      BY <3>1, <1>1, <1>2
    <3>3. Partial = 0
      BY <3>2 DEF WriteOffset
    <3>4. Used' = 0
      BY <3>1, <3>2, <1>1, <1>3
    <3>5. Partial' \in {0, 1}
      BY <3>3, <1>4 DEF One
    <3> QED
      BY <3>4, <3>5
  <2>2. r \in 0..(Size - 1)
    BY <1>1, <1>2
  <2> QED
    BY <2>1, <2>2, <1>5, MemoryStep, Zenon
<1>8. CASE RamClkEn(cmd, sw)
  BY <1>5, <1>6, <1>7, <1>8, Zenon
<1>9. CASE ~RamClkEn(cmd, sw)
  <2>1. ~PortAWrite(cmd) /\ ~ReadIncrement(sw)
    BY <1>9, Zenon DEF RamClkEn, ReadIncrement
  <2>2. read_pointer' = read_pointer
    BY <2>1, <1>5, Zenon DEF ReadPointer
  <2>3. One(WriteRawOK(cmd)) = 0 /\ r = 0
    BY <2>1, Zenon DEF One, PortAWrite, r
  <2>4. Used > 0 \/ (~data_overrun_i /\ Partial >= 2)
    <3>1. CASE commit_rx_frame
      <4>1. ~data_overrun_i /\ Partial = rwcnt + 1 /\ rwcnt \in 3..(Size - 1)
        BY <3>1, SizeFacts, Zenon DEF IInv, FsmInv, PartialInv, StoredWords, Types
      <4> QED
        BY <4>1, <1>2
    <3>2. CASE ~commit_rx_frame /\ Used' > 0
      BY <3>2, <2>3, <1>2, <1>3
    <3>3. CASE ~commit_rx_frame /\ ~data_overrun_i' /\ Partial' >= 2
      <4>1. ~AbortApplied(cmd) /\ Partial >= 2
        BY <3>3, <2>3, <1>2, <1>4
      <4>2. curr_state # "idle"
        BY <4>1, <3>3, <1>2 DEF IInv, PartialInv, AbortApplied
      <4>3. ~data_overrun_i
        BY <4>2, <3>3, ClockedFsm, Zenon
      <4> QED
        BY <4>1, <4>3, Zenon
    <3> QED
      BY <3>1, <3>2, <3>3, Zenon
  <2>5. data_out = ram[read_pointer]
    BY <2>4, Zenon DEF IInv, FreshInv
  <2> QED
    BY <2>2, <2>5, <1>6, <1>7, <1>9, Zenon
<1> QED
  BY <1>8, <1>9, Zenon

\* A cycle without a release preserves the invariant.
LEMMA ClockedIInv ==
  ASSUME IInv, ~ERFM, NEW cmd \in Commands, NEW sw, Tick(cmd, sw), ~rx_buf_res, "rrb" \notin sw
  PROVE  IInv'
<1>1. Types' /\ FsmInv'
  BY ClockedFsm, Zenon
<1>2. Pointers'
  BY ClockedPointers, Zenon
<1>3. PartialInv' /\ TsInv' /\ WordsInv' /\ FrameInv' /\ FreshInv'
  BY ClockedPartial, ClockedTs, ClockedWords, ClockedFrames, ClockedFresh, Zenon
<1> QED
  BY <1>1, <1>2, <1>3, Zenon DEF IInv

-----------------------------------------------------------------------------
(* A release, and the beginning                                             *)

\* With empty memory there are no frames.
LEMMA EmptyFrames == Framed(<<>>, 0) /\ Cardinality(Starts(<<>>)) = 0
<1>1. Len(<<>>) = 0
  BY Zenon
<1>2. Starts(<<>>) = {}
  BY <1>1 DEF Starts
<1> QED
  BY <1>1, <1>2, FS_EmptySet DEF Framed

\* A release empties the buffer, and the frame being stored is lost.
LEMMA ReleasedIInv ==
  ASSUME IInv, ~ERFM, NEW cmd \in Commands, NEW sw, Tick(cmd, sw), rx_buf_res \/ "rrb" \in sw
  PROVE  IInv' /\ Visible' = <<>>
<1>0. Legal(cmd) /\ Core(cmd) /\ curr_state' = NextState(cmd)
  BY Zenon DEF Tick
<1>1. Size \in Nat /\ Size >= 4 /\ 0 \in Addrs /\ At(0, 0) = 0 /\ Size \in 0..Size
  BY SizeFacts DEF At
<1>2. /\ read_pointer' = 0 /\ write_pointer' = 0 /\ write_pointer_raw' = 0 /\ write_pointer_ts' = 0
      /\ rx_mem_free_i' = Size /\ rx_mem_free_raw' = Size
      /\ frame_count' = 0 /\ read_counter_q' = 0
  BY Released, Zenon
<1>3. Used' = 0 /\ Held' = 0 /\ Partial' = 0
  BY <1>1, <1>2 DEF Used, Held, Partial
<1>4. /\ commit_rx_frame' = FALSE /\ commit_overrun_abort' = FALSE /\ data_overrun_flg' = FALSE
      /\ rx_buf_res' = ("rrb" \in sw) /\ data_overrun_i' = InternalOverrun(cmd, sw)
  BY Released, Zenon
<1>5. rx_buf_res => data_overrun_i
  BY Zenon DEF IInv, FsmInv
<1>6. data_overrun_i' <=> OverrunCondition(cmd) \/ "rrb" \in sw \/ (data_overrun_i /\ curr_state # "idle")
  BY <1>4, Zenon DEF InternalOverrun, ResetOverrunFlag
<1>7. curr_state # "idle" => data_overrun_i'
  BY <1>5, <1>6, Zenon
<1>8. Types'
  <2>1. curr_state' \in States \ ErrStates
    BY <1>0, FsmStatesNext, Zenon DEF IInv
  <2>2. ("rrb" \in sw) \in BOOLEAN
    OBVIOUS
  <2>3. /\ commit_rx_frame' \in BOOLEAN /\ commit_overrun_abort' \in BOOLEAN
        /\ data_overrun_flg' \in BOOLEAN /\ rx_buf_res' \in BOOLEAN
    BY <1>4, <2>2, Zenon
  <2>4. data_overrun_i' \in BOOLEAN
    BY <1>4, Zenon DEF InternalOverrun
  <2>5. ram' \in [Addrs -> Words] /\ data_out' \in Words
    BY MemoryStep, Zenon
  <2>6. frame' \in Frames /\ rwcnt' \in Counts \cup {3} /\ to_store' \in Nat /\ to_store' <= rwcnt' - 3
    BY <1>0, CoreStep, Zenon DEF IInv
  <2>7. /\ read_pointer' \in Addrs /\ write_pointer' \in Addrs
        /\ write_pointer_raw' \in Addrs /\ write_pointer_ts' \in Addrs
        /\ rx_mem_free_i' \in 0..Size /\ rx_mem_free_raw' \in 0..Size
    BY <1>1, <1>2, Zenon
  <2> QED
    BY <2>1, <2>3, <2>4, <2>5, <2>6, <2>7, Zenon DEF Types
<1>9. Pointers'
  BY <1>1, <1>2, <1>3 DEF Pointers
<1>10. FsmInv'
  <2>1. rx_buf_res' => data_overrun_i'
    BY <1>4, <1>6, Zenon
  <2>2. ~commit_rx_frame' /\ ~commit_overrun_abort'
    BY <1>4, Zenon
  <2>3. curr_state' \in {"end_ts_low", "end_ts_high"} => to_store' = 0
    <3> SUFFICES ASSUME curr_state' \in {"end_ts_low", "end_ts_high"} PROVE to_store' = 0
      BY Zenon
    <3>1. (curr_state = "data" /\ cmd = "rec_valid") \/ (curr_state = "end_ts_low" /\ cmd = "none")
      BY <1>0, FsmStep, FsmStates, Zenon DEF IInv
    <3>2. to_store' = to_store
      BY <3>1, <1>0, CoreStep, Zenon DEF IInv
    <3>3. to_store = 0
      BY <3>1, <1>0, FsmStep, Zenon DEF IInv, FsmInv
    <3> QED
      BY <3>2, <3>3, Zenon
  <2>4. curr_state' \in {"frame_format", "identifier", "skip_ts_low", "skip_ts_high"} => to_store' = rwcnt' - 3
    <3> SUFFICES ASSUME curr_state' \in {"frame_format", "identifier", "skip_ts_low", "skip_ts_high"}
                 PROVE to_store' = rwcnt' - 3
      BY Zenon
    <3>1. \/ cmd = "store_metadata"
          \/ curr_state \in {"frame_format", "identifier", "skip_ts_low"} /\ cmd = "none"
      BY <1>0, FsmStep, FsmStates, Zenon DEF IInv
    <3>2. cmd = "none" => to_store' = to_store /\ rwcnt' = rwcnt
      BY <1>0, CoreStep, Zenon DEF IInv
    <3>3. cmd = "store_metadata" => to_store' = rwcnt' - 3
      BY <1>0, CoreStep, Zenon DEF IInv
    <3> QED
      BY <3>1, <3>2, <3>3, Zenon DEF IInv, FsmInv
  <2> QED
    BY <2>1, <2>2, <2>3, <2>4, Zenon DEF FsmInv
<1>11. curr_state = "idle" => curr_state' \in {"idle", "frame_format"}
  BY <1>0, FsmStep, Zenon DEF IInv
<1>12. PartialInv'
  <2>1. ~commit_rx_frame'
    BY <1>4, Zenon
  <2>2. ~data_overrun_i' => StoredWords' = 0
    BY <2>1, <1>7, <1>11, Zenon DEF StoredWords
  <2> QED
    BY <2>2, <1>3, Zenon DEF PartialInv
<1>13. TsInv'
  BY <1>7, <1>11, Zenon DEF TsInv
<1>14. WordsInv' /\ FreshInv'
  BY <1>3 DEF WordsInv, FreshInv
<1>15. Visible' = <<>>
  BY <1>3 DEF Visible
<1>16. FrameInv'
  <2>1. Framed(Visible', read_counter_q') /\ read_counter_q' < Size
    BY <1>1, <1>2, <1>15, EmptyFrames
  <2>2. frame_count' = Cardinality(Starts(Visible')) + One(read_counter_q' > 0)
    BY <1>2, <1>15, EmptyFrames DEF One
  <2> QED
    BY <2>1, <2>2, Zenon DEF FrameInv, Framed, Starts, One
<1> QED
  BY <1>8, <1>9, <1>10, <1>12, <1>13, <1>14, <1>15, <1>16, Zenon DEF IInv

\* The invariant holds at the beginning.
LEMMA InitIInv == Init => IInv
<1> SUFFICES ASSUME Init PROVE IInv
  BY Zenon
<1>1. Size \in Nat /\ Size >= 4 /\ 0 \in Addrs /\ At(0, 0) = 0 /\ Size \in 0..Size
  BY SizeFacts DEF At
<1>2. Used = 0 /\ Held = 0 /\ Partial = 0 /\ Visible = <<>>
  BY <1>1 DEF Init, Used, Held, Partial, Visible
<1>3. Zero \in Words /\ 0 \in Frames
  BY <1>1, RxBufferAssumption DEF Zero, Words, Frames
<1>4. Types
  <2>1. /\ curr_state \in States \ ErrStates /\ rwcnt \in Counts \cup {3}
        /\ to_store \in Nat /\ to_store <= rwcnt - 3
    BY DEF Init, States, ErrStates
  <2>2. /\ commit_rx_frame \in BOOLEAN /\ commit_overrun_abort \in BOOLEAN
        /\ data_overrun_flg \in BOOLEAN /\ data_overrun_i \in BOOLEAN /\ rx_buf_res \in BOOLEAN
    BY Zenon DEF Init
  <2>3. ram \in [Addrs -> Words] /\ data_out \in Words /\ frame \in Frames
    BY <1>3, Zenon DEF Init
  <2>4. /\ read_pointer \in Addrs /\ write_pointer \in Addrs
        /\ write_pointer_raw \in Addrs /\ write_pointer_ts \in Addrs
        /\ rx_mem_free_i \in 0..Size /\ rx_mem_free_raw \in 0..Size
    BY <1>1, Zenon DEF Init
  <2> QED
    BY <2>1, <2>2, <2>3, <2>4, Zenon DEF Types
<1>5. Pointers /\ FsmInv
  BY <1>1, <1>2 DEF Init, Pointers, FsmInv
<1>6. PartialInv /\ TsInv /\ WordsInv /\ FreshInv
  BY <1>2 DEF Init, PartialInv, StoredWords, TsInv, WordsInv, FreshInv
<1>7. FrameInv
  BY <1>1, <1>2, EmptyFrames DEF Init, FrameInv, One
<1> QED
  BY <1>4, <1>5, <1>6, <1>7, Zenon DEF IInv

\* Every cycle preserves the invariant.
LEMMA NextIInv == ~ERFM /\ IInv /\ [Next]_vars => IInv'
<1> SUFFICES ASSUME ~ERFM, IInv, [Next]_vars PROVE IInv'
  BY Zenon
<1>1. ASSUME NEW cmd \in Commands, NEW sw \in Accesses, Tick(cmd, sw) PROVE IInv'
  BY <1>1, ClockedIInv, ReleasedIInv, Zenon
<1>2. CASE UNCHANGED vars
  <2> USE <1>2 DEF vars, regs
  <2>1. Used' = Used /\ Held' = Held /\ Partial' = Partial /\ Visible' = Visible /\ StoredWords' = StoredWords
    BY Zenon DEF Used, Held, Partial, Visible, StoredWords
  <2>2. Types' /\ Pointers' /\ FsmInv'
    BY <2>1, Zenon DEF IInv, Types, Pointers, FsmInv
  <2>3. PartialInv' /\ TsInv' /\ WordsInv'
    BY <2>1, Zenon DEF IInv, PartialInv, TsInv, WordsInv, Due
  <2>4. FrameInv' /\ FreshInv'
    BY <2>1, Zenon DEF IInv, FrameInv, FreshInv, Framed, Starts, One
  <2> QED
    BY <2>2, <2>3, <2>4, Zenon DEF IInv
<1> QED
  BY <1>1, <1>2, Zenon DEF Next

-----------------------------------------------------------------------------
(* The theorems                                                             *)

\* The invariant makes the outputs exact.
LEMMA ExactOutputs == ASSUME IInv PROVE OutputsExact
<1> DEFINE n == Cardinality(Starts(Visible))
           c == read_counter_q
<1>1. /\ Visible \in Seq(Words) /\ Len(Visible) = Used /\ Used \in 0..Size /\ Held \in 0..Size
      /\ Size \in Nat /\ Used \in Nat
  BY VisibleWords, WordCounts, SizeFacts DEF IInv
<1>2. /\ Framed(Visible, c) /\ c < Size /\ c \in Nat /\ n \in Nat
      /\ 4 * n <= Used - c /\ frame_count = n + One(c > 0)
  BY <1>1, StartsFinite, FewFrames, Zenon DEF IInv, FrameInv
<1> HIDE DEF n, c
<1>3. frame_count \in 0..(Size \div 4)
  <2>1. PICK k \in Nat : Size = 4 * k
    BY <1>1, RxBufferAssumption, Z3
  <2>2. Size \div 4 = k
    BY <2>1
  <2>3. frame_count \in Nat /\ frame_count <= k
    BY <2>1, <1>1, <1>2 DEF One
  <2> QED
    BY <2>1, <2>2, <2>3
<1>4. BTypeOK
  <2>1. read_counter_q \in 0..(Size - 1)
    BY <1>1, <1>2 DEF c
  <2>2. to_store \in 0..Size
    BY SizeFacts DEF IInv, Types
  <2>3. {commit_rx_frame, commit_overrun_abort, data_overrun_flg, data_overrun_i, rx_buf_res} \subseteq BOOLEAN
    BY Zenon DEF IInv, Types
  <2>4. curr_state \in States
    BY Zenon DEF IInv, Types
  <2>5. /\ {read_pointer, write_pointer, write_pointer_raw, write_pointer_ts} \subseteq Addrs
        /\ {rx_mem_free_i, rx_mem_free_raw} \subseteq 0..Size
    BY Zenon DEF IInv, Types
  <2>6. ram \in [Addrs -> Words] /\ data_out \in Words /\ frame \in Frames /\ rwcnt \in Counts \cup {3}
    BY Zenon DEF IInv, Types
  <2> QED
    BY <1>3, <2>1, <2>2, <2>3, <2>4, <2>5, <2>6, ZenonT(60) DEF BTypeOK
<1>5. FrameCountExact
  <2>1. {i \in 1..Used : Visible[i][2] = 0} = Starts(Visible)
    BY <1>1, Zenon DEF Starts
  <2>2. Used > 0 /\ Visible[1][2] # 0 <=> c > 0
    BY <1>1, <1>2 DEF Framed
  <2>3. frame_count = IF c > 0 THEN n + 1 ELSE n
    BY <1>2 DEF One
  <2> QED
    BY <2>1, <2>2, <2>3, Zenon DEF FrameCountExact, n
<1>6. MemFreeExact
  <2>1. read_pointer \in Addrs
    BY Zenon DEF IInv, Types
  <2>2. (read_pointer + Used) % Size = At(read_pointer, Used) /\ (read_pointer + Held) % Size = At(read_pointer, Held)
    BY <1>1, <2>1, AtMod, Zenon
  <2> QED
    BY <2>2, Zenon DEF IInv, Pointers, MemFreeExact, Held
<1>7. DataOutFresh
  <2>1. frame_count > 0 <=> Used > 0
    BY FramesAndWords, Zenon DEF IInv
  <2> QED
    BY <2>1, Zenon DEF IInv, FreshInv, DataOutFresh
<1> QED
  BY <1>4, <1>5, <1>6, <1>7, ZenonT(60) DEF OutputsExact

\* With error frames not logged, what the software reads of the RX buffer is exact in
\* every cycle, for every memory size and all frames: RX_STATUS.RXFRC is the number of
\* frames with a word still to read, the free memory agrees with the pointers, and
\* RX_DATA shows the word at the read pointer although the memory is clocked only on
\* accesses (rx_buffer.vhd, rx_buffer_pointers.vhd).
THEOREM RxOutputsExact == ASSUME ~ERFM PROVE Spec => []OutputsExact
<1>1. IInv /\ [Next]_vars => IInv'
  BY NextIInv, Zenon
<1>2. IInv => OutputsExact
  BY ExactOutputs, Zenon
<1> QED
  BY InitIInv, <1>1, <1>2, PTL DEF Spec

\* The words the software sees are those of a FIFO of whole frames.
LEMMA FifoStep == ASSUME ~ERFM, IInv, [Next]_vars PROVE [Fifo!Next]_Visible
<1>1. ASSUME NEW cmd \in Commands, NEW sw \in Accesses, Tick(cmd, sw)
      PROVE  Fifo!Next
  <2>1. CASE rx_buf_res \/ "rrb" \in sw
    BY <1>1, <2>1, ReleasedIInv, Zenon DEF Fifo!Next, Fifo!Release
  <2>2. CASE ~rx_buf_res /\ "rrb" \notin sw
    <3> DEFINE rd == ReadIncrement(sw)
    <3>1. /\ Visible' = IF commit_rx_frame THEN AfterRead(sw) \o Fifo!Whole(frame, rwcnt) ELSE AfterRead(sw)
          /\ Len(Visible') <= Size
      BY <1>1, <2>2, VisibleStep, Zenon
    <3>2. rd \in BOOLEAN
      BY Zenon DEF ReadIncrement
    <3>3. rd => Visible # <<>>
      <4> SUFFICES ASSUME rd PROVE Visible # <<>>
        BY Zenon
      <4>1. Used > 0 /\ Len(Visible) = Used
        BY ReadWord, VisibleWords, Zenon DEF IInv
      <4> QED
        BY <4>1
    <3>4. AfterRead(sw) = Fifo!AfterRead(rd)
      BY Zenon DEF AfterRead, Fifo!AfterRead
    <3>5. frame \in Frames /\ rwcnt \in Counts \cup {3}
      BY Zenon DEF IInv, Types
    <3> HIDE DEF rd
    <3>6. \/ Visible' = Fifo!AfterRead(rd)
          \/ \E f \in Frames, n \in Counts \cup {3} : Visible' = Fifo!AfterRead(rd) \o Fifo!Whole(f, n)
      BY <3>1, <3>4, <3>5, Zenon
    <3>7. Fifo!Move(rd)
      BY <3>1, <3>3, <3>6, Zenon DEF Fifo!Move
    <3> QED
      BY <3>2, <3>7, Zenon DEF Fifo!Next
  <2> QED
    BY <2>1, <2>2, Zenon
<1>2. CASE UNCHANGED vars
  BY <1>2, Zenon DEF vars, regs, Visible, Used
<1> QED
  BY <1>1, <1>2, Zenon DEF Next

\* With error frames not logged, the RX buffer implements a FIFO of whole frames, for
\* every memory size: frames go in whole and in order, whatever is aborted, overrun or
\* released while they are stored, and words come out one at a time (rx_buffer.vhd,
\* rx_buffer_fsm.vhd).
THEOREM RxImplementsFrameFifo == ASSUME ~ERFM PROVE Spec => ImplementsFrameFifo
<1>1. Init => Fifo!Init
  <2> SUFFICES ASSUME Init PROVE Visible = <<>>
    BY Zenon DEF Fifo!Init
  <2>1. Used = 0
    BY SizeFacts DEF Init, Used
  <2> QED
    BY <2>1 DEF Visible
<1>2. IInv /\ [Next]_vars => IInv'
  BY NextIInv
<1>3. IInv /\ [Next]_vars => [Fifo!Next]_Visible
  BY FifoStep, Zenon
<1> QED
  BY InitIInv, <1>1, <1>2, <1>3, PTL DEF Spec, ImplementsFrameFifo, Fifo!Spec

=============================================================================

----------------------------- MODULE CodecProofs -----------------------------
(***************************************************************************)
(* Proofs about Codec: what is written is read back, for every number,     *)
(* script, transaction and block; the block of a share is the one that the *)
(* miner hashed, whatever the number of transactions; the key of a share   *)
(* tells its work; the two divisions of a target agree; and a JSON value,  *)
(* nested however deep, is read back exactly when its text can carry it,   *)
(* while no part of a text without quotation marks in it is ever read.     *)
(***************************************************************************)
EXTENDS Codec, SequenceTheorems, NaturalsInduction, WellFoundedInduction, TLAPS

-----------------------------------------------------------------------------
(***************************************************************************)
(* Induction, and recursive functions on the naturals.                     *)
(***************************************************************************)
\* A nonempty set of naturals has a least element.
LEMMA LeastElement ==
    ASSUME NEW T \in SUBSET Nat, T # {}
    PROVE  \E x \in T : \A y \in T : x <= y
<1> DEFINE R == {s \in Nat \X Nat : s[1] < s[2]}
<1>1. IsWellFoundedOn(R, Nat)
      BY NatLessThanWellFounded DEF OpToRel
<1>2. PICK x \in T : \A y \in T : <<y, x>> \notin R
      BY <1>1, WFMin
<1>3. \A y \in T : ~(y < x)
  <2> SUFFICES ASSUME NEW y \in T, y < x PROVE FALSE
      OBVIOUS
  <2>1. <<y, x>> \in Nat \X Nat /\ <<y, x>>[1] < <<y, x>>[2]
        OBVIOUS
  <2> QED BY <1>2, <2>1
<1> QED BY <1>3

\* Induction over the naturals, for a set instead of a predicate.
LEMMA Induction ==
    ASSUME NEW T, 0 \in T, \A n \in Nat : n \in T => n + 1 \in T
    PROVE  Nat \subseteq T
<1> SUFFICES ASSUME NEW m \in Nat, m \notin T PROVE FALSE
    OBVIOUS
<1>1. PICK x \in Nat \ T : \A y \in Nat \ T : x <= y
  <2>1. Nat \ T \in SUBSET Nat /\ Nat \ T # {}
        OBVIOUS
  <2> QED BY <2>1, LeastElement
<1>2. x - 1 \in Nat /\ x - 1 \in T
      BY <1>1
<1> QED BY <1>1, <1>2

\* Two runs of the same steps from the same start end in the same place.
Alike(n, f, g) == f[0] = g[0] /\ \A i \in 1..n : f[i - 1] = g[i - 1] => f[i] = g[i]

LEMMA SameRun ==
    ASSUME NEW n \in Nat, NEW f, NEW g, Alike(n, f, g)
    PROVE  \A i \in 0..n : f[i] = g[i]
<1> USE DEF Alike
<1> DEFINE T == {i \in Nat : i <= n => f[i] = g[i]}
<1>1. 0 \in T
      OBVIOUS
<1>2. ASSUME NEW i \in Nat, i \in T PROVE i + 1 \in T
  <2>1. CASE i + 1 <= n
    <3>1. f[i] = g[i] /\ i + 1 \in 1..n /\ (i + 1) - 1 = i
          BY <1>2, <2>1
    <3> QED BY <3>1
  <2> QED BY <2>1
<1>3. Nat \subseteq T
  <2> HIDE DEF T
  <2> QED BY <1>1, <1>2, Induction
<1> QED BY <1>3

\* A first value and a step define a sequence of values.
Steps(D) == [Nat \X D -> D]
Iterates(f, D, init, step) ==
    f \in [Nat -> D] /\ f[0] = init /\ \A i \in Nat : f[i + 1] = step[<<i + 1, f[i]>>]

LEMMA Iteration ==
    ASSUME NEW D, NEW init, NEW step, init \in D, step \in Steps(D)
    PROVE  \E f : Iterates(f, D, init, step)
<1> USE DEF Steps
<1> DEFINE Run(n, g) == g \in [0..n -> D] /\ g[0] = init
                        /\ \A i \in 0..n : i # n => g[i + 1] = step[<<i + 1, g[i]>>]
           T == {n \in Nat : \E g : Run(n, g)}
<1>1. 0 \in T
  <2>1. Run(0, [i \in 0..0 |-> init])
        OBVIOUS
  <2> HIDE DEF Run
  <2> QED BY <2>1
<1>2. ASSUME NEW n \in Nat, n \in T PROVE n + 1 \in T
  <2>1. PICK g : Run(n, g)
        BY <1>2
  <2> DEFINE h == [i \in 0..(n + 1) |-> IF i = n + 1 THEN step[<<n + 1, g[n]>>] ELSE g[i]]
  <2>2. Run(n + 1, h)
    <3>1. g[n] \in D /\ <<n + 1, g[n]>> \in Nat \X D
          BY <2>1
    <3>2. h \in [0..(n + 1) -> D]
          BY <2>1, <3>1
    <3>3. h[0] = init
          BY <2>1
    <3>4. ASSUME NEW i \in 0..(n + 1), i # n + 1 PROVE h[i + 1] = step[<<i + 1, h[i]>>]
      <4>1. CASE i = n
        <5>1. h[n + 1] = step[<<n + 1, g[n]>>] /\ h[n] = g[n]
              OBVIOUS
        <5> QED BY <4>1, <5>1
      <4>2. CASE i # n
        <5>1. i \in 0..n /\ i + 1 \in 0..(n + 1) /\ i + 1 # n + 1
              BY <4>2, <3>4
        <5>2. g[i + 1] = step[<<i + 1, g[i]>>]
              BY <5>1, <4>2, <2>1
        <5>3. h[i + 1] = g[i + 1] /\ h[i] = g[i]
              BY <5>1, <3>4
        <5> QED BY <5>2, <5>3
      <4> QED BY <4>1, <4>2
    <3> HIDE DEF h
    <3> QED BY <3>2, <3>3, <3>4
  <2> HIDE DEF h, Run
  <2> QED BY <2>2
<1>3. Nat \subseteq T
  <2> HIDE DEF T
  <2> QED BY <1>1, <1>2, Induction
<1> DEFINE G == [n \in Nat |-> CHOOSE g : Run(n, g)]
<1>4. \A n \in Nat : Run(n, G[n])
  <2> HIDE DEF Run
  <2> QED BY <1>3
<1>5. ASSUME NEW n \in Nat, NEW m \in Nat, n <= m PROVE G[n][n] = G[m][n]
  <2>1. Run(n, G[n]) /\ Run(m, G[m])
        BY <1>4
  <2> HIDE DEF G
  <2>2. \A i \in 1..n : G[n][i - 1] = G[m][i - 1] => G[n][i] = G[m][i]
    <3> SUFFICES ASSUME NEW i \in 1..n, G[n][i - 1] = G[m][i - 1] PROVE G[n][i] = G[m][i]
        OBVIOUS
    <3>1. i - 1 \in 0..n /\ i - 1 \in 0..m /\ i - 1 # n /\ i - 1 # m /\ (i - 1) + 1 = i
          BY <1>5
    <3> QED BY <2>1, <3>1
  <2>3. G[n][0] = G[m][0]
        BY <2>1
  <2>4. \A i \in 0..n : G[n][i] = G[m][i]
    <3> DEFINE p == G[n]
               q == G[m]
    <3>1. p[0] = q[0] /\ \A i \in 1..n : p[i - 1] = q[i - 1] => p[i] = q[i]
          BY <2>2, <2>3
    <3>2. \A i \in 0..n : p[i] = q[i]
      <4> HIDE DEF p, q
      <4>1. Alike(n, p, q)
            BY <3>1 DEF Alike
      <4> QED BY <4>1, SameRun
    <3> QED BY <3>2
  <2> QED BY <2>4
<1> HIDE DEF G
<1> DEFINE f == [n \in Nat |-> G[n][n]]
<1>6. f \in [Nat -> D]
  <2>1. ASSUME NEW n \in Nat PROVE G[n][n] \in D
    <3>1. G[n] \in [0..n -> D] /\ n \in 0..n
          BY <1>4
    <3> QED BY <3>1
  <2> QED BY <2>1
<1>7. f[0] = init
  <2>1. Run(0, G[0])
        BY <1>4
  <2> QED BY <2>1
<1>8. ASSUME NEW i \in Nat PROVE f[i + 1] = step[<<i + 1, f[i]>>]
  <2>1. Run(i + 1, G[i + 1])
        BY <1>4
  <2>2. G[i][i] = G[i + 1][i]
        BY <1>5
  <2>3. G[i + 1][i + 1] = step[<<i + 1, G[i + 1][i]>>]
        BY <2>1
  <2> QED BY <2>2, <2>3
<1> HIDE DEF f
<1> QED BY <1>6, <1>7, <1>8 DEF Iterates

-----------------------------------------------------------------------------
(***************************************************************************)
(* Numbers and their bytes.                                                *)
(***************************************************************************)
LEMMA BaseNat == Base \in Nat /\ Base > 3
<1>1. Nibble \in Nat /\ Nibble >= 3
      BY WidthAssumption
<1>2. Nibble * Nibble >= 3 * Nibble /\ Nibble * Nibble \in Nat
      BY <1>1
<1> QED BY <1>1, <1>2 DEF Base

\* The recursive function Pow is well defined.
LEMMA PowDef ==
    /\ Pow \in [Nat -> Nat]
    /\ Pow[0] = 1
    /\ \A k \in Nat : Pow[k + 1] = Base * Pow[k] /\ Pow[k] >= 1
<1> DEFINE step == [x \in Nat \X Nat |-> Base * x[2]]
           Is(p) == p = [k \in Nat |-> IF k = 0 THEN 1 ELSE Base * p[k - 1]]
<1>1. step \in Steps(Nat)
      BY BaseNat DEF Steps
<1>2. PICK f : Iterates(f, Nat, 1, step)
  <2>1. 1 \in Nat
        OBVIOUS
  <2> HIDE DEF step
  <2> QED BY <1>1, <2>1, Iteration
<1> USE DEF Iterates
<1>3. \A i \in Nat : f[i + 1] = Base * f[i]
  <2> SUFFICES ASSUME NEW i \in Nat PROVE f[i + 1] = Base * f[i]
      OBVIOUS
  <2>1. <<i + 1, f[i]>> \in Nat \X Nat
        BY <1>2
  <2>2. step[<<i + 1, f[i]>>] = Base * f[i]
        BY <2>1
  <2> QED BY <1>2, <2>2
<1>4. Is(f)
  <2>1. ASSUME NEW k \in Nat PROVE f[k] = IF k = 0 THEN 1 ELSE Base * f[k - 1]
    <3>1. CASE k = 0
          BY <1>2, <3>1
    <3>2. CASE k # 0
      <4>1. k - 1 \in Nat /\ (k - 1) + 1 = k
            BY <3>2
      <4> QED BY <1>3, <4>1, <3>2
    <3> QED BY <3>1, <3>2
  <2> QED BY <1>2, <2>1
<1>5. Is(Pow)
  <2>1. Pow = CHOOSE p : Is(p)
        BY DEF Pow
  <2> HIDE DEF Is
  <2> QED BY <1>4, <2>1
<1>6. Pow[0] = 1 /\ \A k \in Nat : Pow[k + 1] = Base * Pow[k]
  <2>1. \A k \in Nat : Pow[k] = IF k = 0 THEN 1 ELSE Base * Pow[k - 1]
        BY <1>5
  <2>2. ASSUME NEW k \in Nat PROVE Pow[k + 1] = Base * Pow[k]
    <3>1. k + 1 \in Nat /\ k + 1 # 0 /\ (k + 1) - 1 = k
          OBVIOUS
    <3> QED BY <2>1, <3>1
  <2> QED BY <2>1, <2>2
<1> DEFINE T == {k \in Nat : Pow[k] \in Nat /\ Pow[k] >= 1}
<1>7. Nat \subseteq T
  <2>1. 0 \in T
        BY <1>6
  <2>2. ASSUME NEW k \in Nat, k \in T PROVE k + 1 \in T
    <3>1. Base * Pow[k] \in Nat /\ Base * Pow[k] >= 1
          BY <2>2, BaseNat
    <3> QED BY <3>1, <1>6
  <2> HIDE DEF T
  <2> QED BY <2>1, <2>2, Induction
<1>8. Pow \in [Nat -> Nat]
  <2>1. Pow = [k \in Nat |-> Pow[k]]
        BY <1>5
  <2>2. \A k \in Nat : Pow[k] \in Nat
        BY <1>7
  <2> QED BY <2>1, <2>2
<1> QED BY <1>6, <1>7, <1>8

LEMMA DivFacts ==
    ASSUME NEW n \in Nat, NEW a \in Nat, a > 0
    PROVE  /\ n \div a \in Nat /\ n % a \in 0..(a - 1)
           /\ n = a * (n \div a) + (n % a)
           /\ \A q \in Nat : a * q <= n <=> q <= n \div a
<1>1. /\ n \div a \in Nat /\ n % a \in 0..(a - 1)
      /\ n = a * (n \div a) + (n % a)
      OBVIOUS
<1>2. ASSUME NEW q \in Nat PROVE a * q <= n <=> q <= n \div a
  <2> DEFINE d == n \div a
             r == n % a
  <2>1. d \in Nat /\ r \in 0..(a - 1) /\ n = a * d + r
        BY <1>1
  <2> HIDE DEF d, r
  <2>2. CASE q <= d
    <3>1. a * q <= a * d
          BY <2>1, <2>2
    <3> QED BY <2>1, <2>2, <3>1
  <2>3. CASE q >= d + 1
    <3>1. a * q >= a * (d + 1) /\ a * (d + 1) = a * d + a
          BY <2>1, <2>3
    <3> QED BY <2>1, <2>3, <3>1
  <2>4. d \in Nat /\ (q <= d \/ q >= d + 1)
        BY <2>1
  <2> QED BY <2>2, <2>3, <2>4 DEF d
<1> QED BY <1>1, <1>2

LEMMA DivDiv ==
    ASSUME NEW n \in Nat, NEW a \in Nat, NEW b \in Nat, a > 0, b > 0
    PROVE  n \div (b * a) = (n \div a) \div b
<1>1. b * a \in Nat /\ b * a > 0
      OBVIOUS
<1> DEFINE c == b * a
           d == n \div a
           e == d \div b
           f == n \div c
<1>2. d \in Nat /\ \A q \in Nat : a * q <= n <=> q <= d
      BY DivFacts
<1>3. e \in Nat /\ \A q \in Nat : b * q <= d <=> q <= e
  <2> HIDE DEF d
  <2> QED BY <1>2, DivFacts
<1>4. c \in Nat /\ f \in Nat /\ \A q \in Nat : c * q <= n <=> q <= f
  <2>1. c \in Nat /\ c > 0
        BY <1>1
  <2> HIDE DEF c
  <2> QED BY <2>1, DivFacts
<1>5. ASSUME NEW q \in Nat PROVE q <= e <=> q <= f
  <2>1. c * q = a * (b * q) /\ b * q \in Nat
        OBVIOUS
  <2>2. q <= e <=> b * q <= d
        BY <1>3
  <2>3. b * q <= d <=> a * (b * q) <= n
        BY <1>2, <2>1
  <2>4. a * (b * q) <= n <=> q <= f
        BY <1>4, <2>1
  <2> QED BY <2>2, <2>3, <2>4
<1>6. e = f
  <2> HIDE DEF e, f
  <2>1. e <= f /\ f <= e
        BY <1>3, <1>4, <1>5
  <2> QED BY <2>1, <1>3, <1>4
<1> QED BY <1>6

LEMMA BytesType ==
    ASSUME NEW n \in Nat, NEW w \in Nat
    PROVE  Bytes(n, w) \in Seq(Byte) /\ Len(Bytes(n, w)) = w
<1>1. ASSUME NEW i \in 1..w PROVE (n \div Pow[i - 1]) % Base \in Byte
  <2>1. i - 1 \in Nat /\ Pow[i - 1] \in Nat /\ Pow[i - 1] > 0
        BY PowDef
  <2> DEFINE d == n \div Pow[i - 1]
  <2>2. d \in Nat
        BY <2>1, DivFacts
  <2> HIDE DEF d
  <2>3. d % Base \in 0..(Base - 1)
        BY <2>2, BaseNat, DivFacts
  <2> QED BY <2>3 DEF d, Byte
<1> QED BY <1>1 DEF Bytes

\* The recursive function of Value is well defined: a run of its steps gives it.
Sums(data, w, g) ==
    g[0] = 0 /\ \A i \in 1..w : g[i] = g[i - 1] * Base + data[w - i + 1]

LEMMA ValueIs ==
    ASSUME NEW data, NEW w \in Nat, Len(data) = w, NEW g, Sums(data, w, g)
    PROVE  Value(data) = g[w]
<1> USE DEF Sums
<1> DEFINE Is(f) == f = [i \in 0..w |-> IF i = 0 THEN 0 ELSE f[i - 1] * Base + data[w - i + 1]]
           h == [i \in 0..w |-> g[i]]
<1>1. Is(h)
  <2>1. ASSUME NEW i \in 0..w PROVE h[i] = IF i = 0 THEN 0 ELSE h[i - 1] * Base + data[w - i + 1]
    <3>1. CASE i = 0
          BY <3>1
    <3>2. CASE i # 0
      <4>1. i \in 1..w /\ i - 1 \in 0..w
            BY <3>2
      <4> QED BY <4>1, <3>2
    <3> QED BY <3>1, <3>2
  <2> QED BY <2>1
<1> DEFINE v == CHOOSE f : Is(f)
<1>2. Is(v)
  <2> HIDE DEF Is, h
  <2> QED BY <1>1
<1>3. Value(data) = v[w]
      BY DEF Value
<1> HIDE DEF v, h
<1>4. \A i \in 0..w : v[i] = h[i]
  <2>1. v[0] = h[0]
        BY <1>1, <1>2
  <2>2. \A i \in 1..w : v[i - 1] = h[i - 1] => v[i] = h[i]
    <3> SUFFICES ASSUME NEW i \in 1..w, v[i - 1] = h[i - 1] PROVE v[i] = h[i]
        OBVIOUS
    <3>1. v[i] = v[i - 1] * Base + data[w - i + 1]
          BY <1>2
    <3>2. h[i] = h[i - 1] * Base + data[w - i + 1]
          BY <1>1
    <3> QED BY <3>1, <3>2
  <2>3. Alike(w, v, h)
        BY <2>1, <2>2 DEF Alike
  <2> QED BY <2>3, SameRun
<1> QED BY <1>3, <1>4 DEF h

\* A number that fits is read from its bytes.
LEMMA ValueBytes ==
    ASSUME NEW w \in Nat, NEW n \in Uint(w)
    PROVE  Value(Bytes(n, w)) = n
<1>1. n \in Nat /\ n < Pow[w] /\ Pow[w] \in Nat
      BY PowDef DEF Uint
<1> DEFINE g == [i \in 0..w |-> n \div Pow[w - i]]
<1>2. g[0] = 0
      BY <1>1
<1>3. g[w] = n
  <2>1. Pow[w - w] = 1
        BY PowDef
  <2> QED BY <1>1, <2>1
<1>4. ASSUME NEW i \in 1..w PROVE g[i] = g[i - 1] * Base + Bytes(n, w)[w - i + 1]
  <2> DEFINE k == w - i
             p == Pow[k]
             d == n \div p
  <2>1. k \in Nat /\ w - (i - 1) = k + 1 /\ w - i + 1 = k + 1 /\ k + 1 \in 1..w /\ (k + 1) - 1 = k
        OBVIOUS
  <2>2. p \in Nat /\ p > 0 /\ Pow[k + 1] = Base * p
        BY <2>1, PowDef
  <2>3. d \in Nat /\ n \div (Base * p) = d \div Base
        BY <1>1, <2>2, BaseNat, DivFacts, DivDiv
  <2>4. d = Base * (d \div Base) + (d % Base) /\ d \div Base \in Nat /\ d % Base \in Nat
    <3> HIDE DEF d
    <3> QED BY <2>3, BaseNat, DivFacts
  <2>5. g[i] = d /\ g[i - 1] = d \div Base
        BY <2>1, <2>2, <2>3
  <2>6. Bytes(n, w)[w - i + 1] = d % Base
        BY <2>1 DEF Bytes
  <2> HIDE DEF d, g
  <2> QED BY <2>4, <2>5, <2>6, BaseNat
<1>5. Len(Bytes(n, w)) = w
      BY <1>1, BytesType
<1> HIDE DEF g
<1>6. Sums(Bytes(n, w), w, g)
      BY <1>2, <1>4 DEF Sums
<1>7. Value(Bytes(n, w)) = g[w]
      BY <1>5, <1>6, ValueIs
<1> QED BY <1>3, <1>7

-----------------------------------------------------------------------------
(***************************************************************************)
(* Reading what was written.  Written(a, d): the bytes d come next in the  *)
(* buffer a.  A reader of x returns x and the buffer behind its bytes.     *)
(***************************************************************************)
Buffers == [vec : Seq(Byte), pointer : Nat]
Written(a, d) ==
    /\ a \in Buffers /\ d \in Seq(Byte)
    /\ a.pointer + Len(d) <= Len(a.vec)
    /\ \A i \in 1..Len(d) : a.vec[a.pointer + i] = d[i]
Skip(a, n) == [vec |-> a.vec, pointer |-> a.pointer + n]
Found(a, d, x) == [val |-> x, buf |-> Skip(a, Len(d))]

LEMMA SkipType ==
    ASSUME NEW a \in Buffers, NEW m \in Nat, NEW n \in Nat
    PROVE  Skip(a, m) \in Buffers /\ Skip(Skip(a, m), n) = Skip(a, m + n)
BY DEF Skip, Buffers

\* Bytes in two parts are read one part after the other.
LEMMA WrittenParts ==
    ASSUME NEW a, NEW x \in Seq(Byte), NEW y \in Seq(Byte), Written(a, x \o y)
    PROVE  /\ Written(a, x) /\ Written(Skip(a, Len(x)), y)
           /\ Skip(Skip(a, Len(x)), Len(y)) = Skip(a, Len(x \o y))
<1>1. /\ a \in Buffers /\ a.pointer \in Nat /\ Len(x) \in Nat /\ Len(y) \in Nat
      /\ Len(x \o y) = Len(x) + Len(y)
      BY DEF Written, Buffers
<1>2. \A i \in 1..Len(x) : (x \o y)[i] = x[i] /\ i \in 1..Len(x \o y)
      BY <1>1
<1>3. \A i \in 1..Len(y) : (x \o y)[Len(x) + i] = y[i] /\ Len(x) + i \in 1..Len(x \o y)
      BY <1>1
<1>4. Written(a, x)
      BY <1>1, <1>2 DEF Written
<1>5. Written(Skip(a, Len(x)), y)
  <2>1. Skip(a, Len(x)) \in Buffers
        BY <1>1, SkipType
  <2>2. ASSUME NEW i \in 1..Len(y) PROVE a.vec[(a.pointer + Len(x)) + i] = y[i]
    <3>1. a.vec[a.pointer + (Len(x) + i)] = (x \o y)[Len(x) + i]
          BY <1>3 DEF Written
    <3>2. a.pointer + (Len(x) + i) = (a.pointer + Len(x)) + i
          BY <1>1
    <3> QED BY <1>3, <3>1, <3>2
  <2>3. (a.pointer + Len(x)) + Len(y) <= Len(a.vec)
        BY <1>1 DEF Written, Buffers
  <2> QED BY <2>1, <2>2, <2>3 DEF Written, Skip
<1>6. Skip(Skip(a, Len(x)), Len(y)) = Skip(a, Len(x \o y))
      BY <1>1, SkipType
<1> QED BY <1>4, <1>5, <1>6

LEMMA WrittenThree ==
    ASSUME NEW a, NEW x \in Seq(Byte), NEW y \in Seq(Byte), NEW z \in Seq(Byte),
           Written(a, x \o y \o z)
    PROVE  /\ Written(a, x \o y) /\ Written(Skip(a, Len(x \o y)), z)
           /\ Skip(Skip(a, Len(x \o y)), Len(z)) = Skip(a, Len(x \o y \o z))
           /\ Written(a, x) /\ Written(Skip(a, Len(x)), y)
           /\ Skip(Skip(a, Len(x)), Len(y)) = Skip(a, Len(x \o y))
<1> DEFINE u == x \o y
<1>1. u \in Seq(Byte)
      OBVIOUS
<1>2. Written(a, u \o z)
      OBVIOUS
<1>3. Written(a, u) /\ Written(Skip(a, Len(u)), z) /\ Skip(Skip(a, Len(u)), Len(z)) = Skip(a, Len(u \o z))
  <2> HIDE DEF u
  <2> QED BY <1>1, <1>2, WrittenParts
<1> QED BY <1>3, WrittenParts

LEMMA ReadBinaryBack ==
    ASSUME NEW a, NEW d, Written(a, d)
    PROVE  ReadBinary(a, Len(d)) = Found(a, d, d)
<1>1. /\ a.vec \in Seq(Byte) /\ a.pointer \in Nat /\ d \in Seq(Byte) /\ Len(d) \in Nat
      /\ a.pointer + Len(d) <= Len(a.vec)
      /\ a = [vec |-> a.vec, pointer |-> a.pointer]
      BY DEF Written, Buffers
<1> DEFINE s == SubSeq(a.vec, a.pointer + 1, a.pointer + Len(d))
<1>2. s \in Seq(Byte) /\ Len(s) = Len(d)
      BY <1>1
<1>3. ASSUME NEW i \in 1..Len(d) PROVE s[i] = d[i]
  <2>1. s[i] = a.vec[a.pointer + i]
        BY <1>1
  <2> QED BY <2>1 DEF Written
<1>4. s = d
  <2> HIDE DEF s
  <2> QED BY <1>1, <1>2, <1>3, SeqEqual
<1>5. ~(Len(a.vec) < a.pointer + Len(d))
      BY <1>1
<1>6. [a EXCEPT !.pointer = @ + Len(d)] = Skip(a, Len(d))
      BY <1>1 DEF Skip
<1> QED BY <1>4, <1>5, <1>6 DEF ReadBinary, Found

LEMMA ReadBack ==
    ASSUME NEW a, NEW w \in Nat, NEW n \in Uint(w), Written(a, Bytes(n, w))
    PROVE  Read(a, w) = Found(a, Bytes(n, w), n)
<1>1. n \in Nat
      BY PowDef DEF Uint
<1>2. Len(Bytes(n, w)) = w
      BY <1>1, BytesType
<1>3. ReadBinary(a, w) = Found(a, Bytes(n, w), Bytes(n, w))
      BY <1>2, ReadBinaryBack
<1>4. Value(Bytes(n, w)) = n
      BY ValueBytes
<1> QED BY <1>3, <1>4 DEF Read, Found

LEMMA OneByte ==
    ASSUME NEW n \in Byte
    PROVE  <<n>> = Bytes(n, 1) /\ n \in Uint(1) /\ <<n>> \in Seq(Byte) /\ n \in Nat
<1>1. n \in Nat /\ n < Base
      BY BaseNat DEF Byte
<1>2. Pow[0] = 1 /\ Pow[1] = Base
  <2>1. Pow[0 + 1] = Base * Pow[0] /\ Pow[0] = 1
        BY PowDef
  <2> QED BY <2>1, BaseNat
<1>3. Bytes(n, 1) = [i \in 1..1 |-> n]
  <2>1. (n \div Pow[1 - 1]) % Base = n
        BY <1>1, <1>2, BaseNat
  <2> QED BY <2>1 DEF Bytes
<1>4. <<n>> \in Seq(Byte) /\ Len(<<n>>) = 1 /\ <<n>>[1] = n
      OBVIOUS
<1>5. <<n>> = Bytes(n, 1)
  <2> DEFINE s == <<n>>
             t == Bytes(n, 1)
  <2>1. t \in Seq(Byte) /\ Len(t) = Len(s) /\ \A i \in 1..Len(s) : s[i] = t[i]
        BY <1>1, <1>3, <1>4, BytesType
  <2>2. s \in Seq(Byte)
        BY <1>4
  <2> HIDE DEF s, t
  <2>3. s = t
        BY <2>1, <2>2, SeqEqual
  <2> QED BY <2>3 DEF s, t
<1>6. n \in 0..(Pow[1] - 1)
      BY <1>1, <1>2, BaseNat
<1> QED BY <1>1, <1>4, <1>5, <1>6 DEF Uint

\* The widths of the integers.
LEMMA Widths ==
    /\ U32 \in Nat /\ U16 \in Nat /\ U64 \in Nat /\ HashLen \in Nat /\ Words \in Nat
    /\ \A w \in Nat : Pow[w] \in Nat /\ Uint(w) \subseteq Nat /\ 0 \in Uint(w)
    /\ Pow[U16] >= Base
<1>1. /\ U32 \in Nat /\ U16 \in Nat /\ U64 \in Nat /\ HashLen \in Nat /\ Words \in Nat
      /\ \A w \in Nat : Pow[w] \in Nat /\ Uint(w) \subseteq Nat /\ 0 \in Uint(w)
      BY WidthAssumption, PowDef DEF U16, U64, HashLen, Uint
<1>2. Pow[1 + 1] = Base * Pow[1] /\ Pow[1] >= 1 /\ Pow[1] \in Nat
      BY PowDef
<1>3. Base * Pow[1] >= Base
      BY <1>2, BaseNat
<1> QED BY <1>1, <1>2, <1>3 DEF U16

LEMMA VarIntType ==
    ASSUME NEW n \in Uint(U64)
    PROVE  WriteVarInt(n) \in Seq(Byte)
<1>1. n \in Nat /\ \A x \in {Base - 3, Base - 2, Base - 1} : <<x>> \in Seq(Byte)
      BY Widths, BaseNat DEF Byte
<1>2. \A w \in {U16, U32, U64} : Bytes(n, w) \in Seq(Byte)
      BY <1>1, Widths, BytesType
<1>3. n < Base - 3 => <<n>> \in Seq(Byte)
      BY <1>1, BaseNat DEF Byte
<1>4. \A x \in {Base - 3, Base - 2, Base - 1}, w \in {U16, U32, U64} : <<x>> \o Bytes(n, w) \in Seq(Byte)
      BY <1>1, <1>2
<1> QED BY <1>3, <1>4 DEF WriteVarInt

\* A number of any of the four forms is read back, and nothing behind it.
LEMMA VarIntBack ==
    ASSUME NEW a, NEW n \in Uint(U64), Written(a, WriteVarInt(n))
    PROVE  ReadVarInt(a) = Found(a, WriteVarInt(n), n)
<1>1. /\ n \in Nat /\ Pow[U16] \in Nat /\ Pow[U32] \in Nat /\ Base \in Nat /\ Base > 3
      /\ Pow[U16] >= Base
      BY Widths, BaseNat
<1>2. ASSUME n < Base - 3 PROVE ReadVarInt(a) = Found(a, WriteVarInt(n), n)
  <2>1. n \in Byte /\ WriteVarInt(n) = <<n>>
        BY <1>1, <1>2 DEF Byte, WriteVarInt
  <2>2. Read(a, 1) = Found(a, <<n>>, n)
        BY <2>1, OneByte, ReadBack
  <2>3. ReadVarInt(a) = Read(a, 1)
        BY <1>1, <1>2, <2>2 DEF ReadVarInt, Found
  <2> QED BY <2>1, <2>2, <2>3
<1>3. ASSUME NEW x \in Byte, NEW w \in Nat, n \in Uint(w), WriteVarInt(n) = <<x>> \o Bytes(n, w)
      PROVE  /\ Read(a, 1).val = x
             /\ Read(Read(a, 1).buf, w) = Found(a, WriteVarInt(n), n)
  <2>1. <<x>> \in Seq(Byte) /\ Bytes(n, w) \in Seq(Byte) /\ Len(<<x>>) = 1
        BY <1>1, <1>3, OneByte, BytesType
  <2>2. /\ Written(a, <<x>>) /\ Written(Skip(a, 1), Bytes(n, w))
        /\ Skip(Skip(a, 1), Len(Bytes(n, w))) = Skip(a, Len(WriteVarInt(n)))
    <3> DEFINE p == <<x>>
    <3>1. Written(a, p \o Bytes(n, w)) /\ p \in Seq(Byte) /\ Len(p) = 1
          BY <1>3, <2>1
    <3> HIDE DEF p
    <3>2. /\ Written(a, p) /\ Written(Skip(a, Len(p)), Bytes(n, w))
          /\ Skip(Skip(a, Len(p)), Len(Bytes(n, w))) = Skip(a, Len(p \o Bytes(n, w)))
          BY <2>1, <3>1, WrittenParts
    <3> QED BY <1>3, <3>1, <3>2 DEF p
  <2>3. Read(a, 1) = Found(a, <<x>>, x)
        BY <2>2, OneByte, ReadBack
  <2>4. Read(a, 1).val = x /\ Read(a, 1).buf = Skip(a, 1)
        BY <2>1, <2>3 DEF Found
  <2>5. Read(Skip(a, 1), w) = Found(Skip(a, 1), Bytes(n, w), n)
        BY <1>3, <2>2, ReadBack
  <2>6. Found(Skip(a, 1), Bytes(n, w), n) = Found(a, WriteVarInt(n), n)
        BY <2>2 DEF Found
  <2> QED BY <2>4, <2>5, <2>6
<1>4. ASSUME n >= Base - 3, n < Pow[U16] PROVE ReadVarInt(a) = Found(a, WriteVarInt(n), n)
  <2>1. Base - 3 \in Byte /\ n \in Uint(U16) /\ WriteVarInt(n) = <<Base - 3>> \o Bytes(n, U16)
        BY <1>1, <1>4 DEF Byte, Uint, WriteVarInt
  <2>2. Read(a, 1).val = Base - 3 /\ Read(Read(a, 1).buf, U16) = Found(a, WriteVarInt(n), n)
        BY <1>3, <2>1, Widths
  <2> QED BY <1>1, <2>2 DEF ReadVarInt
<1>5. ASSUME n >= Pow[U16], n < Pow[U32], n >= Base - 3
      PROVE  ReadVarInt(a) = Found(a, WriteVarInt(n), n)
  <2>1. Base - 2 \in Byte /\ n \in Uint(U32) /\ WriteVarInt(n) = <<Base - 2>> \o Bytes(n, U32)
        BY <1>1, <1>5 DEF Byte, Uint, WriteVarInt
  <2>2. Read(a, 1).val = Base - 2 /\ Read(Read(a, 1).buf, U32) = Found(a, WriteVarInt(n), n)
        BY <1>3, <2>1, Widths
  <2> QED BY <1>1, <2>2 DEF ReadVarInt
<1>6. ASSUME n >= Pow[U16], n >= Pow[U32], n >= Base - 3
      PROVE  ReadVarInt(a) = Found(a, WriteVarInt(n), n)
  <2>1. Base - 1 \in Byte /\ WriteVarInt(n) = <<Base - 1>> \o Bytes(n, U64)
        BY <1>1, <1>6 DEF Byte, WriteVarInt
  <2>2. Read(a, 1).val = Base - 1 /\ Read(Read(a, 1).buf, U64) = Found(a, WriteVarInt(n), n)
        BY <1>3, <2>1, Widths
  <2> QED BY <1>1, <2>2 DEF ReadVarInt
<1> QED BY <1>1, <1>2, <1>4, <1>5, <1>6

LEMMA ScriptType ==
    ASSUME NEW s \in List(Byte)
    PROVE  WriteScript(s) \in Seq(Byte)
<1>1. WriteVarInt(Len(s)) \in Seq(Byte) /\ s \in Seq(Byte)
      BY VarIntType DEF List
<1> QED BY <1>1 DEF WriteScript

LEMMA ScriptBack ==
    ASSUME NEW a, NEW s \in List(Byte), Written(a, WriteScript(s))
    PROVE  ReadScript(a) = Found(a, WriteScript(s), s)
<1> DEFINE v == WriteVarInt(Len(s))
           b == Skip(a, Len(v))
<1>1. Len(s) \in Uint(U64) /\ s \in Seq(Byte)
      BY DEF List
<1>2. v \in Seq(Byte)
      BY <1>1, VarIntType
<1>3. Written(a, v) /\ Written(b, s) /\ Skip(b, Len(s)) = Skip(a, Len(WriteScript(s)))
      BY <1>1, <1>2, WrittenParts DEF WriteScript
<1>4. ReadVarInt(a) = Found(a, v, Len(s))
      BY <1>1, <1>3, VarIntBack
<1>5. ReadVarInt(a).val = Len(s) /\ ReadVarInt(a).buf = b
      BY <1>4 DEF Found
<1>6. ReadBinary(b, Len(s)) = Found(b, s, s)
      BY <1>3, ReadBinaryBack
<1>7. Found(b, s, s) = Found(a, WriteScript(s), s)
      BY <1>3 DEF Found
<1> QED BY <1>5, <1>6, <1>7 DEF ReadScript

\* Reading on: bytes, a number, a script.
Got(a, s) == [buf |-> a, val |-> s]
Nothing == <<>>

LEMMA AppendIs ==
    ASSUME NEW S, NEW s \in Seq(S), NEW x \in S, NEW r, r = Append(s, x)
    PROVE  /\ r \in Seq(S) /\ Len(r) = Len(s) + 1
           /\ \A i \in 1..Len(s) : r[i] = s[i]
           /\ r[Len(s) + 1] = x
OBVIOUS

LEMMA StartIs ==
    ASSUME NEW a
    PROVE  Start(a) = Got(a, Nothing)
BY DEF Start, Got, Nothing

LEMMA PutFound ==
    ASSUME NEW a, NEW s, NEW d, NEW x
    PROVE  Put(Got(a, s), Found(a, d, x)) = Got(Skip(a, Len(d)), Append(s, x))
BY DEF Put, Got, Found

LEMMA NextBinaryBack ==
    ASSUME NEW a, NEW s, NEW d, Written(a, d)
    PROVE  NextBinary(Got(a, s), Len(d)) = Got(Skip(a, Len(d)), Append(s, d))
<1>1. ReadBinary(a, Len(d)) = Found(a, d, d) /\ Got(a, s).buf = a
      BY ReadBinaryBack DEF Got
<1> QED BY <1>1, PutFound DEF NextBinary

LEMMA NextIntBack ==
    ASSUME NEW a, NEW s, NEW w \in Nat, NEW n \in Uint(w), Written(a, Bytes(n, w))
    PROVE  NextInt(Got(a, s), w) = Got(Skip(a, Len(Bytes(n, w))), Append(s, n))
<1>1. Read(a, w) = Found(a, Bytes(n, w), n) /\ Got(a, s).buf = a
      BY ReadBack DEF Got
<1> QED BY <1>1, PutFound DEF NextInt

LEMMA NextScriptBack ==
    ASSUME NEW a, NEW s, NEW x \in List(Byte), Written(a, WriteScript(x))
    PROVE  NextScript(Got(a, s)) = Got(Skip(a, Len(WriteScript(x))), Append(s, x))
<1>1. ReadScript(a) = Found(a, WriteScript(x), x) /\ Got(a, s).buf = a
      BY ScriptBack DEF Got
<1> QED BY <1>1, PutFound DEF NextScript

LEMMA OutPointType ==
    ASSUME NEW p \in OutPoint
    PROVE  /\ p.hash \in Seq(Byte) /\ Bytes(p.n, U32) \in Seq(Byte) /\ WriteOutPoint(p) \in Seq(Byte)
           /\ Len(p.hash) = HashLen
<1>1. p.hash \in Seq(Byte) /\ Len(p.hash) = HashLen /\ p.n \in Uint(U32)
      BY DEF OutPoint, Hash
<1>2. Bytes(p.n, U32) \in Seq(Byte)
      BY <1>1, Widths, BytesType
<1> QED BY <1>1, <1>2 DEF WriteOutPoint

LEMMA OutPointBack ==
    ASSUME NEW a, NEW p \in OutPoint, Written(a, WriteOutPoint(p))
    PROVE  ReadOutPoint(a) = Found(a, WriteOutPoint(p), p)
<1> DEFINE d == p.hash
           e == Bytes(p.n, U32)
           b == Skip(a, Len(d))
           c == Skip(b, Len(e))
           q == NextInt(NextBinary(Start(a), HashLen), U32)
<1>1. p.n \in Uint(U32) /\ p = [hash |-> p.hash, n |-> p.n]
      BY DEF OutPoint
<1>2. Written(a, d) /\ Written(b, e) /\ c = Skip(a, Len(WriteOutPoint(p)))
      BY OutPointType, WrittenParts DEF WriteOutPoint
<1>3. NextBinary(Got(a, Nothing), Len(d)) = Got(b, Append(Nothing, d))
      BY <1>2, NextBinaryBack
<1>4. NextInt(Got(b, Append(Nothing, d)), U32) = Got(c, Append(Append(Nothing, d), p.n))
  <2> HIDE DEF b
  <2> QED BY <1>1, <1>2, Widths, NextIntBack
<1>5. q = Got(c, Append(Append(Nothing, d), p.n))
      BY <1>3, <1>4, OutPointType, StartIs
<1>6. q.val[1] = p.hash /\ q.val[2] = p.n /\ q.buf = c
      BY <1>5 DEF Got, Nothing
<1> QED BY <1>1, <1>2, <1>6 DEF ReadOutPoint, Found

LEMMA TxInType ==
    ASSUME NEW t \in TxIn
    PROVE  /\ WriteOutPoint(t.prevout) \in Seq(Byte) /\ WriteScript(t.script) \in Seq(Byte)
           /\ Bytes(t.n, U32) \in Seq(Byte) /\ WriteTxIn(t) \in Seq(Byte)
           /\ WriteOutPoint(t.prevout) \o WriteScript(t.script) \in Seq(Byte)
<1>1. t.prevout \in OutPoint /\ t.script \in List(Byte) /\ t.n \in Uint(U32)
      BY DEF TxIn
<1>2. /\ WriteOutPoint(t.prevout) \in Seq(Byte) /\ WriteScript(t.script) \in Seq(Byte)
      /\ Bytes(t.n, U32) \in Seq(Byte)
      BY <1>1, OutPointType, ScriptType, Widths, BytesType
<1> QED BY <1>2 DEF WriteTxIn

LEMMA TxInBack ==
    ASSUME NEW a, NEW t \in TxIn, Written(a, WriteTxIn(t))
    PROVE  ReadTxIn(a) = Found(a, WriteTxIn(t), t)
<1> DEFINE d == WriteOutPoint(t.prevout)
           e == WriteScript(t.script)
           f == Bytes(t.n, U32)
           b == Skip(a, Len(d))
           c == Skip(b, Len(e))
           z == Skip(c, Len(f))
           s == Append(Append(Append(Nothing, t.prevout), t.script), t.n)
           q == NextInt(NextScript(Put(Start(a), ReadOutPoint(a))), U32)
<1>1. /\ t.prevout \in OutPoint /\ t.script \in List(Byte) /\ t.n \in Uint(U32)
      /\ t = [prevout |-> t.prevout, script |-> t.script, n |-> t.n]
      BY DEF TxIn
<1>2. d \in Seq(Byte) /\ e \in Seq(Byte) /\ f \in Seq(Byte) /\ d \o e \in Seq(Byte)
      BY TxInType
<1>3. WriteTxIn(t) = d \o e \o f
      BY DEF WriteTxIn
<1>4. /\ Written(a, d) /\ Written(b, e) /\ Written(c, f)
      /\ z = Skip(a, Len(WriteTxIn(t)))
  <2>1. Written(a, d \o e \o f)
        BY <1>3
  <2> HIDE DEF d, e, f
  <2> QED BY <1>2, <1>3, <2>1, WrittenThree
<1> HIDE DEF b, c, z
<1>5. Put(Got(a, Nothing), ReadOutPoint(a)) = Got(b, Append(Nothing, t.prevout))
  <2>1. ReadOutPoint(a) = Found(a, d, t.prevout)
        BY <1>1, <1>4, OutPointBack
  <2> QED BY <2>1, PutFound DEF b
<1>6. NextScript(Got(b, Append(Nothing, t.prevout))) = Got(c, Append(Append(Nothing, t.prevout), t.script))
      BY <1>1, <1>4, NextScriptBack DEF c
<1>7. NextInt(Got(c, Append(Append(Nothing, t.prevout), t.script)), U32) = Got(z, s)
      BY <1>1, <1>4, Widths, NextIntBack DEF z
<1>8. q = Got(z, s)
      BY <1>5, <1>6, <1>7, StartIs
<1>9. q.val[1] = t.prevout /\ q.val[2] = t.script /\ q.val[3] = t.n /\ q.buf = z
      BY <1>8 DEF Got, Nothing
<1> QED BY <1>1, <1>4, <1>9 DEF ReadTxIn, Found

LEMMA TxOutType ==
    ASSUME NEW t \in TxOut
    PROVE  /\ Bytes(t.value, U64) \in Seq(Byte) /\ WriteScript(t.scriptPubKey) \in Seq(Byte)
           /\ WriteTxOut(t) \in Seq(Byte)
<1>1. t.value \in Uint(U64) /\ t.scriptPubKey \in List(Byte)
      BY DEF TxOut
<1>2. Bytes(t.value, U64) \in Seq(Byte) /\ WriteScript(t.scriptPubKey) \in Seq(Byte)
      BY <1>1, ScriptType, Widths, BytesType
<1> QED BY <1>2 DEF WriteTxOut

LEMMA TxOutBack ==
    ASSUME NEW a, NEW t \in TxOut, Written(a, WriteTxOut(t))
    PROVE  ReadTxOut(a) = Found(a, WriteTxOut(t), t)
<1> DEFINE d == Bytes(t.value, U64)
           e == WriteScript(t.scriptPubKey)
           b == Skip(a, Len(d))
           c == Skip(b, Len(e))
           s == Append(Append(Nothing, t.value), t.scriptPubKey)
           q == NextScript(NextInt(Start(a), U64))
<1>1. /\ t.value \in Uint(U64) /\ t.scriptPubKey \in List(Byte)
      /\ t = [value |-> t.value, scriptPubKey |-> t.scriptPubKey]
      BY DEF TxOut
<1>2. Written(a, d) /\ Written(b, e) /\ c = Skip(a, Len(WriteTxOut(t)))
      BY TxOutType, WrittenParts DEF WriteTxOut
<1> HIDE DEF b, c
<1>3. NextInt(Got(a, Nothing), U64) = Got(b, Append(Nothing, t.value))
      BY <1>1, <1>2, Widths, NextIntBack DEF b
<1>4. NextScript(Got(b, Append(Nothing, t.value))) = Got(c, s)
      BY <1>1, <1>2, NextScriptBack DEF c
<1>5. q = Got(c, s)
      BY <1>3, <1>4, StartIs
<1>6. q.val[1] = t.value /\ q.val[2] = t.scriptPubKey /\ q.buf = c
      BY <1>5 DEF Got, Nothing
<1> QED BY <1>1, <1>2, <1>6 DEF ReadTxOut, Found

-----------------------------------------------------------------------------
(***************************************************************************)
(* Vectors.  Gathers(s, p): p[i] is the first i elements of s together.   *)
(***************************************************************************)
Gathers(s, p) ==
    /\ p \in [0..Len(s) -> Seq(Byte)] /\ p[0] = <<>>
    /\ \A i \in 1..Len(s) : p[i] = p[i - 1] \o s[i]

LEMMA GathersExist ==
    ASSUME NEW s \in Seq(Seq(Byte))
    PROVE  \E p : Gathers(s, p)
<1> DEFINE D == Seq(Byte)
           step == [x \in Nat \X D |-> IF x[1] \in 1..Len(s) THEN x[2] \o s[x[1]] ELSE x[2]]
<1>1. step \in Steps(D)
  <2>1. ASSUME NEW x \in Nat \X D
        PROVE  (IF x[1] \in 1..Len(s) THEN x[2] \o s[x[1]] ELSE x[2]) \in D
    <3>1. x[1] \in Nat /\ x[2] \in D
          OBVIOUS
    <3>2. \A i \in 1..Len(s) : s[i] \in D
          OBVIOUS
    <3> QED BY <3>1, <3>2
  <2> QED BY <2>1 DEF Steps
<1>2. <<>> \in D
      OBVIOUS
<1>3. PICK f : Iterates(f, D, Nothing, step)
  <2> HIDE DEF D, step
  <2> QED BY <1>1, <1>2, Iteration DEF Nothing
<1>4. f \in [Nat -> D] /\ f[0] = <<>>
      BY <1>3 DEF Iterates, Nothing
<1>5. ASSUME NEW i \in 1..Len(s) PROVE f[i] = f[i - 1] \o s[i]
  <2>1. i - 1 \in Nat /\ (i - 1) + 1 = i /\ i \in Nat /\ f[i - 1] \in D
        BY <1>4
  <2>2. f[i] = step[<<i, f[i - 1]>>]
        BY <1>3, <2>1 DEF Iterates
  <2>3. <<i, f[i - 1]>> \in Nat \X D
        BY <2>1
  <2>4. step[<<i, f[i - 1]>>] = f[i - 1] \o s[i]
        BY <2>3
  <2> QED BY <2>2, <2>4
<1> DEFINE p == [i \in 0..Len(s) |-> f[i]]
<1>6. p \in [0..Len(s) -> D] /\ p[0] = <<>>
      BY <1>4
<1>7. ASSUME NEW i \in 1..Len(s) PROVE p[i] = p[i - 1] \o s[i]
  <2>1. i \in 0..Len(s) /\ i - 1 \in 0..Len(s)
        OBVIOUS
  <2> QED BY <1>5, <2>1
<1>8. Gathers(s, p)
  <2> HIDE DEF p
  <2> QED BY <1>6, <1>7 DEF Gathers
<1> QED BY <1>8

LEMMA FlattenIs ==
    ASSUME NEW s \in Seq(Seq(Byte)), NEW p, Gathers(s, p)
    PROVE  FlattenSeq(s) = p[Len(s)] /\ FlattenSeq(s) \in Seq(Byte)
<1>1. Len(s) \in Nat /\ p[Len(s)] \in Seq(Byte)
      BY DEF Gathers
<1>2. CASE Len(s) = 0
  <2>1. s = <<>>
        BY <1>2
  <2> QED BY <1>1, <1>2, <2>1 DEF FlattenSeq, Gathers
<1>3. CASE Len(s) # 0
  <2> DEFINE n == Len(s)
             Is(f) == f = [i \in 1..n |-> IF i = 1 THEN s[i] ELSE f[i - 1] \o s[i]]
             v == CHOOSE f : Is(f)
             g == [i \in 1..n |-> p[i]]
  <2>1. Is(g)
    <3>1. ASSUME NEW i \in 1..n PROVE g[i] = IF i = 1 THEN s[i] ELSE g[i - 1] \o s[i]
      <4>1. s[i] \in Seq(Byte) /\ p[i] = p[i - 1] \o s[i] /\ p[0] = <<>>
            BY DEF Gathers
      <4>2. CASE i = 1
        <5>1. i - 1 = 0
              BY <4>2
        <5>2. p[i - 1] = <<>>
              BY <4>1, <5>1
        <5>3. p[i] = s[i]
              BY <4>1, <5>2, ConcatEmptySeq
        <5> QED BY <4>2, <5>3
      <4>3. CASE i # 1
        <5>1. i - 1 \in 1..n
              BY <4>3
        <5> QED BY <4>1, <4>3, <5>1
      <4> QED BY <4>2, <4>3
    <3> QED BY <3>1
  <2>2. Is(v)
    <3> HIDE DEF Is, g
    <3> QED BY <2>1
  <2>3. FlattenSeq(s) = v[n]
        BY <1>3 DEF FlattenSeq
  <2> HIDE DEF v, g
  <2> DEFINE e == [i \in 0..(n - 1) |-> v[i + 1]]
             h == [i \in 0..(n - 1) |-> g[i + 1]]
  <2>4. n - 1 \in Nat /\ 1 \in 1..n
        BY <1>1, <1>3
  <2>5. Alike(n - 1, e, h)
    <3>1. e[0] = h[0]
      <4>1. e[0] = v[1] /\ h[0] = g[1]
            BY <2>4
      <4>2. v[1] = s[1] /\ g[1] = s[1]
            BY <2>1, <2>2, <2>4
      <4> QED BY <4>1, <4>2
    <3>2. ASSUME NEW i \in 1..(n - 1), e[i - 1] = h[i - 1] PROVE e[i] = h[i]
      <4>1. e[i - 1] = v[i] /\ h[i - 1] = g[i] /\ e[i] = v[i + 1] /\ h[i] = g[i + 1]
            BY <2>4
      <4>2. i + 1 \in 1..n /\ i + 1 # 1 /\ (i + 1) - 1 = i
            BY <2>4
      <4>3. v[i + 1] = v[i] \o s[i + 1] /\ g[i + 1] = g[i] \o s[i + 1]
            BY <2>1, <2>2, <4>2
      <4> QED BY <3>2, <4>1, <4>3
    <3> HIDE DEF e, h
    <3> QED BY <3>1, <3>2 DEF Alike
  <2>6. e[n - 1] = h[n - 1]
    <3> HIDE DEF e, h, n, Is
    <3>1. n - 1 \in 0..(n - 1)
          BY <2>4
    <3> QED BY <2>4, <2>5, <3>1, SameRun
  <2>7. v[n] = g[n]
        BY <2>4, <2>6
  <2>8. g[n] = p[n]
        BY <2>4 DEF g
  <2> QED BY <1>1, <2>3, <2>7, <2>8
<1> QED BY <1>2, <1>3

LEMMA VectorWritten ==
    ASSUME NEW b, NEW s \in Seq(Seq(Byte)), NEW p, Gathers(s, p), Written(b, FlattenSeq(s)),
           NEW i \in 1..Len(s)
    PROVE  /\ Written(Skip(b, Len(p[i - 1])), s[i])
           /\ Skip(Skip(b, Len(p[i - 1])), Len(s[i])) = Skip(b, Len(p[i]))
<1> DEFINE n == Len(s)
           T == {k \in Nat : k <= n => Written(b, p[n - k])}
<1>1. n \in Nat /\ \A j \in 1..n : p[j] = p[j - 1] \o s[j] /\ p[j - 1] \in Seq(Byte) /\ s[j] \in Seq(Byte)
  <2>1. n \in Nat /\ \A j \in 1..n : j - 1 \in 0..n
        OBVIOUS
  <2>2. \A j \in 1..n : p[j] = p[j - 1] \o s[j]
        BY DEF Gathers
  <2>3. \A j \in 1..n : p[j - 1] \in Seq(Byte)
        BY <2>1 DEF Gathers
  <2>4. \A j \in 1..n : s[j] \in Seq(Byte)
        OBVIOUS
  <2> HIDE DEF n
  <2> QED BY <2>1, <2>2, <2>3, <2>4
<1>2. 0 \in T
      BY <1>1, FlattenIs
<1>3. ASSUME NEW k \in Nat, k \in T PROVE k + 1 \in T
  <2>1. CASE k + 1 <= n
    <3> DEFINE j == n - k
    <3>1. j \in 1..n /\ j - 1 = n - (k + 1) /\ Written(b, p[j])
          BY <1>1, <1>3, <2>1
    <3> HIDE DEF j
    <3>2. Written(b, p[j - 1] \o s[j])
          BY <1>1, <3>1
    <3>3. Written(b, p[j - 1])
          BY <1>1, <3>1, <3>2, WrittenParts
    <3>4. Written(b, p[n - (k + 1)])
          BY <3>1, <3>3
    <3> QED BY <3>4
  <2> QED BY <2>1, <1>1
<1>4. Nat \subseteq T
  <2> HIDE DEF T
  <2> QED BY <1>2, <1>3, Induction
<1>5. Written(b, p[i])
  <2>1. n - i \in Nat /\ n - i <= n /\ n - (n - i) = i
        BY <1>1
  <2> QED BY <1>4, <2>1
<1>6. Written(b, p[i - 1] \o s[i])
      BY <1>1, <1>5
<1> DEFINE y == p[i - 1]
           z == s[i]
<1>7. y \in Seq(Byte) /\ z \in Seq(Byte) /\ Written(b, y \o z) /\ p[i] = y \o z
      BY <1>1, <1>6
<1>8. Written(Skip(b, Len(y)), z) /\ Skip(Skip(b, Len(y)), Len(z)) = Skip(b, Len(y \o z))
  <2> HIDE DEF y, z
  <2> QED BY <1>7, WrittenParts
<1> QED BY <1>7, <1>8

\* g[i]: the buffer and the elements after i of them were read.
VectorRun(a, d, x, g) ==
    /\ ReadVarInt(a).val = Len(x)
    /\ g[0] = Start(ReadVarInt(a).buf)
    /\ g[Len(x)] = Found(a, WriteVector(d), x)
    /\ \A i \in 1..Len(x) :
           /\ Written(g[i - 1].buf, d[i])
           /\ g[i] = Put(g[i - 1], Found(g[i - 1].buf, d[i], x[i]))

LEMMA VectorType ==
    ASSUME NEW d \in Seq(Seq(Byte)), Len(d) \in Uint(U64)
    PROVE  WriteVarInt(Len(d)) \in Seq(Byte) /\ FlattenSeq(d) \in Seq(Byte) /\ WriteVector(d) \in Seq(Byte)
<1>1. FlattenSeq(d) \in Seq(Byte)
      BY GathersExist, FlattenIs
<1>2. WriteVarInt(Len(d)) \in Seq(Byte)
      BY VarIntType
<1> QED BY <1>1, <1>2 DEF WriteVector

LEMMA VectorRuns ==
    ASSUME NEW S, NEW x \in List(S), NEW a, NEW d \in Seq(Seq(Byte)), Len(d) = Len(x),
           Written(a, WriteVector(d))
    PROVE  \E g : VectorRun(a, d, x, g)
<1> DEFINE n == Len(x)
           v == WriteVarInt(n)
           b == Skip(a, Len(v))
<1>1. n \in Nat /\ n \in Uint(U64) /\ x \in Seq(S)
      BY DEF List
<1>2. v \in Seq(Byte) /\ FlattenSeq(d) \in Seq(Byte) /\ WriteVector(d) = v \o FlattenSeq(d)
      BY <1>1, VectorType DEF WriteVector
<1>3. Written(a, v) /\ Written(b, FlattenSeq(d)) /\ Skip(b, Len(FlattenSeq(d))) = Skip(a, Len(WriteVector(d)))
  <2>1. Written(a, v \o FlattenSeq(d))
        BY <1>2
  <2> HIDE DEF v
  <2> QED BY <1>2, <2>1, WrittenParts
<1>4. ReadVarInt(a) = Found(a, v, n)
      BY <1>1, <1>3, VarIntBack
<1>5. ReadVarInt(a).val = n /\ ReadVarInt(a).buf = b
      BY <1>4 DEF Found
<1>6. PICK p : Gathers(d, p)
      BY GathersExist
<1> DEFINE g == [i \in 0..n |-> Got(Skip(b, Len(p[i])), SubSeq(x, 1, i))]
<1> HIDE DEF v, b
<1>7. g[0] = Start(b)
  <2>1. SubSeq(x, 1, 0) = <<>>
        BY <1>1
  <2>2. Len(p[0]) = 0
        BY <1>6 DEF Gathers
  <2>3. Skip(b, 0) = b
        BY <1>3 DEF Written, Buffers, Skip
  <2>4. 0 \in 0..n
        BY <1>1
  <2> QED BY <2>1, <2>2, <2>3, <2>4 DEF Start, Got
<1>8. g[n] = Found(a, WriteVector(d), x)
  <2>1. SubSeq(x, 1, n) = x
        BY <1>1
  <2>2. p[n] = FlattenSeq(d)
        BY <1>6, FlattenIs
  <2>3. g[n] = Got(Skip(b, Len(p[n])), SubSeq(x, 1, n))
        BY <1>1
  <2> QED BY <1>3, <2>1, <2>2, <2>3 DEF Got, Found
<1>9. ASSUME NEW i \in 1..n
      PROVE  Written(g[i - 1].buf, d[i]) /\ g[i] = Put(g[i - 1], Found(g[i - 1].buf, d[i], x[i]))
  <2> DEFINE c == Skip(b, Len(p[i - 1]))
             s == SubSeq(x, 1, i - 1)
  <2>1. i \in 0..n /\ i - 1 \in 0..n
        BY <1>1
  <2>2. g[i - 1] = Got(c, s) /\ g[i - 1].buf = c
        BY <2>1 DEF Got
  <2>3. Written(c, d[i]) /\ Skip(c, Len(d[i])) = Skip(b, Len(p[i]))
        BY <1>3, <1>6, VectorWritten
  <2>4. Append(s, x[i]) = SubSeq(x, 1, i)
        BY <1>1, <2>1
  <2>5. g[i] = Got(Skip(c, Len(d[i])), Append(s, x[i]))
        BY <2>1, <2>3, <2>4
  <2> HIDE DEF g, c, s
  <2>6. Put(Got(c, s), Found(c, d[i], x[i])) = Got(Skip(c, Len(d[i])), Append(s, x[i]))
        BY PutFound
  <2> QED BY <2>2, <2>3, <2>5, <2>6
<1>10. VectorRun(a, d, x, g)
  <2> HIDE DEF g
  <2> QED BY <1>5, <1>7, <1>8, <1>9 DEF VectorRun
<1> QED BY <1>10

LEMMA TxInsBack ==
    ASSUME NEW a, NEW x \in List(TxIn), NEW d \in Seq(Seq(Byte)),
           d = [i \in DOMAIN x |-> WriteTxIn(x[i])], Written(a, WriteVector(d))
    PROVE  ReadVector(ReadTxIn, a) = Found(a, WriteVector(d), x)
<1> DEFINE n == Len(x)
           b == ReadVarInt(a).buf
           Is(f) == f = [i \in 0..n |-> IF i = 0 THEN Start(b) ELSE Put(f[i - 1], ReadTxIn(f[i - 1].buf))]
           v == CHOOSE f : Is(f)
<1>1. x \in Seq(TxIn) /\ n \in Nat /\ Len(d) = Len(x)
      BY DEF List
<1>2. PICK g : VectorRun(a, d, x, g)
      BY <1>1, VectorRuns
<1> DEFINE h == [i \in 0..n |-> g[i]]
<1>3. ASSUME NEW i \in 1..n PROVE h[i] = Put(h[i - 1], ReadTxIn(h[i - 1].buf))
  <2>1. h[i] = g[i] /\ h[i - 1] = g[i - 1] /\ x[i] \in TxIn /\ d[i] = WriteTxIn(x[i])
        BY <1>1
  <2>2. Written(g[i - 1].buf, d[i]) /\ g[i] = Put(g[i - 1], Found(g[i - 1].buf, d[i], x[i]))
        BY <1>2 DEF VectorRun
  <2>3. ReadTxIn(g[i - 1].buf) = Found(g[i - 1].buf, d[i], x[i])
        BY <2>1, <2>2, TxInBack
  <2> QED BY <2>1, <2>2, <2>3
<1>4. h[0] = Start(b)
      BY <1>1, <1>2 DEF VectorRun
<1>5. Is(h)
  <2>1. ASSUME NEW i \in 0..n
        PROVE  h[i] = IF i = 0 THEN Start(b) ELSE Put(h[i - 1], ReadTxIn(h[i - 1].buf))
    <3>1. i = 0 \/ i \in 1..n
          BY <1>1
    <3> HIDE DEF h, b
    <3> QED BY <1>3, <1>4, <3>1
  <2> QED BY <2>1
<1>6. Is(v)
  <2> HIDE DEF Is, h
  <2> QED BY <1>5
<1>7. ReadVector(ReadTxIn, a) = v[n]
  <2>1. ReadVarInt(a).val = n
        BY <1>2 DEF VectorRun
  <2> QED BY <2>1 DEF ReadVector
<1>8. Alike(n, v, h)
  <2> HIDE DEF v, h
  <2>1. ASSUME NEW i \in 1..n PROVE v[i] = Put(v[i - 1], ReadTxIn(v[i - 1].buf))
    <3>1. i \in 0..n /\ i # 0
          BY <1>1
    <3> QED BY <1>6, <3>1
  <2>2. v[0] = Start(b)
        BY <1>1, <1>6
  <2> HIDE DEF Is
  <2> QED BY <1>3, <1>4, <2>1, <2>2 DEF Alike
<1>9. v[n] = h[n] /\ h[n] = g[n]
  <2>1. n \in 0..n
        BY <1>1
  <2>2. h[n] = g[n]
        BY <2>1
  <2> HIDE DEF v, h, n
  <2> QED BY <1>1, <1>8, <2>1, <2>2, SameRun
<1> QED BY <1>2, <1>7, <1>9 DEF VectorRun

LEMMA TxOutsBack ==
    ASSUME NEW a, NEW x \in List(TxOut), NEW d \in Seq(Seq(Byte)),
           d = [i \in DOMAIN x |-> WriteTxOut(x[i])], Written(a, WriteVector(d))
    PROVE  ReadVector(ReadTxOut, a) = Found(a, WriteVector(d), x)
<1> DEFINE n == Len(x)
           b == ReadVarInt(a).buf
           Is(f) == f = [i \in 0..n |-> IF i = 0 THEN Start(b) ELSE Put(f[i - 1], ReadTxOut(f[i - 1].buf))]
           v == CHOOSE f : Is(f)
<1>1. x \in Seq(TxOut) /\ n \in Nat /\ Len(d) = Len(x)
      BY DEF List
<1>2. PICK g : VectorRun(a, d, x, g)
      BY <1>1, VectorRuns
<1> DEFINE h == [i \in 0..n |-> g[i]]
<1>3. ASSUME NEW i \in 1..n PROVE h[i] = Put(h[i - 1], ReadTxOut(h[i - 1].buf))
  <2>1. h[i] = g[i] /\ h[i - 1] = g[i - 1] /\ x[i] \in TxOut /\ d[i] = WriteTxOut(x[i])
        BY <1>1
  <2>2. Written(g[i - 1].buf, d[i]) /\ g[i] = Put(g[i - 1], Found(g[i - 1].buf, d[i], x[i]))
        BY <1>2 DEF VectorRun
  <2>3. ReadTxOut(g[i - 1].buf) = Found(g[i - 1].buf, d[i], x[i])
        BY <2>1, <2>2, TxOutBack
  <2> QED BY <2>1, <2>2, <2>3
<1>4. h[0] = Start(b)
      BY <1>1, <1>2 DEF VectorRun
<1>5. Is(h)
  <2>1. ASSUME NEW i \in 0..n
        PROVE  h[i] = IF i = 0 THEN Start(b) ELSE Put(h[i - 1], ReadTxOut(h[i - 1].buf))
    <3>1. i = 0 \/ i \in 1..n
          BY <1>1
    <3> HIDE DEF h, b
    <3> QED BY <1>3, <1>4, <3>1
  <2> QED BY <2>1
<1>6. Is(v)
  <2> HIDE DEF Is, h
  <2> QED BY <1>5
<1>7. ReadVector(ReadTxOut, a) = v[n]
  <2>1. ReadVarInt(a).val = n
        BY <1>2 DEF VectorRun
  <2> QED BY <2>1 DEF ReadVector
<1>8. Alike(n, v, h)
  <2> HIDE DEF v, h
  <2>1. ASSUME NEW i \in 1..n PROVE v[i] = Put(v[i - 1], ReadTxOut(v[i - 1].buf))
    <3>1. i \in 0..n /\ i # 0
          BY <1>1
    <3> QED BY <1>6, <3>1
  <2>2. v[0] = Start(b)
        BY <1>1, <1>6
  <2> HIDE DEF Is
  <2> QED BY <1>3, <1>4, <2>1, <2>2 DEF Alike
<1>9. v[n] = h[n] /\ h[n] = g[n]
  <2>1. n \in 0..n
        BY <1>1
  <2>2. h[n] = g[n]
        BY <2>1
  <2> HIDE DEF v, h, n
  <2> QED BY <1>1, <1>8, <2>1, <2>2, SameRun
<1> QED BY <1>2, <1>7, <1>9 DEF VectorRun

LEMMA TransactionType ==
    ASSUME NEW t \in Transaction, NEW d, NEW e,
           d = [i \in DOMAIN t.in |-> WriteTxIn(t.in[i])],
           e = [i \in DOMAIN t.out |-> WriteTxOut(t.out[i])]
    PROVE  /\ t.in \in List(TxIn) /\ t.out \in List(TxOut)
           /\ d \in Seq(Seq(Byte)) /\ e \in Seq(Seq(Byte))
           /\ Len(d) = Len(t.in) /\ Len(e) = Len(t.out)
           /\ Bytes(t.version, U32) \in Seq(Byte) /\ Bytes(t.lockTime, U32) \in Seq(Byte)
           /\ WriteVector(d) \in Seq(Byte) /\ WriteVector(e) \in Seq(Byte)
           /\ WriteTransaction(t) = Bytes(t.version, U32) \o WriteVector(d) \o WriteVector(e)
                                        \o Bytes(t.lockTime, U32)
           /\ WriteTransaction(t) \in Seq(Byte)
<1>1. t.version \in Uint(U32) /\ t.in \in List(TxIn) /\ t.out \in List(TxOut) /\ t.lockTime \in Uint(U32)
      BY DEF Transaction
<1>2. /\ t.in \in Seq(TxIn) /\ Len(t.in) \in Uint(U64)
      /\ t.out \in Seq(TxOut) /\ Len(t.out) \in Uint(U64)
      BY <1>1 DEF List
<1>3. d \in Seq(Seq(Byte)) /\ Len(d) = Len(t.in)
  <2>1. \A x \in TxIn : WriteTxIn(x) \in Seq(Byte)
        BY TxInType
  <2>2. /\ Len(t.in) \in Nat /\ DOMAIN t.in = 1..Len(t.in)
        /\ \A i \in 1..Len(t.in) : t.in[i] \in TxIn
        BY <1>2
  <2>3. \A i \in 1..Len(t.in) : WriteTxIn(t.in[i]) \in Seq(Byte)
        BY <2>1, <2>2
  <2>4. d = [i \in 1..Len(t.in) |-> WriteTxIn(t.in[i])]
        BY <2>2
  <2> QED BY <2>2, <2>3, <2>4
<1>4. e \in Seq(Seq(Byte)) /\ Len(e) = Len(t.out)
  <2>1. \A x \in TxOut : WriteTxOut(x) \in Seq(Byte)
        BY TxOutType
  <2>2. /\ Len(t.out) \in Nat /\ DOMAIN t.out = 1..Len(t.out)
        /\ \A i \in 1..Len(t.out) : t.out[i] \in TxOut
        BY <1>2
  <2>3. \A i \in 1..Len(t.out) : WriteTxOut(t.out[i]) \in Seq(Byte)
        BY <2>1, <2>2
  <2>4. e = [i \in 1..Len(t.out) |-> WriteTxOut(t.out[i])]
        BY <2>2
  <2> QED BY <2>2, <2>3, <2>4
<1>5. Bytes(t.version, U32) \in Seq(Byte) /\ Bytes(t.lockTime, U32) \in Seq(Byte)
      BY <1>1, Widths, BytesType
<1>6. WriteVector(d) \in Seq(Byte) /\ WriteVector(e) \in Seq(Byte)
      BY <1>2, <1>3, <1>4, VectorType
<1>7. WriteTransaction(t) = Bytes(t.version, U32) \o WriteVector(d) \o WriteVector(e)
                                \o Bytes(t.lockTime, U32)
      BY DEF WriteTransaction
<1>8. WriteTransaction(t) \in Seq(Byte)
      BY <1>5, <1>6, <1>7
<1> QED BY <1>1, <1>3, <1>4, <1>5, <1>6, <1>7, <1>8

\* A transaction is read back, every input and output included.
LEMMA TransactionBack ==
    ASSUME NEW a, NEW t \in Transaction, Written(a, WriteTransaction(t))
    PROVE  ReadTransaction(a) = Found(a, WriteTransaction(t), t)
<1> DEFINE ins == [i \in DOMAIN t.in |-> WriteTxIn(t.in[i])]
           outs == [i \in DOMAIN t.out |-> WriteTxOut(t.out[i])]
           d == Bytes(t.version, U32)
           e == WriteVector(ins)
           f == WriteVector(outs)
           g == Bytes(t.lockTime, U32)
           b1 == Skip(a, Len(d))
           b2 == Skip(b1, Len(e))
           b3 == Skip(b2, Len(f))
           b4 == Skip(b3, Len(g))
           s1 == Append(Nothing, t.version)
           s2 == Append(s1, t.in)
           s3 == Append(s2, t.out)
           s4 == Append(s3, t.lockTime)
           r1 == NextInt(Start(a), U32)
           r2 == Put(r1, ReadVector(ReadTxIn, r1.buf))
           r3 == Put(r2, ReadVector(ReadTxOut, r2.buf))
           r4 == NextInt(r3, U32)
<1>1. /\ t.version \in Uint(U32) /\ t.in \in List(TxIn) /\ t.out \in List(TxOut)
      /\ t.lockTime \in Uint(U32)
      /\ t = [version |-> t.version, in |-> t.in, out |-> t.out, lockTime |-> t.lockTime]
      BY DEF Transaction
<1>2. /\ ins \in Seq(Seq(Byte)) /\ outs \in Seq(Seq(Byte))
      /\ d \in Seq(Byte) /\ e \in Seq(Byte) /\ f \in Seq(Byte) /\ g \in Seq(Byte)
      /\ WriteTransaction(t) = d \o e \o f \o g
      BY TransactionType
<1>3. /\ Written(a, d) /\ Written(b1, e) /\ Written(b2, f) /\ Written(b3, g)
      /\ b4 = Skip(a, Len(WriteTransaction(t)))
  <2> HIDE DEF d, e, f, g
  <2> DEFINE u == d \o e
  <2>1. u \in Seq(Byte) /\ Written(a, u \o f \o g) /\ WriteTransaction(t) = u \o f \o g
        BY <1>2
  <2>2. /\ Written(a, u) /\ Written(Skip(a, Len(u)), f) /\ Written(Skip(a, Len(u \o f)), g)
        /\ Skip(Skip(a, Len(u)), Len(f)) = Skip(a, Len(u \o f))
        /\ Skip(Skip(a, Len(u \o f)), Len(g)) = Skip(a, Len(u \o f \o g))
    <3> HIDE DEF u
    <3>1. f \in Seq(Byte) /\ g \in Seq(Byte)
          BY <1>2
    <3>2. u \in Seq(Byte) /\ Written(a, u \o f \o g)
          BY <2>1
    <3> QED BY <3>1, <3>2, WrittenThree
  <2>3. Written(a, d) /\ Written(b1, e) /\ b2 = Skip(a, Len(u))
        BY <1>2, <2>2, WrittenParts
  <2> QED BY <2>1, <2>2, <2>3
<1> HIDE DEF b1, b2, b3, b4, s1, s2, s3, s4
<1>4. r1 = Got(b1, s1)
      BY <1>1, <1>3, Widths, NextIntBack, StartIs DEF b1, s1
<1>5. r2 = Got(b2, s2)
  <2>1. ReadVector(ReadTxIn, b1) = Found(b1, e, t.in)
        BY <1>1, <1>2, <1>3, TxInsBack
  <2>2. Got(b1, s1).buf = b1
        BY DEF Got
  <2> HIDE DEF r1
  <2> QED BY <1>4, <2>1, <2>2, PutFound DEF b2, s2
<1>6. r3 = Got(b3, s3)
  <2>1. ReadVector(ReadTxOut, b2) = Found(b2, f, t.out)
        BY <1>1, <1>2, <1>3, TxOutsBack
  <2>2. Got(b2, s2).buf = b2
        BY DEF Got
  <2> HIDE DEF r2
  <2> QED BY <1>5, <2>1, <2>2, PutFound DEF b3, s3
<1>7. r4 = Got(b4, s4)
  <2> HIDE DEF r3
  <2> QED BY <1>1, <1>3, <1>6, Widths, NextIntBack DEF b4, s4
<1>8. /\ s4[1] = t.version /\ s4[2] = t.in /\ s4[3] = t.out /\ s4[4] = t.lockTime
      BY DEF s1, s2, s3, s4, Nothing
<1>9. /\ r4.val[1] = t.version /\ r4.val[2] = t.in /\ r4.val[3] = t.out /\ r4.val[4] = t.lockTime
      /\ r4.buf = b4
  <2> HIDE DEF r4
  <2> QED BY <1>7, <1>8 DEF Got
<1>10. ReadTransaction(a) =
          [buf |-> r4.buf,
           val |-> [version |-> r4.val[1], in |-> r4.val[2], out |-> r4.val[3], lockTime |-> r4.val[4]]]
      BY DEF ReadTransaction
<1> HIDE DEF r4
<1> QED BY <1>1, <1>3, <1>9, <1>10 DEF Found

LEMMA TransactionsBack ==
    ASSUME NEW a, NEW x \in List(Transaction), NEW d \in Seq(Seq(Byte)),
           d = [i \in DOMAIN x |-> WriteTransaction(x[i])], Written(a, WriteVector(d))
    PROVE  ReadVector(ReadTransaction, a) = Found(a, WriteVector(d), x)
<1> DEFINE n == Len(x)
           b == ReadVarInt(a).buf
           Is(f) == f = [i \in 0..n |-> IF i = 0 THEN Start(b) ELSE Put(f[i - 1], ReadTransaction(f[i - 1].buf))]
           v == CHOOSE f : Is(f)
<1>1. x \in Seq(Transaction) /\ n \in Nat /\ Len(d) = Len(x)
      BY DEF List
<1>2. PICK g : VectorRun(a, d, x, g)
      BY <1>1, VectorRuns
<1> DEFINE h == [i \in 0..n |-> g[i]]
<1>3. ASSUME NEW i \in 1..n PROVE h[i] = Put(h[i - 1], ReadTransaction(h[i - 1].buf))
  <2>1. h[i] = g[i] /\ h[i - 1] = g[i - 1] /\ x[i] \in Transaction /\ d[i] = WriteTransaction(x[i])
        BY <1>1
  <2>2. Written(g[i - 1].buf, d[i]) /\ g[i] = Put(g[i - 1], Found(g[i - 1].buf, d[i], x[i]))
        BY <1>2 DEF VectorRun
  <2>3. ReadTransaction(g[i - 1].buf) = Found(g[i - 1].buf, d[i], x[i])
        BY <2>1, <2>2, TransactionBack
  <2> QED BY <2>1, <2>2, <2>3
<1>4. h[0] = Start(b)
      BY <1>1, <1>2 DEF VectorRun
<1>5. Is(h)
  <2>1. ASSUME NEW i \in 0..n
        PROVE  h[i] = IF i = 0 THEN Start(b) ELSE Put(h[i - 1], ReadTransaction(h[i - 1].buf))
    <3>1. i = 0 \/ i \in 1..n
          BY <1>1
    <3> HIDE DEF h, b
    <3> QED BY <1>3, <1>4, <3>1
  <2> QED BY <2>1
<1>6. Is(v)
  <2> HIDE DEF Is, h
  <2> QED BY <1>5
<1>7. ReadVector(ReadTransaction, a) = v[n]
  <2>1. ReadVarInt(a).val = n
        BY <1>2 DEF VectorRun
  <2> QED BY <2>1 DEF ReadVector
<1>8. Alike(n, v, h)
  <2> HIDE DEF v, h
  <2>1. ASSUME NEW i \in 1..n PROVE v[i] = Put(v[i - 1], ReadTransaction(v[i - 1].buf))
    <3>1. i \in 0..n /\ i # 0
          BY <1>1
    <3> QED BY <1>6, <3>1
  <2>2. v[0] = Start(b)
        BY <1>1, <1>6
  <2> HIDE DEF Is
  <2> QED BY <1>3, <1>4, <2>1, <2>2 DEF Alike
<1>9. v[n] = h[n] /\ h[n] = g[n]
  <2>1. n \in 0..n
        BY <1>1
  <2>2. h[n] = g[n]
        BY <2>1
  <2> HIDE DEF v, h, n
  <2> QED BY <1>1, <1>8, <2>1, <2>2, SameRun
<1> QED BY <1>2, <1>7, <1>9 DEF VectorRun


LEMMA HeaderType ==
    ASSUME NEW b \in Block
    PROVE  /\ Bytes(b.version, U32) \in Seq(Byte) /\ b.prevBlockHash \in Seq(Byte)
           /\ b.merkleRootHash \in Seq(Byte) /\ Bytes(b.time, U32) \in Seq(Byte)
           /\ Bytes(b.bits, U32) \in Seq(Byte) /\ Bytes(b.nonce, U32) \in Seq(Byte)
           /\ Len(b.prevBlockHash) = HashLen /\ Len(b.merkleRootHash) = HashLen
           /\ WriteHeader(b) \in Seq(Byte)
<1>1. /\ b.version \in Uint(U32) /\ b.time \in Uint(U32) /\ b.bits \in Uint(U32) /\ b.nonce \in Uint(U32)
      /\ b.prevBlockHash \in Hash /\ b.merkleRootHash \in Hash
      BY DEF Block
<1>2. /\ Bytes(b.version, U32) \in Seq(Byte) /\ Bytes(b.time, U32) \in Seq(Byte)
      /\ Bytes(b.bits, U32) \in Seq(Byte) /\ Bytes(b.nonce, U32) \in Seq(Byte)
      BY <1>1, Widths, BytesType
<1>3. /\ b.prevBlockHash \in Seq(Byte) /\ b.merkleRootHash \in Seq(Byte)
      /\ Len(b.prevBlockHash) = HashLen /\ Len(b.merkleRootHash) = HashLen
      BY <1>1 DEF Hash
<1>4. WriteHeader(b) \in Seq(Byte)
      BY <1>2, <1>3 DEF WriteHeader
<1> QED BY <1>2, <1>3, <1>4

LEMMA BlockType ==
    ASSUME NEW b \in Block, NEW d, d = [i \in DOMAIN b.tx |-> WriteTransaction(b.tx[i])]
    PROVE  /\ b.tx \in List(Transaction) /\ d \in Seq(Seq(Byte)) /\ WriteVector(d) \in Seq(Byte)
           /\ WriteBlock(b) = WriteHeader(b) \o WriteVector(d) /\ WriteBlock(b) \in Seq(Byte)
<1>1. b.tx \in List(Transaction) /\ b.tx \in Seq(Transaction) /\ Len(b.tx) \in Uint(U64)
      BY DEF Block, List
<1>2. d \in Seq(Seq(Byte)) /\ Len(d) = Len(b.tx)
  <2>1. \A t \in Transaction : WriteTransaction(t) \in Seq(Byte)
        BY TransactionType
  <2>2. Len(b.tx) \in Nat /\ DOMAIN b.tx = 1..Len(b.tx) /\ \A i \in 1..Len(b.tx) : b.tx[i] \in Transaction
        BY <1>1
  <2>3. \A i \in 1..Len(b.tx) : WriteTransaction(b.tx[i]) \in Seq(Byte)
        BY <2>1, <2>2
  <2>4. d = [i \in 1..Len(b.tx) |-> WriteTransaction(b.tx[i])]
        BY <2>2
  <2> QED BY <2>2, <2>3, <2>4
<1>3. WriteVector(d) \in Seq(Byte)
      BY <1>1, <1>2, VectorType
<1>4. WriteBlock(b) = WriteHeader(b) \o WriteVector(d)
      BY DEF WriteBlock
<1>5. WriteBlock(b) \in Seq(Byte)
      BY <1>3, <1>4, HeaderType
<1> QED BY <1>1, <1>2, <1>3, <1>4, <1>5

\* A block is read back, every transaction included.
LEMMA BlockBack ==
    ASSUME NEW a, NEW t \in Block, Written(a, WriteBlock(t))
    PROVE  ReadBlock(a) = Found(a, WriteBlock(t), t)
<1> DEFINE txs == [i \in DOMAIN t.tx |-> WriteTransaction(t.tx[i])]
           d1 == Bytes(t.version, U32)
           d2 == t.prevBlockHash
           d3 == t.merkleRootHash
           d4 == Bytes(t.time, U32)
           d5 == Bytes(t.bits, U32)
           d6 == Bytes(t.nonce, U32)
           d7 == WriteVector(txs)
           b1 == Skip(a, Len(d1))
           b2 == Skip(b1, Len(d2))
           b3 == Skip(b2, Len(d3))
           b4 == Skip(b3, Len(d4))
           b5 == Skip(b4, Len(d5))
           b6 == Skip(b5, Len(d6))
           b7 == Skip(b6, Len(d7))
           s1 == Append(Nothing, t.version)
           s2 == Append(s1, d2)
           s3 == Append(s2, d3)
           s4 == Append(s3, t.time)
           s5 == Append(s4, t.bits)
           s6 == Append(s5, t.nonce)
           s7 == Append(s6, t.tx)
           r1 == NextInt(Start(a), U32)
           r2 == NextBinary(r1, HashLen)
           r3 == NextBinary(r2, HashLen)
           r4 == NextInt(r3, U32)
           r5 == NextInt(r4, U32)
           r6 == NextInt(r5, U32)
           r7 == Put(r6, ReadVector(ReadTransaction, r6.buf))
<1>1. /\ t.version \in Uint(U32) /\ t.time \in Uint(U32) /\ t.bits \in Uint(U32) /\ t.nonce \in Uint(U32)
      /\ t.tx \in List(Transaction)
      /\ t = [version |-> t.version, prevBlockHash |-> t.prevBlockHash,
              merkleRootHash |-> t.merkleRootHash, time |-> t.time, bits |-> t.bits,
              nonce |-> t.nonce, tx |-> t.tx]
      BY DEF Block
<1>2. /\ d1 \in Seq(Byte) /\ d2 \in Seq(Byte) /\ d3 \in Seq(Byte) /\ d4 \in Seq(Byte)
      /\ d5 \in Seq(Byte) /\ d6 \in Seq(Byte) /\ d7 \in Seq(Byte) /\ txs \in Seq(Seq(Byte))
      /\ Len(d2) = HashLen /\ Len(d3) = HashLen
      BY HeaderType, BlockType
<1>3. WriteBlock(t) = d1 \o d2 \o d3 \o d4 \o d5 \o d6 \o d7
      BY DEF WriteBlock, WriteHeader
<1>4. /\ Written(a, d1) /\ Written(b1, d2) /\ Written(b2, d3) /\ Written(b3, d4)
      /\ Written(b4, d5) /\ Written(b5, d6) /\ Written(b6, d7)
      /\ b7 = Skip(a, Len(WriteBlock(t)))
  <2> HIDE DEF d1, d2, d3, d4, d5, d6, d7
  <2> DEFINE u2 == d1 \o d2
             u3 == u2 \o d3
             u4 == u3 \o d4
             u5 == u4 \o d5
             u6 == u5 \o d6
  <2>1. u2 \in Seq(Byte) /\ u3 \in Seq(Byte) /\ u4 \in Seq(Byte) /\ u5 \in Seq(Byte) /\ u6 \in Seq(Byte)
        BY <1>2
  <2>2. WriteBlock(t) = u6 \o d7 /\ Written(a, u6 \o d7)
        BY <1>3
  <2>3. Written(a, u6) /\ Written(Skip(a, Len(u6)), d7) /\ Skip(Skip(a, Len(u6)), Len(d7)) = Skip(a, Len(u6 \o d7))
    <3> HIDE DEF u2, u3, u4, u5, u6
    <3> QED BY <1>2, <2>1, <2>2, WrittenParts
  <2>4. Written(a, u5) /\ Written(Skip(a, Len(u5)), d6) /\ Skip(Skip(a, Len(u5)), Len(d6)) = Skip(a, Len(u6))
    <3> HIDE DEF u2, u3, u4, u5
    <3> QED BY <1>2, <2>1, <2>3, WrittenParts
  <2>5. Written(a, u4) /\ Written(Skip(a, Len(u4)), d5) /\ Skip(Skip(a, Len(u4)), Len(d5)) = Skip(a, Len(u5))
    <3> HIDE DEF u2, u3, u4
    <3> QED BY <1>2, <2>1, <2>4, WrittenParts
  <2>6. Written(a, u3) /\ Written(Skip(a, Len(u3)), d4) /\ Skip(Skip(a, Len(u3)), Len(d4)) = Skip(a, Len(u4))
    <3> HIDE DEF u2, u3
    <3> QED BY <1>2, <2>1, <2>5, WrittenParts
  <2>7. Written(a, u2) /\ Written(Skip(a, Len(u2)), d3) /\ Skip(Skip(a, Len(u2)), Len(d3)) = Skip(a, Len(u3))
    <3> HIDE DEF u2
    <3> QED BY <1>2, <2>1, <2>6, WrittenParts
  <2>8. Written(a, d1) /\ Written(b1, d2) /\ b2 = Skip(a, Len(u2))
        BY <1>2, <2>7, WrittenParts
  <2> HIDE DEF u2, u3, u4, u5, u6
  <2> QED BY <2>2, <2>3, <2>4, <2>5, <2>6, <2>7, <2>8
<1> HIDE DEF b1, b2, b3, b4, b5, b6, b7, s1, s2, s3, s4, s5, s6, s7
<1>5. r1 = Got(b1, s1)
      BY <1>1, <1>4, Widths, NextIntBack, StartIs DEF b1, s1
<1>6. r2 = Got(b2, s2)
  <2> HIDE DEF r1
  <2> QED BY <1>2, <1>4, <1>5, NextBinaryBack DEF b2, s2
<1>7. r3 = Got(b3, s3)
  <2> HIDE DEF r2
  <2> QED BY <1>2, <1>4, <1>6, NextBinaryBack DEF b3, s3
<1>8. r4 = Got(b4, s4)
  <2> HIDE DEF r3
  <2> QED BY <1>1, <1>4, <1>7, Widths, NextIntBack DEF b4, s4
<1>9. r5 = Got(b5, s5)
  <2> HIDE DEF r4
  <2> QED BY <1>1, <1>4, <1>8, Widths, NextIntBack DEF b5, s5
<1>10. r6 = Got(b6, s6)
  <2> HIDE DEF r5
  <2> QED BY <1>1, <1>4, <1>9, Widths, NextIntBack DEF b6, s6
<1>11. r7 = Got(b7, s7)
  <2>1. ReadVector(ReadTransaction, b6) = Found(b6, d7, t.tx)
        BY <1>1, <1>2, <1>4, TransactionsBack
  <2>2. Got(b6, s6).buf = b6
        BY DEF Got
  <2> HIDE DEF r6
  <2> QED BY <1>10, <2>1, <2>2, PutFound DEF b7, s7
<1>12. /\ s7[1] = t.version /\ s7[2] = d2 /\ s7[3] = d3 /\ s7[4] = t.time
       /\ s7[5] = t.bits /\ s7[6] = t.nonce /\ s7[7] = t.tx
  <2> DEFINE S == {t.version, d2, d3, t.time, t.bits, t.nonce, t.tx}
  <2>1. s4 \in Seq(S) /\ Len(s4) = 4 /\ s4[1] = t.version /\ s4[2] = d2 /\ s4[3] = d3 /\ s4[4] = t.time
        BY DEF s1, s2, s3, s4, Nothing
  <2>2. t.bits \in S /\ t.nonce \in S /\ t.tx \in S
        OBVIOUS
  <2> HIDE DEF d2, d3, S
  <2>3. s5 = Append(s4, t.bits) /\ s6 = Append(s5, t.nonce) /\ s7 = Append(s6, t.tx)
        BY DEF s5, s6, s7
  <2>4. s5 \in Seq(S) /\ Len(s5) = 5 /\ (\A i \in 1..4 : s5[i] = s4[i]) /\ s5[5] = t.bits
    <3>1. s4 \in Seq(S) /\ Len(s4) = 4
          BY <2>1
    <3>2. t.bits \in S /\ s5 = Append(s4, t.bits)
          BY <2>2, <2>3
    <3>3. /\ s5 \in Seq(S) /\ Len(s5) = Len(s4) + 1
          /\ (\A i \in 1..Len(s4) : s5[i] = s4[i]) /\ s5[Len(s4) + 1] = t.bits
          BY <3>1, <3>2, AppendIs
    <3> QED BY <3>1, <3>3
  <2>5. s6 \in Seq(S) /\ Len(s6) = 6 /\ (\A i \in 1..5 : s6[i] = s5[i]) /\ s6[6] = t.nonce
        BY <2>2, <2>3, <2>4, AppendIs
  <2>6. Len(s7) = 7 /\ (\A i \in 1..6 : s7[i] = s6[i]) /\ s7[7] = t.tx
        BY <2>2, <2>3, <2>5, AppendIs
  <2> QED BY <2>1, <2>4, <2>5, <2>6
<1>13. /\ r7.val[1] = t.version /\ r7.val[2] = d2 /\ r7.val[3] = d3 /\ r7.val[4] = t.time
       /\ r7.val[5] = t.bits /\ r7.val[6] = t.nonce /\ r7.val[7] = t.tx /\ r7.buf = b7
  <2> HIDE DEF r7
  <2> QED BY <1>11, <1>12 DEF Got
<1>14. ReadBlock(a) =
          [buf |-> r7.buf,
           val |-> [version |-> r7.val[1], prevBlockHash |-> r7.val[2], merkleRootHash |-> r7.val[3],
                    time |-> r7.val[4], bits |-> r7.val[5], nonce |-> r7.val[6], tx |-> r7.val[7]]]
      BY DEF ReadBlock
<1> HIDE DEF r7
<1> QED BY <1>1, <1>4, <1>13, <1>14 DEF Found

\* A buffer made of bytes has them come next.
LEMMA BufferWritten ==
    ASSUME NEW x \in Seq(Byte), NEW y \in Seq(Byte)
    PROVE  Written(Buffer(x \o y), x) /\ Written(Buffer(x), x)
<1>1. x \o y \in Seq(Byte) /\ Len(x \o y) = Len(x) + Len(y) /\ Len(x) \in Nat /\ Len(y) \in Nat
      OBVIOUS
<1>2. \A i \in 1..Len(x) : (x \o y)[0 + i] = x[i] /\ x[0 + i] = x[i]
      OBVIOUS
<1> HIDE DEF Byte
<1> QED BY <1>1, <1>2 DEF Written, Buffers, Buffer

-----------------------------------------------------------------------------
(***************************************************************************)
(* Hexadecimal text.                                                       *)
(***************************************************************************)
LEMMA HexBack ==
    ASSUME NEW d \in Seq(Byte)
    PROVE  ASCIIToBin(BinToASCII(d)) = d
<1> DEFINE str == BinToASCII(d)
           bin == ASCIIToBin(str)
           n == Len(d)
<1>1. n \in Nat /\ Nibble \in Nat /\ Nibble > 0
      BY WidthAssumption
<1>2. Len(str) = 2 * n
      BY <1>1 DEF BinToASCII
<1>3. (Len(str) + 1) \div 2 = n
      BY <1>1, <1>2
<1>4. ASSUME NEW i \in 1..n
      PROVE  /\ 2 * i <= 2 * n
             /\ str[2 * i - 1] = d[i] \div Nibble /\ str[2 * i] = d[i] % Nibble
  <2>1. /\ 2 * i - 1 \in 1..(2 * n) /\ 2 * i \in 1..(2 * n)
        /\ ((2 * i - 1) + 1) \div 2 = i /\ (2 * i - 1) % 2 = 1
        /\ (2 * i + 1) \div 2 = i /\ (2 * i) % 2 = 0
        BY <1>1
  <2> QED BY <1>1, <2>1 DEF BinToASCII
<1>5. ASSUME NEW i \in 1..n
      PROVE  ASCIIToHex(d[i] \div Nibble) * Nibble + ASCIIToHex(d[i] % Nibble) = d[i]
  <2> DEFINE x == d[i]
             q == x \div Nibble
             r == x % Nibble
  <2>1. x \in Nat /\ x < Nibble * Nibble
        BY <1>1 DEF Byte, Base
  <2> HIDE DEF x
  <2>2. q \in Nat /\ r \in 0..(Nibble - 1) /\ x = Nibble * q + r /\ (Nibble * Nibble <= x <=> Nibble <= q)
        BY <1>1, <2>1, DivFacts
  <2> HIDE DEF q, r
  <2>3. q \in 0..(Nibble - 1)
        BY <1>1, <2>1, <2>2
  <2>4. ASCIIToHex(q) = q /\ ASCIIToHex(r) = r
        BY <2>2, <2>3 DEF ASCIIToHex
  <2> QED BY <1>1, <2>2, <2>4 DEF q, r, x
<1>6. bin = [i \in 1..n |-> ASCIIToHex(str[2 * i - 1]) * Nibble
                              + (IF 2 * i <= Len(str) THEN ASCIIToHex(str[2 * i]) ELSE 0)]
      BY <1>3 DEF ASCIIToBin
<1>7. ASSUME NEW i \in 1..n PROVE bin[i] = d[i]
      BY <1>2, <1>4, <1>5, <1>6
<1>8. bin = [i \in 1..n |-> bin[i]]
      BY <1>6
<1>9. d = [i \in 1..n |-> d[i]]
      OBVIOUS
<1> HIDE DEF bin
<1> QED BY <1>7, <1>8, <1>9 DEF bin

-----------------------------------------------------------------------------
(***************************************************************************)
(* The levels of a Merkle tree: J[k] is where level k starts, S[k] its     *)
(* size, and level d is the root.                                          *)
(***************************************************************************)
Starts(n) == [k \in Nat |-> Level(n)[k].j]
Sizes(n) == [k \in Nat |-> Level(n)[k].size]

Shape(n, d, J, S) ==
    /\ n \in Nat \ {0} /\ d \in 0..n
    /\ J \in [Nat -> Nat] /\ S \in [Nat -> Nat]
    /\ J[0] = 0 /\ S[0] = n
    /\ \A k \in Nat : J[k + 1] = J[k] + S[k] /\ S[k + 1] = Half(S[k]) /\ S[k] >= 1
    /\ \A k \in 0..n : k < d => S[k] > 1
    /\ S[d] = 1

LEMMA HalfIs ==
    ASSUME NEW s \in Nat
    PROVE  Half(s) \in Nat /\ (s > 1 => Half(s) < s) /\ (s >= 1 => Half(s) >= 1)
           /\ s <= 2 * Half(s) /\ 2 * Half(s) <= s + 1
BY DEF Half

LEMMA LevelIs ==
    ASSUME NEW n \in Nat
    PROVE  /\ Level(n) \in [Nat -> [j : Nat, size : Nat]]
           /\ Level(n)[0] = [j |-> 0, size |-> n]
           /\ \A k \in Nat : Level(n)[k + 1] =
                  [j |-> Level(n)[k].j + Level(n)[k].size, size |-> Half(Level(n)[k].size)]
<1> DEFINE D == [j : Nat, size : Nat]
           init == [j |-> 0, size |-> n]
           Above(l) == [j |-> l.j + l.size, size |-> Half(l.size)]
           step == [x \in Nat \X D |-> Above(x[2])]
           Is(p) == p = [k \in Nat |-> IF k = 0 THEN init ELSE Above(p[k - 1])]
<1>1. step \in Steps(D) /\ init \in D
  <2>1. ASSUME NEW x \in Nat \X D PROVE Above(x[2]) \in D
    <3>1. x[2].j \in Nat /\ x[2].size \in Nat
          OBVIOUS
    <3>2. Half(x[2].size) \in Nat
          BY <3>1, HalfIs
    <3> QED BY <3>1, <3>2
  <2> HIDE DEF Above
  <2> QED BY <2>1 DEF Steps
<1>2. PICK f : Iterates(f, D, init, step)
  <2> HIDE DEF step, init, D
  <2> QED BY <1>1, Iteration
<1> HIDE DEF Above
<1>3. f \in [Nat -> D] /\ f[0] = init /\ \A i \in Nat : f[i + 1] = Above(f[i])
  <2>1. ASSUME NEW i \in Nat PROVE f[i + 1] = Above(f[i])
    <3>1. f[i] \in D /\ f[i + 1] = step[<<i + 1, f[i]>>]
          BY <1>2 DEF Iterates
    <3> HIDE DEF D
    <3>2. <<i + 1, f[i]>> \in Nat \X D
          BY <3>1
    <3> QED BY <3>1, <3>2
  <2> QED BY <1>2, <2>1 DEF Iterates
<1>4. Is(f)
  <2>1. ASSUME NEW k \in Nat PROVE f[k] = IF k = 0 THEN init ELSE Above(f[k - 1])
    <3>1. CASE k = 0
          BY <1>3, <3>1
    <3>2. CASE k # 0
      <4>1. k - 1 \in Nat /\ (k - 1) + 1 = k
            BY <3>2
      <4> QED BY <1>3, <4>1, <3>2
    <3> QED BY <3>1, <3>2
  <2> HIDE DEF init, D
  <2> QED BY <1>3, <2>1
<1> DEFINE v == Level(n)
<1>5. Is(v)
  <2>1. v = CHOOSE p : Is(p)
        BY DEF Level, Above
  <2> HIDE DEF Is, v
  <2> QED BY <1>4, <2>1
<1> HIDE DEF v
<1>6. ASSUME NEW m \in Nat PROVE v[m] = f[m]
  <2>1. Alike(m, v, f)
    <3>1. v[0] = f[0]
          BY <1>4, <1>5
    <3>2. ASSUME NEW i \in 1..m, v[i - 1] = f[i - 1] PROVE v[i] = f[i]
      <4>1. i \in Nat /\ i # 0
            OBVIOUS
      <4>2. v[i] = Above(v[i - 1]) /\ f[i] = Above(f[i - 1])
            BY <1>4, <1>5, <4>1
      <4> QED BY <4>2, <3>2
    <3> QED BY <3>1, <3>2 DEF Alike
  <2>2. \A i \in 0..m : v[i] = f[i]
        BY <2>1, SameRun
  <2> QED BY <2>2
<1>7. v = f
  <2>1. v = [k \in Nat |-> v[k]]
        BY <1>5
  <2> QED BY <1>3, <1>6, <2>1
<1> QED BY <1>3, <1>7 DEF v, Above

LEMMA ShapeIs ==
    ASSUME NEW n \in Nat \ {0}
    PROVE  Shape(n, Depth(n), Starts(n), Sizes(n))
<1> DEFINE J == Starts(n)
           S == Sizes(n)
<1>1. J \in [Nat -> Nat] /\ S \in [Nat -> Nat] /\ J[0] = 0 /\ S[0] = n
  <2>1. \A k \in Nat : Level(n)[k] \in [j : Nat, size : Nat]
        BY LevelIs
  <2>2. \A k \in Nat : Level(n)[k].j \in Nat /\ Level(n)[k].size \in Nat
        BY <2>1
  <2>3. Level(n)[0].j = 0 /\ Level(n)[0].size = n
    <3>1. Level(n)[0] = [j |-> 0, size |-> n]
          BY LevelIs
    <3> QED BY <3>1
  <2> QED BY <2>2, <2>3 DEF Starts, Sizes
<1>2. ASSUME NEW k \in Nat PROVE J[k + 1] = J[k] + S[k] /\ S[k + 1] = Half(S[k])
  <2>1. Level(n)[k + 1] = [j |-> Level(n)[k].j + Level(n)[k].size, size |-> Half(Level(n)[k].size)]
        BY LevelIs
  <2> QED BY <2>1 DEF Starts, Sizes
<1> HIDE DEF J, S
<1>3. \A k \in Nat : S[k] >= 1 /\ (S[k] = 1 \/ S[k] + k <= n)
  <2> DEFINE T == {k \in Nat : S[k] >= 1 /\ (S[k] = 1 \/ S[k] + k <= n)}
  <2>1. 0 \in T
        BY <1>1
  <2>2. ASSUME NEW k \in Nat, k \in T PROVE k + 1 \in T
    <3>1. S[k] \in Nat /\ S[k + 1] = Half(S[k]) /\ S[k + 1] \in Nat
          BY <1>1, <1>2
    <3> HIDE DEF S
    <3>2. CASE S[k] = 1
          BY <3>1, <3>2 DEF Half
    <3>3. CASE S[k] > 1
      <4>1. Half(S[k]) < S[k] /\ Half(S[k]) >= 1
        <5> DEFINE s == S[k]
        <5>1. s \in Nat /\ s > 1
              BY <3>1, <3>3
        <5> HIDE DEF s
        <5>2. Half(s) < s /\ Half(s) >= 1
              BY <5>1, HalfIs
        <5> QED BY <5>2 DEF s
      <4>2. S[k] + k <= n
            BY <2>2, <3>1, <3>3
      <4> QED BY <3>1, <4>1, <4>2
    <3> QED BY <2>2, <3>1, <3>2, <3>3
  <2>3. Nat \subseteq T
    <3> HIDE DEF T
    <3> QED BY <2>1, <2>2, Induction
  <2> QED BY <2>3
<1>4. PICK d \in 0..n : S[d] <= 1 /\ \A k \in 0..n : k < d => S[k] > 1
  <2> DEFINE E == {k \in Nat : S[k] <= 1}
  <2>1. n \in E
        BY <1>1, <1>3
  <2>2. PICK x \in E : \A y \in E : x <= y
    <3>1. E \in SUBSET Nat /\ E # {}
          BY <2>1
    <3> HIDE DEF E
    <3> QED BY <3>1, LeastElement
  <2>3. x \in 0..n
        BY <2>1, <2>2
  <2>4. ASSUME NEW k \in 0..n, k < x PROVE S[k] > 1
    <3>1. k \notin E /\ k \in Nat /\ x \in Nat
          BY <2>2, <2>4
    <3> QED BY <1>1, <3>1
  <2> QED BY <2>2, <2>3, <2>4
<1> DEFINE P(x) == Level(n)[x].size <= 1 /\ \A k \in 0..n : k < x => Level(n)[k].size > 1
<1>5. \A k \in 0..n : S[k] = Level(n)[k].size
      BY DEF S, Sizes
<1>6. P(d)
      BY <1>4, <1>5
<1>7. Depth(n) \in 0..n /\ P(Depth(n))
  <2>1. Depth(n) = CHOOSE x \in 0..n : P(x)
        BY DEF Depth
  <2> HIDE DEF P
  <2> QED BY <1>6, <2>1
<1>8. S[Depth(n)] <= 1 /\ \A k \in 0..n : k < Depth(n) => S[k] > 1
      BY <1>5, <1>7
<1>9. S[Depth(n)] = 1
  <2>1. Depth(n) \in Nat /\ S[Depth(n)] \in Nat
        BY <1>1, <1>7
  <2> QED BY <1>3, <1>8, <2>1
<1> QED BY <1>1, <1>2, <1>3, <1>7, <1>8, <1>9 DEF Shape, J, S

LEMMA ShapeAt ==
    ASSUME NEW n, NEW d, NEW J, NEW S, Shape(n, d, J, S), NEW k \in Nat
    PROVE  /\ J[k] \in Nat /\ S[k] \in Nat /\ S[k] >= 1
           /\ J[k + 1] = J[k] + S[k] /\ S[k + 1] = Half(S[k])
           /\ J[k + 1] \in Nat /\ S[k + 1] \in Nat
           /\ k < d => S[k] > 1
<1>1. n \in Nat /\ d \in Nat /\ d <= n
      BY DEF Shape
<1>2. k < d => k \in 0..n
      BY <1>1
<1> QED BY <1>2 DEF Shape

\* Levels follow one another, and every place of a tree is on one of them.
LEMMA StartsGrow ==
    ASSUME NEW n, NEW d, NEW J, NEW S, Shape(n, d, J, S)
    PROVE  \A k \in Nat, m \in Nat : m <= k => J[m] <= J[k]
<1> USE DEF Shape
<1> DEFINE T == {k \in Nat : \A m \in Nat : m <= k => J[m] <= J[k]}
<1>1. 0 \in T
      OBVIOUS
<1>2. ASSUME NEW k \in Nat, k \in T PROVE k + 1 \in T
  <2>1. J[k] \in Nat /\ S[k] \in Nat /\ J[k + 1] = J[k] + S[k] /\ J[k + 1] \in Nat
        OBVIOUS
  <2>2. ASSUME NEW m \in Nat, m <= k + 1 PROVE J[m] <= J[k + 1]
    <3>1. CASE m = k + 1
          BY <2>1, <3>1
    <3>2. CASE m <= k
      <4>1. J[m] <= J[k] /\ J[m] \in Nat
            BY <1>2, <3>2
      <4> QED BY <2>1, <4>1
    <3> QED BY <2>2, <3>1, <3>2
  <2> QED BY <2>2
<1>3. Nat \subseteq T
  <2> HIDE DEF T
  <2> QED BY <1>1, <1>2, Induction
<1> QED BY <1>3

Placed(J, S, e, p) == \E k \in 0..e : \E i \in 1..S[k] : p = J[k] + i

LEMMA PlaceIs ==
    ASSUME NEW n, NEW d, NEW J, NEW S, Shape(n, d, J, S), NEW e \in Nat
    PROVE  \A p \in 1..J[e + 1] : Placed(J, S, e, p)
<1> USE DEF Shape, Placed
<1> DEFINE At(k, p) == \E i \in 1..S[k] : p = J[k] + i
           T == {c \in Nat : \A p \in 1..J[c + 1] : \E k \in 0..c : At(k, p)}
<1>1. 0 \in T
  <2>1. J[0 + 1] = J[0] + S[0] /\ J[0] = 0 /\ S[0] \in Nat
        OBVIOUS
  <2>2. \A p \in 1..J[0 + 1] : At(0, p)
        BY <2>1
  <2> QED BY <2>2
<1>2. ASSUME NEW c \in Nat, c \in T PROVE c + 1 \in T
  <2>1. /\ J[(c + 1) + 1] = J[c + 1] + S[c + 1]
        /\ J[c + 1] \in Nat /\ S[c + 1] \in Nat /\ c + 1 \in Nat
        OBVIOUS
  <2>2. ASSUME NEW p \in 1..J[(c + 1) + 1] PROVE \E k \in 0..(c + 1) : At(k, p)
    <3>1. CASE p <= J[c + 1]
      <4>1. p \in 1..J[c + 1]
            BY <2>1, <3>1
      <4>2. PICK k \in 0..c : At(k, p)
            BY <1>2, <4>1
      <4> HIDE DEF At
      <4> QED BY <4>2
    <3>2. CASE p > J[c + 1]
      <4>1. p - J[c + 1] \in 1..S[c + 1] /\ p = J[c + 1] + (p - J[c + 1])
            BY <2>1, <3>2
      <4>2. At(c + 1, p)
            BY <4>1
      <4> HIDE DEF At
      <4> QED BY <4>2
    <3> QED BY <2>1, <3>1, <3>2
  <2> HIDE DEF At
  <2> QED BY <2>1, <2>2
<1>3. Nat \subseteq T
  <2> HIDE DEF T
  <2> QED BY <1>1, <1>2, Induction
<1> QED BY <1>3

-----------------------------------------------------------------------------
(***************************************************************************)
(* A tree: its leaves, and on each level above them the hashes of pairs.   *)
(***************************************************************************)
Node == Seq(Int)
Right(s, i) == IF 2 * i <= s THEN 2 * i ELSE s
Pair(t, J, S, k, i) == SHA256D(t[J[k] + (2 * i - 1)] \o t[J[k] + Right(S[k], i)])

IsTree(t, h, e, J, S) ==
    /\ t \in Seq(Node) /\ Len(t) = J[e] + S[e]
    /\ \A i \in 1..S[0] : t[i] = h[i]
    /\ \A k \in Nat : k < e => \A i \in 1..S[k + 1] : t[J[k + 1] + i] = Pair(t, J, S, k, i)

LEMMA NodeType ==
    ASSUME NEW x \in Node, NEW y \in Node
    PROVE  SHA256D(x) \in Node /\ SHA256D(x \o y) \in Node
BY DEF SHA256D, Node

\* Both nodes of a pair are on its level; the left one is the first only of the
\* first pair.
LEMMA PairPlaces ==
    ASSUME NEW s \in Nat, s >= 1, NEW i \in 1..Half(s)
    PROVE  /\ 2 * i - 1 \in 1..s /\ Right(s, i) \in 1..s
           /\ i >= 2 => 2 * i - 1 >= 2 /\ Right(s, i) >= 2
           /\ s > 1 => Right(s, 1) = 2
<1>1. i \in Nat /\ i >= 1 /\ 2 * i <= s + 1
      BY HalfIs
<1> QED BY <1>1 DEF Right

LEMMA PlaceWithin ==
    ASSUME NEW j \in Nat, NEW s \in Nat, NEW c \in Nat, NEW i \in 1..s, j + s <= c
    PROVE  j + i \in 1..c
OBVIOUS

Joins(t, J, S, k) == t \o [i \in 1..S[k + 1] |-> Pair(t, J, S, k, i)]

LEMMA TreeGrows ==
    ASSUME NEW n, NEW d, NEW J, NEW S, Shape(n, d, J, S), NEW h, NEW e \in Nat, NEW t, IsTree(t, h, e, J, S)
    PROVE  IsTree(Joins(t, J, S, e), h, e + 1, J, S)
<1> DEFINE q == [i \in 1..S[e + 1] |-> Pair(t, J, S, e, i)]
           u == t \o q
<1>1. /\ J[e] \in Nat /\ S[e] \in Nat /\ S[e] >= 1 /\ S[e + 1] = Half(S[e]) /\ S[e + 1] \in Nat
      /\ J[e + 1] = J[e] + S[e] /\ J[e + 1] \in Nat /\ J[0] = 0 /\ S[0] \in Nat
      /\ J[0 + 1] = J[0] + S[0]
      BY DEF Shape
<1>2. t \in Seq(Node) /\ Len(t) = J[e + 1]
      BY <1>1 DEF IsTree
<1>3. ASSUME NEW k \in Nat, k <= e, NEW i \in 1..S[k + 1]
      PROVE  /\ J[k] + (2 * i - 1) \in 1..Len(t) /\ J[k] + Right(S[k], i) \in 1..Len(t)
  <2>1. /\ J[k] \in Nat /\ S[k] \in Nat /\ S[k] >= 1 /\ J[k + 1] = J[k] + S[k] /\ S[k + 1] = Half(S[k])
        /\ J[k + 1] \in Nat
        BY DEF Shape
  <2>2. J[k + 1] <= J[e + 1]
        BY <1>3, StartsGrow
  <2>3. 2 * i - 1 \in 1..S[k] /\ Right(S[k], i) \in 1..S[k]
    <3> DEFINE s == S[k]
    <3>1. s \in Nat /\ s >= 1 /\ i \in 1..Half(s)
          BY <2>1
    <3> HIDE DEF s
    <3>2. 2 * i - 1 \in 1..s /\ Right(s, i) \in 1..s
          BY <3>1, PairPlaces
    <3> QED BY <3>2 DEF s
  <2>4. J[k] + S[k] <= J[e + 1]
        BY <2>1, <2>2
  <2> QED BY <1>1, <1>2, <2>1, <2>3, <2>4, PlaceWithin
<1>4. \A i \in 1..S[e + 1] : Pair(t, J, S, e, i) \in Node
  <2> SUFFICES ASSUME NEW i \in 1..S[e + 1] PROVE Pair(t, J, S, e, i) \in Node
      OBVIOUS
  <2>1. J[e] + (2 * i - 1) \in 1..Len(t) /\ J[e] + Right(S[e], i) \in 1..Len(t)
        BY <1>3
  <2>2. t[J[e] + (2 * i - 1)] \in Node /\ t[J[e] + Right(S[e], i)] \in Node
        BY <1>2, <2>1
  <2> QED BY <2>2, NodeType DEF Pair
<1>5. q \in Seq(Node) /\ Len(q) = S[e + 1]
      BY <1>1, <1>4
<1>6. /\ u \in Seq(Node) /\ Len(u) = J[e + 1] + S[e + 1]
      /\ \A p \in 1..Len(t) : u[p] = t[p]
      /\ \A i \in 1..S[e + 1] : u[Len(t) + i] = q[i]
  <2> HIDE DEF q
  <2>1. /\ u \in Seq(Node) /\ Len(u) = Len(t) + Len(q)
        /\ \A p \in 1..Len(t) : u[p] = t[p]
        /\ \A i \in 1..Len(q) : u[Len(t) + i] = q[i]
    <3>1. t \in Seq(Node) /\ q \in Seq(Node)
          BY <1>2, <1>5
    <3> QED BY <3>1
  <2> HIDE DEF u
  <2> QED BY <1>2, <1>5, <2>1
<1>7. ASSUME NEW k \in Nat, k <= e, NEW i \in 1..S[k + 1] PROVE Pair(u, J, S, k, i) = Pair(t, J, S, k, i)
  <2>1. J[k] + (2 * i - 1) \in 1..Len(t) /\ J[k] + Right(S[k], i) \in 1..Len(t)
    <3> HIDE DEF u
    <3> QED BY <1>3, <1>7
  <2> HIDE DEF u
  <2> QED BY <1>6, <2>1 DEF Pair
<1>8. \A i \in 1..S[0] : u[i] = h[i]
  <2>1. J[0 + 1] <= J[e + 1]
        BY StartsGrow
  <2>2. \A i \in 1..S[0] : i \in 1..Len(t)
        BY <1>1, <1>2, <2>1
  <2> HIDE DEF u
  <2> QED BY <1>6, <2>2 DEF IsTree
<1>9. ASSUME NEW k \in Nat, k < e + 1, NEW i \in 1..S[k + 1]
      PROVE  u[J[k + 1] + i] = Pair(u, J, S, k, i)
  <2> HIDE DEF u
  <2>1. k <= e /\ Pair(u, J, S, k, i) = Pair(t, J, S, k, i)
        BY <1>7, <1>9
  <2>2. CASE k = e
        BY <1>2, <1>6, <2>1, <2>2
  <2>3. CASE k < e
    <3>1. J[(k + 1) + 1] <= J[e + 1]
          BY <2>3, StartsGrow
    <3>2. J[k + 1] + i \in 1..Len(t)
      <4>1. J[(k + 1) + 1] = J[k + 1] + S[k + 1] /\ J[k + 1] \in Nat /\ S[k + 1] \in Nat
            /\ J[(k + 1) + 1] \in Nat
            BY DEF Shape
      <4>2. J[k + 1] + S[k + 1] <= J[e + 1]
            BY <3>1, <4>1
      <4> QED BY <1>1, <1>2, <4>1, <4>2, PlaceWithin
    <3>3. t[J[k + 1] + i] = Pair(t, J, S, k, i)
          BY <2>3 DEF IsTree
    <3> QED BY <1>6, <2>1, <3>2, <3>3
  <2> QED BY <1>9, <2>2, <2>3
<1> HIDE DEF q, u
<1> QED BY <1>6, <1>8, <1>9 DEF IsTree, Joins, q, u

LEMMA TreeExtends ==
    ASSUME NEW n, NEW d, NEW J, NEW S, Shape(n, d, J, S), NEW h, NEW e \in Nat, NEW t, IsTree(t, h, e, J, S)
    PROVE  Joins(t, J, S, e) \in Seq(Node)
BY TreeGrows DEF IsTree

\* BuildMerkleTree makes the tree of the hashes of the transactions.
Hashes(tx) == [i \in DOMAIN tx |-> TxHash(tx[i])]

LEMMA BuildIs ==
    ASSUME NEW tx, NEW n \in Nat \ {0}, n = Len(tx), DOMAIN tx = 1..n, Hashes(tx) \in Seq(Node),
           NEW d, d = Depth(n), NEW J, J = Starts(n), NEW S, S = Sizes(n)
    PROVE  IsTree(BuildMerkleTree(tx), Hashes(tx), d, J, S)
<1> DEFINE h == Hashes(tx)
           D == Seq(Node)
           Next1(x) == Joins(x[2], J, S, x[1] - 1)
           step == [x \in Nat \X D |-> IF Next1(x) \in D THEN Next1(x) ELSE x[2]]
           Pairs(t, l) ==
               t \o [i \in 1..Half(l.size) |->
                        SHA256D(t[l.j + 2 * i - 1]
                                \o t[l.j + (IF 2 * i <= l.size THEN 2 * i ELSE l.size)])]
           Is(v) == v = [k \in 0..d |-> IF k = 0 THEN [i \in DOMAIN tx |-> TxHash(tx[i])]
                                        ELSE Pairs(v[k - 1], Level(n)[k - 1])]
<1>1. Shape(n, d, J, S) /\ d \in Nat
  <2>1. Shape(n, d, J, S)
        BY ShapeIs
  <2>2. d \in 0..n
        BY <2>1 DEF Shape
  <2> QED BY <2>1, <2>2
<1>2. h \in D /\ Len(h) = n
      BY DEF Hashes
<1>3. PICK f : Iterates(f, D, h, step)
  <2>1. step \in Steps(D)
        BY DEF Steps
  <2> HIDE DEF D, step, h
  <2> QED BY <1>2, <2>1, Iteration
<1>4. BuildMerkleTree(tx) = (CHOOSE p : Is(p))[d]
      BY DEF BuildMerkleTree
<1>5. h = [i \in DOMAIN tx |-> TxHash(tx[i])]
      BY DEF Hashes
<1>6. ASSUME NEW t, NEW m \in Nat PROVE Pairs(t, Level(n)[m]) = Joins(t, J, S, m)
  <2>1. J[m] = Level(n)[m].j /\ S[m] = Level(n)[m].size
        BY DEF Starts, Sizes
  <2>2. J[m] \in Nat /\ S[m] \in Nat /\ S[m + 1] = Half(S[m]) /\ S[m + 1] \in Nat
    <3>1. Shape(n, d, J, S) /\ m \in Nat
          BY <1>1
    <3>2. J[m] \in Nat /\ S[m] \in Nat
          BY <3>1, ShapeAt
    <3>3. S[m + 1] = Half(S[m])
          BY <3>1 DEF Shape
    <3>4. S[m + 1] \in Nat
          BY <3>1, ShapeAt
    <3> QED BY <3>2, <3>3, <3>4
  <2>3. \A i \in 1..S[m + 1] : J[m] + 2 * i - 1 = J[m] + (2 * i - 1)
        BY <2>2
  <2>4. [i \in 1..Half(S[m]) |->
             SHA256D(t[J[m] + 2 * i - 1] \o t[J[m] + (IF 2 * i <= S[m] THEN 2 * i ELSE S[m])])]
        = [i \in 1..S[m + 1] |-> Pair(t, J, S, m, i)]
        BY <2>2, <2>3 DEF Pair, Right
  <2> QED BY <2>1, <2>4 DEF Joins
<1> HIDE DEF Pairs, h
<1>7. f[0] = h /\ f \in [Nat -> D]
      BY <1>3 DEF Iterates
<1>8. ASSUME NEW k \in Nat, IsTree(f[k], h, k, J, S)
      PROVE  f[k + 1] = Joins(f[k], J, S, k)
  <2> HIDE DEF D
  <2>1. <<k + 1, f[k]>> \in Nat \X D /\ (k + 1) - 1 = k
        BY <1>7
  <2>2. Next1(<<k + 1, f[k]>>) = Joins(f[k], J, S, k)
        BY <2>1
  <2>3. Joins(f[k], J, S, k) \in D
        BY <1>1, <1>8, TreeExtends DEF D
  <2>4. f[k + 1] = step[<<k + 1, f[k]>>]
        BY <1>3 DEF Iterates
  <2> HIDE DEF Next1
  <2> QED BY <2>1, <2>2, <2>3, <2>4
<1> HIDE DEF step
<1>9. \A k \in Nat : IsTree(f[k], h, k, J, S)
  <2> DEFINE T == {k \in Nat : IsTree(f[k], h, k, J, S)}
  <2>1. IsTree(f[0], h, 0, J, S)
    <3>1. J[0] = 0 /\ S[0] = n
          BY <1>1 DEF Shape
    <3>2. \A k \in Nat : ~(k < 0)
          OBVIOUS
    <3> QED BY <1>2, <1>7, <3>1, <3>2 DEF IsTree
  <2>2. ASSUME NEW k \in Nat, k \in T PROVE k + 1 \in T
    <3>1. IsTree(f[k], h, k, J, S)
          BY <2>2
    <3>2. IsTree(Joins(f[k], J, S, k), h, k + 1, J, S)
          BY <1>1, <3>1, TreeGrows
    <3> QED BY <1>8, <3>1, <3>2
  <2>3. Nat \subseteq T
    <3>1. 0 \in T
          BY <2>1
    <3> HIDE DEF T
    <3> QED BY <3>1, <2>2, Induction
  <2> QED BY <2>3
<1> DEFINE g == [k \in 0..d |-> f[k]]
<1>10. Is(g)
  <2>1. ASSUME NEW k \in 0..d PROVE g[k] = IF k = 0 THEN h ELSE Pairs(g[k - 1], Level(n)[k - 1])
    <3>1. CASE k = 0
          BY <1>7, <3>1
    <3>2. CASE k # 0
      <4>1. k - 1 \in Nat /\ (k - 1) + 1 = k /\ k - 1 \in 0..d
            BY <1>1, <3>2
      <4>2. f[(k - 1) + 1] = Joins(f[k - 1], J, S, k - 1)
            BY <1>8, <1>9, <4>1
      <4>3. g[k] = f[k] /\ g[k - 1] = f[k - 1]
            BY <4>1
      <4> HIDE DEF g
      <4> QED BY <1>6, <4>1, <4>2, <4>3, <3>2
    <3> QED BY <3>1, <3>2
  <2> QED BY <1>5, <2>1
<1> DEFINE v == CHOOSE p : Is(p)
<1>11. Is(v)
  <2> HIDE DEF Is, g
  <2> QED BY <1>10
<1> HIDE DEF v, g
<1>12. \A k \in 0..d : v[k] = g[k]
  <2>1. v[0] = g[0]
        BY <1>1, <1>10, <1>11
  <2>2. ASSUME NEW k \in 1..d, v[k - 1] = g[k - 1] PROVE v[k] = g[k]
    <3>1. k \in 0..d /\ k # 0
          OBVIOUS
    <3>2. v[k] = Pairs(v[k - 1], Level(n)[k - 1]) /\ g[k] = Pairs(g[k - 1], Level(n)[k - 1])
          BY <1>10, <1>11, <3>1
    <3> QED BY <2>2, <3>2
  <2>3. Alike(d, v, g)
        BY <2>1, <2>2 DEF Alike
  <2> QED BY <1>1, <2>3, SameRun
<1>13. v[d] = f[d]
      BY <1>1, <1>12 DEF g
<1>14. BuildMerkleTree(tx) = v[d]
      BY <1>4 DEF v
<1> QED BY <1>1, <1>9, <1>13, <1>14 DEF h

LEMMA TreeType ==
    ASSUME NEW n, NEW d, NEW J, NEW S, Shape(n, d, J, S), NEW h, NEW t, IsTree(t, h, d, J, S)
    PROVE  /\ n \in Nat /\ n >= 1 /\ d \in Nat
           /\ J[0] = 0 /\ S[0] = n /\ J[d] \in Nat /\ S[d] = 1 /\ J[d + 1] = J[d] + 1
           /\ t \in Seq(Node) /\ Len(t) = J[d] + 1
<1>1. n \in Nat /\ n >= 1 /\ d \in Nat /\ J[0] = 0 /\ S[0] = n /\ S[d] = 1
      BY DEF Shape
<1>2. J[d] \in Nat /\ J[d + 1] = J[d] + S[d]
      BY <1>1, ShapeAt
<1>3. t \in Seq(Node) /\ Len(t) = J[d] + S[d]
      BY DEF IsTree
<1> QED BY <1>1, <1>2, <1>3

-----------------------------------------------------------------------------
(***************************************************************************)
(* Trees of blocks that differ in the coinbase only: they agree but for    *)
(* the first node of each level.                                           *)
(***************************************************************************)
Siblings(n, d, J, S, h, t, g, u) ==
    /\ Shape(n, d, J, S)
    /\ IsTree(t, h, d, J, S) /\ IsTree(u, g, d, J, S)
    /\ \A i \in 2..n : h[i] = g[i]

LEMMA SiblingsAgree ==
    ASSUME NEW n, NEW d, NEW J, NEW S, NEW h, NEW t, NEW g, NEW u,
           Siblings(n, d, J, S, h, t, g, u)
    PROVE  \A k \in 0..d : \A i \in 2..S[k] : t[J[k] + i] = u[J[k] + i]
<1>1. /\ Shape(n, d, J, S) /\ IsTree(t, h, d, J, S) /\ IsTree(u, g, d, J, S)
      /\ \A i \in 2..n : h[i] = g[i]
      BY DEF Siblings
<1>2. d \in Nat /\ n \in Nat /\ J[0] = 0 /\ S[0] = n
      BY <1>1 DEF Shape
<1> DEFINE T == {k \in Nat : k <= d => \A i \in 2..S[k] : t[J[k] + i] = u[J[k] + i]}
<1>3. 0 \in T
  <2>1. ASSUME NEW i \in 2..n PROVE t[0 + i] = u[0 + i]
    <3>1. i \in 1..S[0] /\ 0 + i = i
          BY <1>2
    <3>2. t[i] = h[i] /\ u[i] = g[i]
          BY <1>1, <3>1 DEF IsTree
    <3> QED BY <1>1, <3>1, <3>2
  <2> QED BY <1>2, <2>1
<1>4. ASSUME NEW k \in Nat, k \in T PROVE k + 1 \in T
  <2> SUFFICES ASSUME k + 1 <= d, NEW i \in 2..S[k + 1] PROVE t[J[k + 1] + i] = u[J[k + 1] + i]
      OBVIOUS
  <2> DEFINE s == S[k]
  <2>1. k < d /\ k <= d /\ s \in Nat /\ s >= 1 /\ S[k + 1] = Half(s) /\ S[k + 1] \in Nat
        BY <1>1, <1>2, ShapeAt
  <2>2. i \in 1..S[k + 1] /\ i \in 1..Half(s) /\ i >= 2
        BY <2>1
  <2>3. 2 * i - 1 \in 2..s /\ Right(s, i) \in 2..s
    <3> HIDE DEF s
    <3>1. /\ 2 * i - 1 \in 1..s /\ Right(s, i) \in 1..s
          /\ i >= 2 => 2 * i - 1 >= 2 /\ Right(s, i) >= 2
          BY <2>1, <2>2, PairPlaces
    <3> QED BY <2>1, <2>2, <3>1
  <2>4. Pair(t, J, S, k, i) = Pair(u, J, S, k, i)
        BY <1>4, <2>1, <2>3 DEF Pair
  <2>5. t[J[k + 1] + i] = Pair(t, J, S, k, i) /\ u[J[k + 1] + i] = Pair(u, J, S, k, i)
        BY <1>1, <2>1, <2>2 DEF IsTree
  <2> QED BY <2>4, <2>5
<1>5. Nat \subseteq T
  <2> HIDE DEF T
  <2> QED BY <1>3, <1>4, Induction
<1> QED BY <1>2, <1>5

\* The first node of a level is the hash of the first pair below it.
LEMMA FirstNode ==
    ASSUME NEW n, NEW d, NEW J, NEW S, Shape(n, d, J, S), NEW h, NEW t, IsTree(t, h, d, J, S),
           NEW k \in Nat, k < d
    PROVE  t[J[k + 1] + 1] = SHA256D(t[J[k] + 1] \o t[J[k] + 2])
<1> DEFINE s == S[k]
<1>1. s \in Nat /\ s > 1 /\ S[k + 1] = Half(s) /\ J[k] \in Nat
      BY ShapeAt
<1>2. 1 \in 1..S[k + 1] /\ Right(s, 1) = 2
  <2> HIDE DEF s
  <2> QED BY <1>1, HalfIs DEF Right
<1>3. t[J[k + 1] + 1] = Pair(t, J, S, k, 1)
      BY <1>2 DEF IsTree
<1> QED BY <1>2, <1>3 DEF Pair

\* The second node of a level is not the first one of any.
LEMMA OtherPlaces ==
    ASSUME NEW n, NEW d, NEW J, NEW S, Shape(n, d, J, S), NEW k \in Nat, NEW i \in 2..S[k], NEW m \in Nat
    PROVE  J[k] + i # J[m] + 1
<1>1. J[k] \in Nat /\ S[k] \in Nat /\ J[m] \in Nat /\ J[k + 1] = J[k] + S[k]
      BY ShapeAt
<1>2. CASE m <= k
  <2>1. J[m] <= J[k]
        BY <1>2, StartsGrow
  <2> QED BY <1>1, <2>1
<1>3. CASE k + 1 <= m
  <2>1. J[k + 1] <= J[m]
        BY <1>3, StartsGrow
  <2> QED BY <1>1, <2>1
<1> QED BY <1>2, <1>3

LEMMA FirstPlaces ==
    ASSUME NEW n, NEW d, NEW J, NEW S, Shape(n, d, J, S), NEW k \in Nat, k <= d
    PROVE  /\ J[k] + 1 \in 1..(J[d] + 1)
           /\ k < d => J[k] + 2 \in 1..(J[d] + 1) /\ 2 \in 2..S[k]
<1>1. d \in Nat /\ J[k] \in Nat /\ J[d] \in Nat /\ S[k] \in Nat /\ J[k + 1] = J[k] + S[k]
      BY ShapeAt DEF Shape
<1>2. J[k] <= J[d]
      BY <1>1, StartsGrow
<1>3. ASSUME k < d PROVE J[k] + 2 <= J[d] + 1 /\ S[k] > 1
  <2>1. J[k + 1] <= J[d]
        BY <1>1, <1>3, StartsGrow
  <2>2. S[k] > 1
        BY <1>3, ShapeAt
  <2> QED BY <1>1, <2>1, <2>2
<1> QED BY <1>1, <1>2, <1>3

\* The places that the left side of the tree reaches up to a level.
LeftUpTo(J, k, p) == \E m \in 0..k : p = J[m] + 1

\* Rebuilding the left side of the old tree gives the new one.
LEMMA RebuildIs ==
    ASSUME NEW n, NEW d, d = Depth(n), NEW J, J = Starts(n), NEW S, S = Sizes(n),
           NEW h, NEW t, NEW g, NEW u, Siblings(n, d, J, S, h, t, g, u),
           NEW tx, n = Len(tx), TxHash(tx[1]) = g[1]
    PROVE  RebuildMerkleTree(t, tx) = u
<1> DEFINE Left(x, l) == [x EXCEPT ![l.j + l.size + 1] = SHA256D(x[l.j + 1] \o x[l.j + 2])]
           LeftAt(x, k) == [x EXCEPT ![J[k + 1] + 1] = SHA256D(x[J[k] + 1] \o x[J[k] + 2])]
           Is(v) == v = [k \in 0..d |-> IF k = 0 THEN [t EXCEPT ![1] = TxHash(tx[1])]
                                        ELSE Left(v[k - 1], Level(n)[k - 1])]
           r == [k \in 0..d |-> [p \in 1..(J[d] + 1) |-> IF LeftUpTo(J, k, p) THEN u[p] ELSE t[p]]]
<1>1. RebuildMerkleTree(t, tx) = (CHOOSE v : Is(v))[d]
      BY DEF RebuildMerkleTree
<1>2. Shape(n, d, J, S) /\ IsTree(t, h, d, J, S) /\ IsTree(u, g, d, J, S)
      BY DEF Siblings
<1>3. /\ d \in Nat /\ J[0] = 0 /\ J[d] \in Nat /\ S[0] \in Nat /\ S[0] >= 1 /\ S[d] = 1
      /\ J[d + 1] = J[d] + 1
      /\ t \in Seq(Node) /\ u \in Seq(Node) /\ Len(t) = J[d] + 1 /\ Len(u) = J[d] + 1
  <2> HIDE DEF Is, r
  <2> QED BY <1>2, TreeType
<1>4. ASSUME NEW x, NEW m \in Nat PROVE Left(x, Level(n)[m]) = LeftAt(x, m)
  <2>1. J[m] = Level(n)[m].j /\ S[m] = Level(n)[m].size
        BY DEF Starts, Sizes
  <2>2. J[m + 1] = J[m] + S[m]
        BY <1>2 DEF Shape
  <2> QED BY <2>1, <2>2
<1> HIDE DEF Left
<1>5. r[0] = [t EXCEPT ![1] = TxHash(tx[1])]
  <2> DEFINE a == r[0]
             b == [t EXCEPT ![1] = TxHash(tx[1])]
  <2>1. u[1] = TxHash(tx[1])
    <3>1. 1 \in 1..S[0]
          BY <1>3
    <3> QED BY <1>2, <3>1 DEF IsTree
  <2>2. \A p \in 1..(J[d] + 1) : LeftUpTo(J, 0, p) <=> p = 1
        BY <1>3 DEF LeftUpTo
  <2>3. 0 \in 0..d
        BY <1>3
  <2>4. a = [p \in 1..(J[d] + 1) |-> IF p = 1 THEN u[p] ELSE t[p]]
        BY <2>2, <2>3
  <2>5. DOMAIN t = 1..(J[d] + 1)
        BY <1>3
  <2>6. b = [p \in 1..(J[d] + 1) |-> IF p = 1 THEN u[1] ELSE t[p]]
        BY <2>1, <2>5
  <2> HIDE DEF r
  <2> QED BY <2>4, <2>6
<1>6. ASSUME NEW k \in 1..d PROVE r[k] = LeftAt(r[k - 1], k - 1)
  <2> DEFINE m == k - 1
             x == r[m]
             P == 1..(J[d] + 1)
             w == SHA256D(x[J[m] + 1] \o x[J[m] + 2])
  <2>1. m \in Nat /\ m < d /\ m <= d /\ m + 1 = k /\ m \in 0..d /\ k \in 0..d /\ k \in Nat /\ k <= d
        BY <1>3
  <2>2. J[m] + 1 \in P /\ J[m] + 2 \in P /\ 2 \in 2..S[m] /\ J[k] + 1 \in P
        BY <1>2, <2>1, FirstPlaces
  <2>3. x = [p \in P |-> IF LeftUpTo(J, m, p) THEN u[p] ELSE t[p]]
        BY <2>1
  <2>4. LeftUpTo(J, m, J[m] + 1)
        BY <2>1 DEF LeftUpTo
  <2>5. ~LeftUpTo(J, m, J[m] + 2)
    <3>1. \A c \in 0..m : J[m] + 2 # J[c] + 1
          BY <1>2, <2>1, <2>2, OtherPlaces
    <3> QED BY <3>1 DEF LeftUpTo
  <2>6. t[J[m] + 2] = u[J[m] + 2]
        BY <2>1, <2>2, SiblingsAgree
  <2>7. w = u[J[k] + 1]
    <3>1. x[J[m] + 1] = u[J[m] + 1] /\ x[J[m] + 2] = u[J[m] + 2]
          BY <2>2, <2>3, <2>4, <2>5, <2>6
    <3>2. u[J[m + 1] + 1] = SHA256D(u[J[m] + 1] \o u[J[m] + 2])
          BY <1>2, <2>1, FirstNode
    <3> QED BY <2>1, <3>1, <3>2
  <2>8. \A p \in P : LeftUpTo(J, k, p) <=> LeftUpTo(J, m, p) \/ p = J[k] + 1
        BY <2>1 DEF LeftUpTo
  <2>9. r[k] = [p \in P |-> IF p = J[k] + 1 THEN w ELSE x[p]]
    <3>1. r[k] = [p \in P |-> IF LeftUpTo(J, k, p) THEN u[p] ELSE t[p]]
          BY <2>1
    <3>2. ASSUME NEW p \in P
          PROVE  (IF LeftUpTo(J, k, p) THEN u[p] ELSE t[p]) = (IF p = J[k] + 1 THEN w ELSE x[p])
      <4>1. x[p] = IF LeftUpTo(J, m, p) THEN u[p] ELSE t[p]
            BY <2>3
      <4> HIDE DEF x, w
      <4> QED BY <2>7, <2>8, <4>1
    <3> HIDE DEF r, w, P
    <3> QED BY <3>1, <3>2
  <2>10. LeftAt(x, m) = [p \in P |-> IF p = J[k] + 1 THEN w ELSE x[p]]
    <3>1. DOMAIN x = P
          BY <2>3
    <3> HIDE DEF r, P
    <3> QED BY <2>1, <2>2, <3>1
  <2> HIDE DEF r, w
  <2> QED BY <2>9, <2>10
<1> HIDE DEF LeftAt
<1>7. Is(r)
  <2>1. ASSUME NEW k \in 0..d
        PROVE  r[k] = IF k = 0 THEN [t EXCEPT ![1] = TxHash(tx[1])] ELSE Left(r[k - 1], Level(n)[k - 1])
    <3>1. CASE k = 0
          BY <1>5, <3>1
    <3>2. CASE k # 0
      <4>1. k \in 1..d /\ k - 1 \in Nat
            BY <1>3, <3>2
      <4> HIDE DEF r
      <4> QED BY <1>4, <1>6, <4>1, <3>2
    <3> QED BY <3>1, <3>2
  <2>2. r = [k \in 0..d |-> r[k]]
        OBVIOUS
  <2> HIDE DEF r
  <2> QED BY <2>1, <2>2
<1> DEFINE v == CHOOSE x : Is(x)
<1>8. Is(v)
  <2> HIDE DEF Is, r
  <2> QED BY <1>7
<1> HIDE DEF v
<1>9. v[d] = r[d]
  <2> HIDE DEF r
  <2>1. v[0] = r[0]
        BY <1>3, <1>7, <1>8
  <2>2. ASSUME NEW k \in 1..d, v[k - 1] = r[k - 1] PROVE v[k] = r[k]
    <3>1. k \in 0..d /\ k # 0
          OBVIOUS
    <3>2. v[k] = Left(v[k - 1], Level(n)[k - 1]) /\ r[k] = Left(r[k - 1], Level(n)[k - 1])
          BY <1>7, <1>8, <3>1
    <3> QED BY <2>2, <3>2
  <2>3. Alike(d, v, r)
        BY <2>1, <2>2 DEF Alike
  <2>4. \A k \in 0..d : v[k] = r[k]
        BY <1>3, <2>3, SameRun
  <2> QED BY <1>3, <2>4
<1>10. r[d] = u
  <2> DEFINE q == r[d]
  <2>1. d \in 0..d /\ q = [p \in 1..(J[d] + 1) |-> IF LeftUpTo(J, d, p) THEN u[p] ELSE t[p]]
        BY <1>3
  <2>2. ASSUME NEW p \in 1..(J[d] + 1), ~LeftUpTo(J, d, p) PROVE t[p] = u[p]
    <3>1. p \in 1..J[d + 1]
          BY <1>3
    <3>2. PICK k \in 0..d : \E i \in 1..S[k] : p = J[k] + i
      <4>1. Placed(J, S, d, p)
            BY <1>2, <1>3, <3>1, PlaceIs
      <4> QED BY <4>1 DEF Placed
    <3>3. PICK i \in 1..S[k] : p = J[k] + i
          BY <3>2
    <3>4. i # 1
          BY <2>2, <3>3 DEF LeftUpTo
    <3>5. S[k] \in Nat
          BY <1>2 DEF Shape
    <3>6. i \in 2..S[k]
          BY <3>4, <3>5
    <3> QED BY <3>3, <3>6, SiblingsAgree
  <2>3. q = [p \in 1..(J[d] + 1) |-> u[p]]
        BY <2>1, <2>2
  <2>4. u = [p \in 1..(J[d] + 1) |-> u[p]]
        BY <1>3
  <2> QED BY <2>3, <2>4
<1> QED BY <1>1, <1>9, <1>10 DEF v

\* Level after level, the reference definition of the root ends at the last node.
LEMMA RootIs ==
    ASSUME NEW n, NEW d, NEW J, NEW S, Shape(n, d, J, S), NEW h, NEW t, IsTree(t, h, d, J, S),
           h = [i \in 1..n |-> h[i]]
    PROVE  MerkleRoot(h) = t[J[d] + 1]
<1> DEFINE Above(l) ==
               IF Len(l) = 1 THEN l
               ELSE [i \in 1..Half(Len(l)) |->
                        SHA256D(l[2 * i - 1] \o l[IF 2 * i <= Len(l) THEN 2 * i ELSE Len(l)])]
           Is(v) == v = [k \in 0..Len(h) |-> IF k = 0 THEN h ELSE Above(v[k - 1])]
           Row(k) == [i \in 1..S[k] |-> t[J[k] + i]]
           r == [k \in 0..n |-> IF k <= d THEN Row(k) ELSE Row(d)]
<1>1. MerkleRoot(h) = (CHOOSE v : Is(v))[Len(h)][1]
      BY DEF MerkleRoot
<1>2. /\ n \in Nat /\ n >= 1 /\ d \in Nat /\ J[0] = 0 /\ S[0] = n /\ J[d] \in Nat /\ S[d] = 1
      BY TreeType
<1>3. d <= n
      BY DEF Shape
<1>4. Len(h) = n
      BY <1>2
<1>5. ASSUME NEW k \in Nat PROVE Len(Row(k)) = S[k] /\ \A i \in 1..S[k] : Row(k)[i] = t[J[k] + i]
  <2>1. S[k] \in Nat
        BY ShapeAt
  <2> QED BY <2>1
<1>6. h = Row(0)
  <2>1. ASSUME NEW i \in 1..n PROVE h[i] = t[0 + i]
    <3>1. i \in 1..S[0] /\ 0 + i = i
          BY <1>2
    <3> QED BY <3>1 DEF IsTree
  <2> QED BY <1>2, <2>1
<1>7. ASSUME NEW k \in Nat, k < d PROVE Above(Row(k)) = Row(k + 1)
  <2> DEFINE s == S[k]
             l == Row(k)
  <2>1. s \in Nat /\ s > 1 /\ s >= 1 /\ S[k + 1] = Half(s) /\ J[k] \in Nat
        BY <1>7, ShapeAt
  <2>2. Len(l) = s /\ \A i \in 1..s : l[i] = t[J[k] + i]
        BY <1>5
  <2>3. ASSUME NEW i \in 1..Half(s)
        PROVE  SHA256D(l[2 * i - 1] \o l[IF 2 * i <= s THEN 2 * i ELSE s]) = t[J[k + 1] + i]
    <3>1. 2 * i - 1 \in 1..s /\ Right(s, i) \in 1..s
      <4> HIDE DEF s
      <4> QED BY <2>1, PairPlaces
    <3>2. l[2 * i - 1] = t[J[k] + (2 * i - 1)] /\ l[Right(s, i)] = t[J[k] + Right(s, i)]
      <4> HIDE DEF s, l
      <4> QED BY <2>2, <3>1
    <3>3. t[J[k + 1] + i] = Pair(t, J, S, k, i)
          BY <1>7, <2>1 DEF IsTree
    <3> HIDE DEF l
    <3> QED BY <3>2, <3>3 DEF Pair, Right
  <2>4. Above(l) = [i \in 1..Half(s) |-> SHA256D(l[2 * i - 1] \o l[IF 2 * i <= s THEN 2 * i ELSE s])]
    <3> HIDE DEF l, s
    <3> QED BY <2>1, <2>2
  <2>5. Row(k + 1) = [i \in 1..Half(s) |-> t[J[k + 1] + i]]
        BY <2>1
  <2> HIDE DEF Above, Row, s, l
  <2>6. Above(l) = Row(k + 1)
        BY <2>3, <2>4, <2>5
  <2> QED BY <2>6 DEF l
<1>8. Above(Row(d)) = Row(d)
  <2>1. Len(Row(d)) = 1
        BY <1>2, <1>5
  <2> HIDE DEF Row
  <2> QED BY <2>1
<1>9. t[J[d] + 1] = Row(d)[1]
      BY <1>2, <1>5
<1> HIDE DEF Above, Row
<1>10. Is(r)
  <2>1. ASSUME NEW k \in 0..n PROVE r[k] = IF k = 0 THEN h ELSE Above(r[k - 1])
    <3>1. CASE k = 0
          BY <1>2, <1>6, <3>1
    <3>2. CASE k # 0
      <4>1. k - 1 \in Nat /\ (k - 1) + 1 = k /\ k - 1 \in 0..n
            BY <1>2, <3>2
      <4>2. CASE k <= d
        <5>1. k - 1 < d /\ k - 1 <= d
              BY <1>2, <4>1, <4>2
        <5>2. Above(Row(k - 1)) = Row(k)
              BY <1>7, <4>1, <5>1
        <5>3. r[k] = Row(k) /\ r[k - 1] = Row(k - 1)
              BY <4>1, <4>2, <5>1
        <5> QED BY <5>2, <5>3, <3>2
      <4>3. CASE ~(k <= d)
        <5>1. r[k] = Row(d) /\ r[k - 1] = Row(d)
          <6>1. CASE k - 1 = d
                BY <1>2, <4>1, <4>3, <6>1
          <6>2. CASE k - 1 # d
                BY <1>2, <4>1, <4>3, <6>2
          <6> QED BY <6>1, <6>2
        <5> QED BY <1>8, <5>1, <3>2
      <4> QED BY <4>2, <4>3
    <3> QED BY <3>1, <3>2
  <2>2. r = [k \in 0..n |-> r[k]]
        OBVIOUS
  <2> HIDE DEF r
  <2> QED BY <1>4, <2>1, <2>2
<1> DEFINE v == CHOOSE x : Is(x)
<1>11. Is(v)
  <2> HIDE DEF Is, r
  <2> QED BY <1>10
<1> HIDE DEF v
<1>12. v[n] = r[n]
  <2> HIDE DEF r
  <2>1. v[0] = r[0]
        BY <1>2, <1>4, <1>10, <1>11
  <2>2. ASSUME NEW k \in 1..n, v[k - 1] = r[k - 1] PROVE v[k] = r[k]
    <3>1. k \in 0..n /\ k # 0
          OBVIOUS
    <3>2. v[k] = Above(v[k - 1]) /\ r[k] = Above(r[k - 1])
          BY <1>4, <1>10, <1>11, <3>1
    <3> QED BY <2>2, <3>2
  <2>3. Alike(n, v, r)
        BY <2>1, <2>2 DEF Alike
  <2>4. \A k \in 0..n : v[k] = r[k]
        BY <1>2, <2>3, SameRun
  <2> QED BY <1>2, <2>4
<1>13. r[n] = Row(d)
  <2>1. CASE n = d
        BY <1>2, <2>1
  <2>2. CASE n # d
        BY <1>2, <1>3, <2>2
  <2> QED BY <2>1, <2>2
<1> QED BY <1>1, <1>4, <1>9, <1>12, <1>13 DEF v

\* The miner's root: its coinbase hashed, and hashed with one branch per level.
LEMMA MinerRootIs ==
    ASSUME NEW n, NEW d, NEW J, NEW S, NEW h, NEW t, NEW g, NEW u, Siblings(n, d, J, S, h, t, g, u),
           NEW m, NEW e, NEW e2, m.branch = [k \in 1..d |-> t[J[k - 1] + 2]],
           g[1] = SHA256D(m.coinbase1 \o e \o e2 \o m.coinbase2)
    PROVE  MinerRoot(m, e, e2) = u[J[d] + 1]
<1> DEFINE b == m.branch
           Is(v) == v = [k \in 0..Len(b) |->
                             IF k = 0 THEN SHA256D(m.coinbase1 \o e \o e2 \o m.coinbase2)
                             ELSE SHA256D(v[k - 1] \o b[k])]
           r == [k \in 0..d |-> u[J[k] + 1]]
<1>1. MinerRoot(m, e, e2) = (CHOOSE v : Is(v))[Len(b)]
      BY DEF MinerRoot
<1>2. Shape(n, d, J, S) /\ IsTree(t, h, d, J, S) /\ IsTree(u, g, d, J, S)
      BY DEF Siblings
<1>3. n \in Nat /\ n >= 1 /\ d \in Nat /\ J[0] = 0 /\ S[0] = n
  <2> HIDE DEF Is, r, b
  <2> QED BY <1>2, TreeType
<1>4. Len(b) = d /\ \A k \in 1..d : b[k] = t[J[k - 1] + 2]
      BY <1>3
<1> HIDE DEF b
<1>5. u[J[0] + 1] = SHA256D(m.coinbase1 \o e \o e2 \o m.coinbase2)
  <2>1. 1 \in 1..S[0]
        BY <1>3
  <2>2. u[1] = g[1]
        BY <1>2, <2>1 DEF IsTree
  <2> QED BY <1>3, <2>2
<1>6. ASSUME NEW k \in 1..d PROVE r[k] = SHA256D(r[k - 1] \o b[k])
  <2>1. k - 1 \in Nat /\ k - 1 < d /\ k - 1 <= d /\ (k - 1) + 1 = k /\ k - 1 \in 0..d /\ k \in 0..d
        BY <1>3
  <2>2. u[J[(k - 1) + 1] + 1] = SHA256D(u[J[k - 1] + 1] \o u[J[k - 1] + 2])
        BY <1>2, <2>1, FirstNode
  <2>3. 2 \in 2..S[k - 1]
        BY <1>2, <2>1, FirstPlaces
  <2>4. t[J[k - 1] + 2] = u[J[k - 1] + 2]
        BY <2>1, <2>3, SiblingsAgree
  <2>5. r[k] = u[J[k] + 1] /\ r[k - 1] = u[J[k - 1] + 1]
        BY <2>1
  <2> HIDE DEF r
  <2> QED BY <1>4, <2>1, <2>2, <2>4, <2>5
<1>7. Is(r)
  <2>1. ASSUME NEW k \in 0..d
        PROVE  r[k] = IF k = 0 THEN SHA256D(m.coinbase1 \o e \o e2 \o m.coinbase2)
                      ELSE SHA256D(r[k - 1] \o b[k])
    <3>1. CASE k = 0
          BY <1>3, <1>5, <3>1
    <3>2. CASE k # 0
      <4>1. k \in 1..d
            BY <1>3, <3>2
      <4> HIDE DEF r
      <4> QED BY <1>6, <4>1, <3>2
    <3> QED BY <3>1, <3>2
  <2>2. r = [k \in 0..d |-> r[k]]
        OBVIOUS
  <2> HIDE DEF r
  <2> QED BY <1>4, <2>1, <2>2
<1> DEFINE v == CHOOSE x : Is(x)
<1>8. Is(v)
  <2> HIDE DEF Is, r
  <2> QED BY <1>7
<1> HIDE DEF v
<1>9. v[d] = r[d]
  <2> HIDE DEF r
  <2>1. v[0] = r[0]
        BY <1>3, <1>4, <1>7, <1>8
  <2>2. ASSUME NEW k \in 1..d, v[k - 1] = r[k - 1] PROVE v[k] = r[k]
    <3>1. k \in 0..d /\ k # 0
          OBVIOUS
    <3>2. v[k] = SHA256D(v[k - 1] \o b[k]) /\ r[k] = SHA256D(r[k - 1] \o b[k])
          BY <1>4, <1>7, <1>8, <3>1
    <3> QED BY <2>2, <3>2
  <2>3. Alike(d, v, r)
        BY <2>1, <2>2 DEF Alike
  <2>4. \A k \in 0..d : v[k] = r[k]
        BY <1>3, <2>3, SameRun
  <2> QED BY <1>3, <2>4
<1>10. r[d] = u[J[d] + 1]
      BY <1>3
<1> QED BY <1>1, <1>4, <1>9, <1>10 DEF v

-----------------------------------------------------------------------------
(***************************************************************************)
(* Sequences in two parts, and hashes, tell their parts apart.             *)
(***************************************************************************)
Joint(x, y) == x \o y

LEMMA JointIs ==
    ASSUME NEW S, NEW x \in Seq(S), NEW y \in Seq(S), NEW z \in Seq(S)
    PROVE  Joint(x, y) \in Seq(S) /\ Joint(Joint(x, y), z) = Joint(x, Joint(y, z))
BY ConcatAssociative DEF Joint

LEMMA JointLen ==
    ASSUME NEW S, NEW x \in Seq(S), NEW y \in Seq(S)
    PROVE  /\ Joint(x, y) \in Seq(S) /\ Len(Joint(x, y)) = Len(x) + Len(y)
           /\ \A i \in 1..Len(x) : Joint(x, y)[i] = x[i]
BY DEF Joint

LEMMA JointAt ==
    ASSUME NEW S, NEW x \in Seq(S), NEW y \in Seq(S)
    PROVE  \A i \in 1..Len(y) : Joint(x, y)[Len(x) + i] = y[i]
BY DEF Joint

LEMMA CutLeft ==
    ASSUME NEW S, NEW a \in Seq(S), NEW b \in Seq(S), NEW c \in Seq(S), NEW e \in Seq(S),
           a \o b = c \o e, Len(a) = Len(c)
    PROVE  a = c /\ b = e
<1>1. Len(a) \in Nat /\ Len(b) \in Nat /\ Len(e) \in Nat
      OBVIOUS
<1>2. Joint(a, b) = Joint(c, e)
      BY DEF Joint
<1>3. Len(b) = Len(e)
  <2>1. Len(Joint(a, b)) = Len(a) + Len(b) /\ Len(Joint(c, e)) = Len(c) + Len(e)
        BY JointLen
  <2> QED BY <1>1, <1>2, <2>1
<1>4. \A i \in 1..Len(a) : a[i] = c[i]
  <2>1. \A i \in 1..Len(a) : Joint(a, b)[i] = a[i]
        BY JointLen
  <2>2. \A i \in 1..Len(c) : Joint(c, e)[i] = c[i]
        BY JointLen
  <2> QED BY <1>2, <2>1, <2>2
<1>5. \A i \in 1..Len(b) : b[i] = e[i]
  <2>1. \A i \in 1..Len(b) : Joint(a, b)[Len(a) + i] = b[i]
        BY JointAt
  <2>2. \A i \in 1..Len(e) : Joint(c, e)[Len(c) + i] = e[i]
        BY JointAt
  <2> QED BY <1>2, <1>3, <2>1, <2>2
<1> QED BY <1>3, <1>4, <1>5, SeqEqual

CutLast(a, b, c, e) == a \o b = c \o e => a = c /\ b = e

LEMMA CutLastIs ==
    ASSUME NEW S, NEW a \in Seq(S), NEW b \in Seq(S), NEW c \in Seq(S), NEW e \in Seq(S), Len(b) = Len(e)
    PROVE  CutLast(a, b, c, e)
<1> SUFFICES ASSUME a \o b = c \o e PROVE a = c /\ b = e
    BY DEF CutLast
<1>1. Len(a) \in Nat /\ Len(b) \in Nat /\ Len(c) \in Nat
      OBVIOUS
<1>2. Len(Joint(a, b)) = Len(a) + Len(b) /\ Len(Joint(c, e)) = Len(c) + Len(e)
      BY JointLen
<1>3. Joint(a, b) = Joint(c, e)
      BY DEF Joint
<1>4. Len(a) = Len(c)
      BY <1>1, <1>2, <1>3
<1> QED BY <1>4, CutLeft

LEMMA CutRight ==
    ASSUME NEW S, NEW a \in Seq(S), NEW b \in Seq(S), NEW c \in Seq(S), a \o b = c \o b
    PROVE  a = c
<1>1. CutLast(a, b, c, b)
      BY CutLastIs
<1> QED BY <1>1 DEF CutLast

LEMMA HashTells ==
    ASSUME NEW x \in Node, NEW y \in Node, SHA256D(x) = SHA256D(y)
    PROVE  x = y
<1> DEFINE p == <<-1>>
           q == <<-2>>
<1>1. p \in Seq(Int) /\ q \in Seq(Int) /\ x \in Seq(Int) /\ y \in Seq(Int)
      BY DEF Node
<1>2. (p \o x) \o q = (p \o y) \o q
      BY DEF SHA256D
<1> HIDE DEF p, q
<1>3. p \o x \in Seq(Int) /\ p \o y \in Seq(Int)
      BY <1>1
<1>4. p \o x = p \o y
  <2> DEFINE u == p \o x
             v == p \o y
  <2>1. u \in Seq(Int) /\ v \in Seq(Int) /\ u \o q = v \o q
        BY <1>2, <1>3
  <2> HIDE DEF u, v
  <2>2. u = v
        BY <1>1, <2>1, CutRight
  <2> QED BY <2>2 DEF u, v
<1> QED BY <1>1, <1>4, CutLeft

\* The root tells the first leaf.
LEMMA RootTells ==
    ASSUME NEW n, NEW d, NEW J, NEW S, NEW h, NEW t, NEW g, NEW u,
           Siblings(n, d, J, S, h, t, g, u), t[J[d] + 1] = u[J[d] + 1]
    PROVE  h[1] = g[1]
<1>1. Shape(n, d, J, S) /\ IsTree(t, h, d, J, S) /\ IsTree(u, g, d, J, S)
      BY DEF Siblings
<1>2. /\ n \in Nat /\ n >= 1 /\ d \in Nat /\ J[0] = 0 /\ S[0] = n /\ J[d] \in Nat
      /\ t \in Seq(Node) /\ Len(t) = J[d] + 1 /\ u \in Seq(Node) /\ Len(u) = J[d] + 1
      BY <1>1, TreeType
<1> DEFINE T == {k \in Nat : k <= d => t[J[d - k] + 1] = u[J[d - k] + 1]}
<1>3. 0 \in T
      BY <1>2
<1>4. ASSUME NEW k \in Nat, k \in T PROVE k + 1 \in T
  <2> SUFFICES ASSUME k + 1 <= d PROVE t[J[d - (k + 1)] + 1] = u[J[d - (k + 1)] + 1]
      OBVIOUS
  <2> DEFINE m == d - (k + 1)
             P == 1..(J[d] + 1)
  <2>1. m \in Nat /\ m < d /\ m <= d /\ m + 1 = d - k /\ m \in 0..d
        BY <1>2
  <2>2. t[J[m + 1] + 1] = u[J[m + 1] + 1]
        BY <1>2, <1>4, <2>1
  <2> HIDE DEF m
  <2>3. J[m] + 1 \in P /\ J[m] + 2 \in P /\ 2 \in 2..S[m]
        BY <1>1, <2>1, FirstPlaces
  <2>4. t[J[m] + 2] = u[J[m] + 2]
        BY <2>1, <2>3, SiblingsAgree
  <2>5. /\ t[J[m + 1] + 1] = SHA256D(t[J[m] + 1] \o t[J[m] + 2])
        /\ u[J[m + 1] + 1] = SHA256D(u[J[m] + 1] \o u[J[m] + 2])
        BY <1>1, <2>1, FirstNode
  <2> DEFINE x == t[J[m] + 1]
             y == u[J[m] + 1]
             z == t[J[m] + 2]
  <2>6. x \in Node /\ y \in Node /\ z \in Node
        BY <1>2, <2>3
  <2>7. SHA256D(x \o z) = SHA256D(y \o z)
        BY <2>2, <2>4, <2>5
  <2> HIDE DEF x, y, z
  <2>8. x \o z \in Node /\ y \o z \in Node
        BY <2>6 DEF Node
  <2>9. x \o z = y \o z
    <3> DEFINE a == x \o z
               b == y \o z
    <3>1. a \in Node /\ b \in Node /\ SHA256D(a) = SHA256D(b)
          BY <2>7, <2>8
    <3> HIDE DEF a, b
    <3>2. a = b
          BY <3>1, HashTells
    <3> QED BY <3>2 DEF a, b
  <2>10. x = y
         BY <2>6, <2>9, CutRight DEF Node
  <2> QED BY <2>10 DEF x, y, m
<1>5. Nat \subseteq T
  <2> HIDE DEF T
  <2> QED BY <1>3, <1>4, Induction
<1>6. t[J[0] + 1] = u[J[0] + 1]
  <2>1. d \in T /\ d <= d /\ d - d = 0
        BY <1>2, <1>5
  <2> QED BY <2>1
<1>7. 1 \in 1..S[0] /\ J[0] + 1 = 1
      BY <1>2
<1>8. t[1] = h[1] /\ u[1] = g[1]
      BY <1>1, <1>7 DEF IsTree
<1> QED BY <1>6, <1>7, <1>8

-----------------------------------------------------------------------------
(***************************************************************************)
(* The coinbase: its bytes are those in front of the extranonces, the      *)
(* extranonces, and those behind them.                                     *)
(***************************************************************************)
Cuts(x, y, z) ==
    /\ SubSeq(x \o y \o z, 1, Len(x)) = x
    /\ SubSeq(x \o y \o z, Len(x) + Len(y) + 1, Len(x \o y \o z)) = z

LEMMA PartsAre ==
    ASSUME NEW S, NEW x \in Seq(S), NEW y \in Seq(S), NEW z \in Seq(S)
    PROVE  Cuts(x, y, z)
<1>1. Len(x) \in Nat /\ Len(y) \in Nat /\ Len(z) \in Nat
      OBVIOUS
<1> DEFINE u == x \o y
           w == u \o z
<1>2. u \in Seq(S) /\ Len(u) = Len(x) + Len(y) /\ \A i \in 1..Len(x) : u[i] = x[i]
      OBVIOUS
<1> HIDE DEF u
<1>4. /\ w \in Seq(S) /\ Len(w) = Len(u) + Len(z)
      /\ \A i \in 1..Len(u) : w[i] = u[i]
      /\ \A i \in 1..Len(z) : w[Len(u) + i] = z[i]
  <2>1. u \in Seq(S)
        BY <1>2
  <2>2. w \in Seq(S) /\ Len(w) = Len(u) + Len(z)
        BY <2>1
  <2>3. \A i \in 1..Len(u) : w[i] = u[i]
        BY <2>1
  <2>4. \A i \in 1..Len(z) : w[Len(u) + i] = z[i]
        BY <2>1
  <2> HIDE DEF w
  <2> QED BY <2>2, <2>3, <2>4
<1> HIDE DEF w
<1>5. SubSeq(w, 1, Len(x)) = x
  <2> DEFINE a == SubSeq(w, 1, Len(x))
  <2>1. a \in Seq(S) /\ Len(a) = Len(x) /\ \A i \in 1..Len(x) : a[i] = w[i]
        BY <1>1, <1>2, <1>4
  <2>2. \A i \in 1..Len(x) : w[i] = x[i]
        BY <1>1, <1>2, <1>4
  <2> HIDE DEF a
  <2>3. a = x
        BY <2>1, <2>2, SeqEqual
  <2> QED BY <2>3 DEF a
<1>6. SubSeq(w, Len(x) + Len(y) + 1, Len(w)) = z
  <2> DEFINE a == SubSeq(w, Len(u) + 1, Len(w))
  <2>1. a \in Seq(S) /\ Len(a) = Len(z) /\ \A i \in 1..Len(z) : a[i] = w[Len(u) + i]
        BY <1>1, <1>2, <1>4
  <2> HIDE DEF a
  <2>2. a = z
        BY <1>4, <2>1, SeqEqual
  <2> QED BY <1>2, <2>2 DEF a
<1> QED BY <1>5, <1>6 DEF u, w, Cuts

LEMMA FlattenOne ==
    ASSUME NEW x \in Seq(Byte)
    PROVE  FlattenSeq(<<x>>) = x
<1> DEFINE s == <<x>>
           p == [i \in 0..1 |-> IF i = 0 THEN <<>> ELSE x]
<1>1. s \in Seq(Seq(Byte)) /\ Len(s) = 1 /\ s[1] = x
      OBVIOUS
<1>2. p \in [0..1 -> Seq(Byte)] /\ p[0] = <<>> /\ p[1] = x
      OBVIOUS
<1> HIDE DEF s, p
<1>3. p[1] = p[0] \o x
      BY <1>2, ConcatEmptySeq
<1>4. \A i \in 1..Len(s) : p[i] = p[i - 1] \o s[i]
  <2> SUFFICES ASSUME NEW i \in 1..Len(s) PROVE p[i] = p[i - 1] \o s[i]
      OBVIOUS
  <2>1. i = 1 /\ i - 1 = 0
        BY <1>1
  <2> QED BY <1>1, <1>3, <2>1
<1>5. Gathers(s, p)
      BY <1>1, <1>2, <1>4 DEF Gathers
<1>6. FlattenSeq(s) = p[Len(s)]
      BY <1>1, <1>5, FlattenIs
<1> QED BY <1>1, <1>2, <1>6 DEF s

Coinbase(height, pubkey, value, e) ==
    [version |-> 1,
     in |-> <<[prevout |-> [hash |-> Zeros(HashLen), n |-> Pow[U32] - 1],
               script |-> Bytes(height, U32) \o e, n |-> 0]>>,
     out |-> <<[value |-> value, scriptPubKey |-> Append(pubkey, OP_CHECKSIG)]>>,
     lockTime |-> 0]

Room == {e \in Seq(Byte) : Len(e) = 2 * U32}
IsCoinbase(height, pubkey, value) ==
    height \in Nat /\ value \in Uint(U64) /\ Append(pubkey, OP_CHECKSIG) \in List(Byte)

LEMMA SmallNumbers ==
    /\ 1 \in Uint(U32) /\ 0 \in Uint(U32) /\ 1 \in Uint(U64) /\ Pow[U32] - 1 \in Uint(U32)
    /\ 3 * U32 \in Uint(U64) /\ 3 * U32 \in Byte /\ 1 \in Byte /\ 0 \in Byte /\ OP_CHECKSIG \in Byte
    /\ WriteVarInt(3 * U32) = <<3 * U32>> /\ WriteVarInt(1) = <<1>>
<1>1. Base \in Nat /\ Base > 3 /\ U32 \in Nat /\ U32 >= 1 /\ 3 * U32 < Base - 3
      BY BaseNat, WidthAssumption DEF Base
<1>2. ASSUME NEW w \in Nat, w >= 1 PROVE Pow[w] \in Nat /\ Pow[w] >= Base
  <2>1. w - 1 \in Nat /\ (w - 1) + 1 = w
        BY <1>2
  <2>2. Pow[w] = Base * Pow[w - 1] /\ Pow[w - 1] \in Nat /\ Pow[w - 1] >= 1
        BY <2>1, PowDef
  <2> DEFINE p == Pow[w - 1]
  <2>3. p \in Nat /\ p >= 1
        BY <2>2
  <2> HIDE DEF p
  <2>4. Base * p \in Nat /\ Base * p >= Base
        BY <1>1, <2>3
  <2> QED BY <2>2, <2>4 DEF p
<1>3. Pow[U32] \in Nat /\ Pow[U32] >= Base /\ Pow[U64] \in Nat /\ Pow[U64] >= Base
      BY <1>1, <1>2 DEF U64
<1>4. 3 * U32 \in Nat
      BY <1>1
<1>5. WriteVarInt(3 * U32) = <<3 * U32>> /\ WriteVarInt(1) = <<1>>
  <2>1. ASSUME NEW n \in Nat, n < Base - 3 PROVE WriteVarInt(n) = <<n>>
    <3>1. Pow[U16] \in Nat /\ Pow[U16] >= Base /\ Pow[U32] \in Nat
          BY Widths
    <3> QED BY <1>1, <2>1, <3>1 DEF WriteVarInt
  <2>2. 1 < Base - 3
        BY <1>1
  <2> QED BY <1>1, <1>4, <2>1, <2>2
<1> QED BY <1>1, <1>3, <1>4, <1>5 DEF Uint, Byte, OP_CHECKSIG

LEMMA CoinbaseType ==
    ASSUME NEW height, NEW pubkey, NEW value, IsCoinbase(height, pubkey, value), NEW e \in Room
    PROVE  Coinbase(height, pubkey, value, e) \in Transaction
<1> DEFINE b == Bytes(height, U32)
           s == b \o e
           z == Zeros(HashLen)
           i == [prevout |-> [hash |-> z, n |-> Pow[U32] - 1], script |-> s, n |-> 0]
           o == [value |-> value, scriptPubKey |-> Append(pubkey, OP_CHECKSIG)]
<1>1. b \in Seq(Byte) /\ Len(b) = U32
      BY Widths, BytesType DEF IsCoinbase
<1>2. s \in Seq(Byte) /\ Len(s) = 3 * U32
  <2> HIDE DEF b
  <2>1. e \in Seq(Byte) /\ Len(e) = 2 * U32 /\ U32 \in Nat
        BY Widths DEF Room
  <2> QED BY <1>1, <2>1
<1>3. z \in Hash
  <2>1. HashLen \in Nat /\ 0 \in Byte
        BY Widths, SmallNumbers
  <2> QED BY <2>1 DEF Zeros, Hash
<1> HIDE DEF s, z
<1>4. s \in List(Byte)
      BY <1>2, SmallNumbers DEF List
<1>5. i \in TxIn
      BY <1>3, <1>4, SmallNumbers DEF TxIn, OutPoint
<1>6. o \in TxOut
      BY DEF TxOut, IsCoinbase
<1> HIDE DEF i, o
<1>7. <<i>> \in List(TxIn)
  <2>1. <<i>> \in Seq(TxIn) /\ Len(<<i>>) = 1
        BY <1>5
  <2> QED BY <2>1, SmallNumbers DEF List
<1>8. <<o>> \in List(TxOut)
  <2>1. <<o>> \in Seq(TxOut) /\ Len(<<o>>) = 1
        BY <1>6
  <2> QED BY <2>1, SmallNumbers DEF List
<1>9. Coinbase(height, pubkey, value, e) = [version |-> 1, in |-> <<i>>, out |-> <<o>>, lockTime |-> 0]
      BY DEF Coinbase, i, o, s, z
<1> QED BY <1>7, <1>8, <1>9, SmallNumbers DEF Transaction

SameBytes(v, c, p, l, h, e, n, w, z) ==
    v \o (c \o (p \o (l \o (h \o e)) \o n)) \o w \o z = (v \o c \o p \o l \o h) \o e \o (n \o w \o z)

LEMMA Regroup ==
    ASSUME NEW S, NEW v \in Seq(S), NEW c \in Seq(S), NEW p \in Seq(S), NEW l \in Seq(S),
           NEW h \in Seq(S), NEW e \in Seq(S), NEW n \in Seq(S), NEW w \in Seq(S), NEW z \in Seq(S)
    PROVE  SameBytes(v, c, p, l, h, e, n, w, z)
<1> DEFINE he == Joint(h, e)
           lhe == Joint(l, he)
           plhe == Joint(p, lhe)
           x0 == Joint(plhe, n)
           cx == Joint(c, x0)
           nw == Joint(n, w)
           nwz == Joint(nw, z)
           vc == Joint(v, c)
           vcp == Joint(vc, p)
           vcpl == Joint(vcp, l)
           f == Joint(vcpl, h)
           fe == Joint(f, e)
<1> HIDE DEF he, lhe, plhe, x0, cx, nw, nwz, vc, vcp, vcpl, f, fe
<1>2. he \in Seq(S) /\ nw \in Seq(S) /\ vc \in Seq(S)
      BY JointIs DEF he, nw, vc
<1>3. lhe \in Seq(S) /\ nwz \in Seq(S) /\ vcp \in Seq(S)
      BY <1>2, JointIs DEF lhe, nwz, vcp
<1>4. plhe \in Seq(S) /\ vcpl \in Seq(S)
      BY <1>3, JointIs DEF plhe, vcpl
<1>5. x0 \in Seq(S) /\ f \in Seq(S) /\ fe \in Seq(S)
      BY <1>4, JointIs DEF x0, f, fe
<1>7. fe = Joint(vcpl, he)
      BY <1>4, JointIs DEF fe, f, he
<1>8. Joint(vcpl, he) = Joint(vcp, lhe)
      BY <1>2, <1>3, JointIs DEF vcpl, lhe
<1>9. Joint(vcp, lhe) = Joint(vc, plhe)
      BY <1>2, <1>3, JointIs DEF vcp, plhe
<1>10. Joint(vc, x0) = Joint(Joint(vc, plhe), n)
      BY <1>2, <1>4, JointIs DEF x0
<1>11. Joint(v, cx) = Joint(vc, x0)
      BY <1>5, JointIs DEF cx, vc
<1>12. Joint(v, cx) = Joint(fe, n)
      BY <1>7, <1>8, <1>9, <1>10, <1>11
<1>13. Joint(Joint(Joint(v, cx), w), z) = Joint(fe, nwz)
  <2>1. Joint(Joint(fe, n), w) = Joint(fe, nw)
        BY <1>5, JointIs DEF nw
  <2>2. Joint(Joint(fe, nw), z) = Joint(fe, nwz)
        BY <1>2, <1>5, JointIs DEF nwz
  <2> QED BY <1>12, <2>1, <2>2
<1> QED BY <1>13 DEF fe, f, cx, nw, nwz, vc, vcp, vcpl, x0, plhe, lhe, he, Joint, SameBytes

Ahead(height) ==
    Bytes(1, U32) \o <<1>> \o (Zeros(HashLen) \o Bytes(Pow[U32] - 1, U32)) \o <<3 * U32>> \o Bytes(height, U32)
Behind(pubkey, value) ==
    Bytes(0, U32)
        \o WriteVector(<<WriteTxOut([value |-> value, scriptPubKey |-> Append(pubkey, OP_CHECKSIG)])>>)
        \o Bytes(0, U32)

LEMMA AheadType ==
    ASSUME NEW height \in Nat
    PROVE  Ahead(height) \in Seq(Byte) /\ Len(Ahead(height)) = CBSplit
<1> DEFINE v == Bytes(1, U32)
           c == <<1>>
           z == Zeros(HashLen)
           m == Bytes(Pow[U32] - 1, U32)
           p == z \o m
           l == <<3 * U32>>
           h == Bytes(height, U32)
<1>1. U32 \in Nat /\ HashLen \in Nat /\ 1 \in Nat /\ Pow[U32] - 1 \in Nat
      BY Widths, SmallNumbers
<1>2. /\ v \in Seq(Byte) /\ Len(v) = U32 /\ m \in Seq(Byte) /\ Len(m) = U32
      /\ h \in Seq(Byte) /\ Len(h) = U32
      BY <1>1, BytesType
<1>3. c \in Seq(Byte) /\ Len(c) = 1 /\ l \in Seq(Byte) /\ Len(l) = 1
      BY SmallNumbers
<1>4. z \in Seq(Byte) /\ Len(z) = HashLen
      BY <1>1, SmallNumbers DEF Zeros
<1> DEFINE vc == Joint(v, c)
           vcp == Joint(vc, p)
           vcpl == Joint(vcp, l)
           f == Joint(vcpl, h)
<1>5. Ahead(height) = f
      BY DEF Ahead, Joint
<1>6. p = Joint(z, m)
      BY DEF Joint
<1> HIDE DEF v, c, z, m, l, h, p, vc, vcp, vcpl, f
<1>7. p \in Seq(Byte) /\ Len(p) = HashLen + U32
      BY <1>2, <1>4, <1>6, JointLen
<1>8. vc \in Seq(Byte) /\ Len(vc) = U32 + 1
  <2>1. vc \in Seq(Byte) /\ Len(vc) = Len(v) + Len(c)
        BY <1>2, <1>3, JointLen DEF vc
  <2> QED BY <1>2, <1>3, <2>1
<1>9. vcp \in Seq(Byte) /\ Len(vcp) = U32 + 1 + (HashLen + U32)
  <2>1. vcp \in Seq(Byte) /\ Len(vcp) = Len(vc) + Len(p)
        BY <1>7, <1>8, JointLen DEF vcp
  <2> QED BY <1>7, <1>8, <2>1
<1>10. vcpl \in Seq(Byte) /\ Len(vcpl) = U32 + 1 + (HashLen + U32) + 1
  <2>1. vcpl \in Seq(Byte) /\ Len(vcpl) = Len(vcp) + Len(l)
        BY <1>3, <1>9, JointLen DEF vcpl
  <2> QED BY <1>3, <1>9, <2>1
<1>11. f \in Seq(Byte) /\ Len(f) = U32 + 1 + (HashLen + U32) + 1 + U32
  <2>1. f \in Seq(Byte) /\ Len(f) = Len(vcpl) + Len(h)
        BY <1>2, <1>10, JointLen DEF f
  <2> QED BY <1>2, <1>10, <2>1
<1>12. CBSplit = U32 + 1 + (HashLen + U32) + 1 + U32
       BY <1>1 DEF CBSplit
<1> QED BY <1>5, <1>11, <1>12

LEMMA BehindType ==
    ASSUME NEW height, NEW pubkey, NEW value, IsCoinbase(height, pubkey, value)
    PROVE  Behind(pubkey, value) \in Seq(Byte)
<1> DEFINE o == WriteTxOut([value |-> value, scriptPubKey |-> Append(pubkey, OP_CHECKSIG)])
           w == WriteVector(<<o>>)
           z == Bytes(0, U32)
<1>1. o \in Seq(Byte)
      BY TxOutType DEF TxOut, IsCoinbase
<1> HIDE DEF o
<1>2. <<o>> \in Seq(Seq(Byte)) /\ Len(<<o>>) \in Uint(U64)
      BY <1>1, SmallNumbers
<1>3. w \in Seq(Byte)
      BY <1>2, VectorType
<1>4. z \in Seq(Byte)
      BY Widths, BytesType
<1>5. Behind(pubkey, value) = z \o w \o z
      BY DEF Behind, o
<1> HIDE DEF w, z
<1> QED BY <1>3, <1>4, <1>5

LEMMA CoinbaseParts ==
    ASSUME NEW height, NEW pubkey, NEW value, IsCoinbase(height, pubkey, value), NEW e \in Room
    PROVE  WriteTransaction(Coinbase(height, pubkey, value, e)) = Ahead(height) \o e \o Behind(pubkey, value)
<1> DEFINE i == [prevout |-> [hash |-> Zeros(HashLen), n |-> Pow[U32] - 1],
                 script |-> Bytes(height, U32) \o e, n |-> 0]
           o == [value |-> value, scriptPubKey |-> Append(pubkey, OP_CHECKSIG)]
           t == Coinbase(height, pubkey, value, e)
           v == Bytes(1, U32)
           c == <<1>>
           p == Zeros(HashLen) \o Bytes(Pow[U32] - 1, U32)
           l == <<3 * U32>>
           h == Bytes(height, U32)
           n == Bytes(0, U32)
           w == WriteVector(<<WriteTxOut(o)>>)
<1>1. t = [version |-> 1, in |-> <<i>>, out |-> <<o>>, lockTime |-> 0]
      BY DEF Coinbase
<1>2. height \in Nat /\ U32 \in Nat /\ HashLen \in Nat /\ 1 \in Nat /\ Pow[U32] - 1 \in Nat
      BY Widths, SmallNumbers DEF IsCoinbase
<1>3. v \in Seq(Byte) /\ h \in Seq(Byte) /\ Len(h) = U32 /\ n \in Seq(Byte)
      BY <1>2, BytesType
<1>4. p \in Seq(Byte)
  <2>1. Zeros(HashLen) \in Seq(Byte)
        BY <1>2, SmallNumbers DEF Zeros
  <2>2. Bytes(Pow[U32] - 1, U32) \in Seq(Byte)
        BY <1>2, BytesType
  <2> QED BY <2>1, <2>2
<1>5. c \in Seq(Byte) /\ l \in Seq(Byte)
      BY SmallNumbers
<1>6. e \in Seq(Byte) /\ Len(e) = 2 * U32
      BY DEF Room
<1>7. w \in Seq(Byte)
  <2>1. WriteTxOut(o) \in Seq(Byte)
        BY TxOutType DEF TxOut, IsCoinbase
  <2> HIDE DEF o
  <2>2. <<WriteTxOut(o)>> \in Seq(Seq(Byte)) /\ Len(<<WriteTxOut(o)>>) \in Uint(U64)
        BY <2>1, SmallNumbers
  <2> QED BY <2>2, VectorType
<1> DEFINE s == h \o e
           x == p \o (l \o s) \o n
<1>8. s \in Seq(Byte) /\ Len(s) = 3 * U32
  <2>1. Joint(h, e) \in Seq(Byte) /\ Len(Joint(h, e)) = U32 + 2 * U32
    <3> HIDE DEF h
    <3> QED BY <1>3, <1>6, JointLen
  <2>2. U32 + 2 * U32 = 3 * U32
        BY <1>2
  <2> QED BY <2>1, <2>2 DEF Joint
<1>9. WriteTxIn(i) = x
  <2>1. WriteOutPoint(i.prevout) = p
        BY DEF WriteOutPoint
  <2>2. i.script = s /\ i.n = 0
        OBVIOUS
  <2> HIDE DEF i, s, p
  <2>3. WriteScript(i.script) = l \o s
        BY <2>2, <1>8, SmallNumbers DEF WriteScript
  <2> QED BY <2>1, <2>2, <2>3 DEF WriteTxIn
<1>10. x \in Seq(Byte)
  <2> HIDE DEF p, l, s, n
  <2>1. l \o s \in Seq(Byte)
        BY <1>5, <1>8
  <2> DEFINE ls == l \o s
  <2> HIDE DEF ls
  <2>2. ls \in Seq(Byte)
        BY <2>1 DEF ls
  <2>3. p \o ls \in Seq(Byte)
        BY <1>4, <2>2
  <2> DEFINE pls == p \o ls
  <2> HIDE DEF pls
  <2>4. pls \in Seq(Byte)
        BY <2>3 DEF pls
  <2>5. pls \o n \in Seq(Byte)
        BY <1>3, <2>4
  <2> QED BY <2>5 DEF pls, ls
<1> HIDE DEF i, o
<1>11. [k \in DOMAIN t.in |-> WriteTxIn(t.in[k])] = <<x>>
  <2>1. t.in = <<i>>
        BY <1>1
  <2>2. DOMAIN <<i>> = 1..1 /\ <<i>>[1] = i /\ <<x>> = [k \in 1..1 |-> x]
    <3> HIDE DEF x
    <3> QED OBVIOUS
  <2> HIDE DEF x
  <2> QED BY <1>9, <2>1, <2>2
<1>12. [k \in DOMAIN t.out |-> WriteTxOut(t.out[k])] = <<WriteTxOut(o)>>
  <2>1. t.out = <<o>>
        BY <1>1
  <2>2. DOMAIN <<o>> = 1..1 /\ <<o>>[1] = o /\ <<WriteTxOut(o)>> = [k \in 1..1 |-> WriteTxOut(o)]
        OBVIOUS
  <2> QED BY <2>1, <2>2
<1>13. WriteVector(<<x>>) = c \o x
  <2> HIDE DEF x
  <2>1. Len(<<x>>) = 1
        OBVIOUS
  <2> QED BY <1>10, <2>1, FlattenOne, SmallNumbers DEF WriteVector
<1>14. WriteTransaction(t) = v \o (c \o x) \o w \o n
  <2>1. t.version = 1 /\ t.lockTime = 0
        BY <1>1
  <2> HIDE DEF x, t, c
  <2> QED BY <2>1, <1>11, <1>12, <1>13 DEF WriteTransaction
<1>15. v \o (c \o x) \o w \o n = (v \o c \o p \o l \o h) \o e \o (n \o w \o n)
  <2> HIDE DEF v, c, p, l, h, n, w
  <2>1. SameBytes(v, c, p, l, h, e, n, w, n)
        BY <1>3, <1>4, <1>5, <1>6, <1>7, Regroup
  <2> QED BY <2>1 DEF SameBytes
<1>16. Ahead(height) = v \o c \o p \o l \o h
      BY DEF Ahead
<1>17. Behind(pubkey, value) = n \o w \o n
      BY DEF Behind, o
<1> HIDE DEF v, c, p, l, h, n, w, x, t
<1>18. WriteTransaction(t) = Ahead(height) \o e \o Behind(pubkey, value)
      BY <1>14, <1>15, <1>16, <1>17
<1> QED BY <1>18 DEF t

LEMMA ZerosType == Zeros(2 * U32) \in Room
<1>1. 2 * U32 \in Nat /\ 0 \in Byte
      BY Widths, SmallNumbers
<1> QED BY <1>1 DEF Zeros, Room

\* GetJob cuts the coinbase where the extranonces go.
LEMMA JobIs ==
    ASSUME NEW height, NEW pubkey, NEW value, IsCoinbase(height, pubkey, value), NEW b,
           b.tx[1] = CreateCoinbaseTX(height, pubkey, value)
    PROVE  GetJob(b) = [coinbase1 |-> Ahead(height), coinbase2 |-> Behind(pubkey, value)]
<1> DEFINE f == Ahead(height)
           z == Zeros(2 * U32)
           k == Behind(pubkey, value)
           w == WriteTransaction(b.tx[1])
<1>1. b.tx[1] = Coinbase(height, pubkey, value, z)
      BY DEF CreateCoinbaseTX, Coinbase
<1>2. z \in Room
      BY ZerosType
<1> HIDE DEF z
<1>3. w = f \o z \o k
      BY <1>1, <1>2, CoinbaseParts
<1>4. f \in Seq(Byte) /\ Len(f) = CBSplit /\ k \in Seq(Byte) /\ z \in Seq(Byte) /\ Len(z) = 2 * U32
      BY <1>2, AheadType, BehindType DEF IsCoinbase, Room
<1> HIDE DEF f, k, w
<1>5. SubSeq(w, 1, CBSplit) = f /\ SubSeq(w, CBSplit + 2 * U32 + 1, Len(w)) = k
  <2>1. /\ SubSeq(f \o z \o k, 1, Len(f)) = f
        /\ SubSeq(f \o z \o k, Len(f) + Len(z) + 1, Len(f \o z \o k)) = k
    <3>1. Cuts(f, z, k)
          BY <1>4, PartsAre
    <3> QED BY <3>1 DEF Cuts
  <2> QED BY <1>3, <1>4, <2>1
<1>6. GetJob(b) = [coinbase1 |-> SubSeq(w, 1, CBSplit), coinbase2 |-> SubSeq(w, CBSplit + 2 * U32 + 1, Len(w))]
      BY DEF GetJob, w
<1> QED BY <1>5, <1>6 DEF f, k

Extras(x, y) == Bytes(x, U32) \o y
Sent(height, pubkey, value, x, y) == Ahead(height) \o Bytes(x, U32) \o y \o Behind(pubkey, value)

\* Both extranonces fill the room, and the coinbase is read back whole.
LEMMA FilledIs ==
    ASSUME NEW height, NEW pubkey, NEW value, IsCoinbase(height, pubkey, value),
           NEW x \in Uint(U32), NEW y \in Field
    PROVE  /\ Extras(x, y) \in Room
           /\ Sent(height, pubkey, value, x, y)
                  = WriteTransaction(Coinbase(height, pubkey, value, Extras(x, y)))
           /\ ReadTransaction(Buffer(Sent(height, pubkey, value, x, y))).val
                  = Coinbase(height, pubkey, value, Extras(x, y))
<1> DEFINE e == Extras(x, y)
           w == Sent(height, pubkey, value, x, y)
           a == Bytes(x, U32)
           f == Ahead(height)
           k == Behind(pubkey, value)
           c == Coinbase(height, pubkey, value, e)
<1>1. x \in Nat /\ U32 \in Nat
      BY Widths
<1>2. a \in Seq(Byte) /\ Len(a) = U32 /\ y \in Seq(Byte) /\ Len(y) = U32
      BY <1>1, BytesType DEF Field
<1>3. f \in Seq(Byte) /\ k \in Seq(Byte)
      BY AheadType, BehindType DEF IsCoinbase
<1> HIDE DEF a, f, k, e, w
<1>4. e = Joint(a, y)
      BY DEF Joint, a, e, Extras
<1>5. e \in Seq(Byte) /\ Len(e) = Len(a) + Len(y)
      BY <1>2, <1>4, JointLen
<1>6. e \in Room
      BY <1>1, <1>2, <1>5 DEF Room
<1>7. WriteTransaction(c) = f \o e \o k
      BY <1>6, CoinbaseParts DEF f, k
<1>8. w = WriteTransaction(c)
  <2>1. Joint(Joint(f, a), y) = Joint(f, Joint(a, y))
        BY <1>2, <1>3, JointIs
  <2>2. w = Joint(Joint(Joint(f, a), y), k)
        BY DEF Joint, a, f, k, w, Sent
  <2>3. WriteTransaction(c) = Joint(Joint(f, e), k)
        BY <1>7 DEF Joint
  <2> QED BY <1>4, <2>1, <2>2, <2>3
<1>9. c \in Transaction
      BY <1>6, CoinbaseType
<1>10. WriteTransaction(c) \in Seq(Byte)
       BY <1>9, TransactionType
<1> HIDE DEF c
<1>11. Written(Buffer(w), WriteTransaction(c))
       BY <1>8, <1>10, BufferWritten
<1>12. ReadTransaction(Buffer(w)) = Found(Buffer(w), WriteTransaction(c), c)
       BY <1>9, <1>11, TransactionBack
<1>13. ReadTransaction(Buffer(w)).val = c
       BY <1>12 DEF Found
<1> QED BY <1>6, <1>8, <1>13 DEF c, e, w

-----------------------------------------------------------------------------
(***************************************************************************)
(* Bytes that are read as a number, turned round, or put in words.         *)
(***************************************************************************)
\* A number tells the bytes it was read from.
LEMMA ValueBack ==
    ASSUME NEW w \in Nat, NEW s \in Seq(Byte), Len(s) = w
    PROVE  Value(s) \in Uint(w) /\ Bytes(Value(s), w) = s
<1> DEFINE step == [x \in Nat \X Nat |-> x[2] * Base + (IF x[1] \in 1..w THEN s[w - x[1] + 1] ELSE 0)]
<1>1. \A i \in 1..w : s[w - i + 1] \in Nat /\ s[w - i + 1] < Base
      BY BaseNat DEF Byte
<1>2. step \in Steps(Nat)
  <2>1. ASSUME NEW x \in Nat \X Nat
        PROVE  x[2] * Base + (IF x[1] \in 1..w THEN s[w - x[1] + 1] ELSE 0) \in Nat
    <3> DEFINE y == IF x[1] \in 1..w THEN s[w - x[1] + 1] ELSE 0
    <3>1. x[2] \in Nat /\ y \in Nat
          BY <1>1
    <3> HIDE DEF y
    <3>2. x[2] * Base \in Nat
          BY <3>1, BaseNat
    <3>3. x[2] * Base + y \in Nat
          BY <3>1, <3>2
    <3> QED BY <3>3 DEF y
  <2> QED BY <2>1 DEF Steps
<1>3. PICK f : Iterates(f, Nat, 0, step)
  <2>1. 0 \in Nat
        OBVIOUS
  <2> HIDE DEF step
  <2> QED BY <1>2, <2>1, Iteration
<1>4. f \in [Nat -> Nat] /\ f[0] = 0
      BY <1>3 DEF Iterates
<1>5. ASSUME NEW i \in 1..w PROVE f[i] = f[i - 1] * Base + s[w - i + 1]
  <2>1. i - 1 \in Nat /\ (i - 1) + 1 = i /\ f[i - 1] \in Nat
        BY <1>4
  <2>2. f[i] = step[<<i, f[i - 1]>>]
        BY <1>3, <2>1 DEF Iterates
  <2>3. <<i, f[i - 1]>> \in Nat \X Nat
        BY <2>1
  <2> QED BY <2>2, <2>3
<1> HIDE DEF step
<1>6. Value(s) = f[w]
  <2>1. Sums(s, w, f)
        BY <1>4, <1>5 DEF Sums
  <2> QED BY <2>1, ValueIs
<1> DEFINE n == f[w]
           T == {k \in Nat : k <= w => n \div Pow[k] = f[w - k]}
<1>7. n \in Nat
      BY <1>4
<1>8. 0 \in T
  <2>1. Pow[0] = 1
        BY PowDef
  <2>2. n \div 1 = n
        BY <1>7
  <2> HIDE DEF n
  <2>3. w - 0 = w
        OBVIOUS
  <2> QED BY <2>1, <2>2, <2>3 DEF n
<1>9. ASSUME NEW k \in Nat, k \in T PROVE k + 1 \in T
  <2> SUFFICES ASSUME k + 1 <= w PROVE n \div Pow[k + 1] = f[w - (k + 1)]
      OBVIOUS
  <2> DEFINE i == w - k
             q == f[i - 1]
             y == s[w - i + 1]
             p == Pow[k]
  <2>1. i \in 1..w /\ i - 1 = w - (k + 1) /\ i - 1 \in Nat
        OBVIOUS
  <2>2. q \in Nat /\ y \in Nat /\ y < Base
        BY <1>1, <1>4, <2>1
  <2>3. f[i] = q * Base + y
        BY <1>5, <2>1
  <2>4. n \div p = f[i]
        BY <1>9
  <2>5. p \in Nat /\ p > 0 /\ Pow[k + 1] = Base * p
    <3>1. Pow[k] \in Nat /\ Pow[k] >= 1
          BY PowDef
    <3>2. Pow[k + 1] = Base * Pow[k]
          BY PowDef
    <3> QED BY <3>1, <3>2
  <2> HIDE DEF n, p, q, y, i
  <2>6. n \div (Base * p) = (n \div p) \div Base
        BY <1>7, <2>5, BaseNat, DivDiv
  <2>7. (q * Base + y) \div Base = q
    <3>1. Base \in Nat /\ Base > 0
          BY BaseNat
    <3>2. q * Base + y \in Nat /\ Base * q <= q * Base + y /\ ~(Base * (q + 1) <= q * Base + y)
      <4> DEFINE B == Base
      <4> HIDE DEF B
      <4>1. B \in Nat /\ B > 0 /\ y < B
            BY <2>2, <3>1 DEF B
      <4>2. q * B \in Nat /\ B * q = q * B /\ B * (q + 1) = q * B + B
            BY <2>2, <4>1
      <4> QED BY <2>2, <4>1, <4>2 DEF B
    <3> DEFINE v == q * Base + y
    <3>3. v \in Nat /\ Base * q <= v /\ ~(Base * (q + 1) <= v)
          BY <3>2
    <3> HIDE DEF v
    <3>4. v \div Base \in Nat /\ q <= v \div Base /\ ~(q + 1 <= v \div Base)
          BY <2>2, <3>1, <3>3, DivFacts
    <3>5. v \div Base = q
          BY <2>2, <3>4
    <3> QED BY <3>5 DEF v
  <2>8. n \div Pow[k + 1] = q
        BY <2>3, <2>4, <2>5, <2>6, <2>7
  <2> QED BY <2>1, <2>8 DEF q
<1>10. Nat \subseteq T
  <2> HIDE DEF T
  <2> QED BY <1>8, <1>9, Induction
<1>11. \A k \in 0..w : n \div Pow[k] = f[w - k]
       BY <1>10
<1> HIDE DEF n, T
<1>12. n \in Uint(w)
  <2> DEFINE p == Pow[w]
  <2>1. p \in Nat /\ p > 0
        BY PowDef
  <2>2. n \div p = 0
    <3>1. w \in 0..w /\ w - w = 0
          OBVIOUS
    <3> QED BY <1>4, <1>11, <3>1
  <2> HIDE DEF p
  <2>3. p * 1 <= n <=> 1 <= n \div p
        BY <1>7, <2>1, DivFacts
  <2>4. n < p
        BY <1>7, <2>1, <2>2, <2>3
  <2>5. n \in 0..(p - 1)
        BY <1>7, <2>1, <2>4
  <2> QED BY <2>5 DEF p, Uint
<1>13. ASSUME NEW m \in 1..w PROVE Bytes(n, w)[m] = s[m]
  <2> DEFINE i == w - (m - 1)
             q == f[i - 1]
             y == s[m]
  <2>1. i \in 1..w /\ m - 1 \in 0..w /\ w - i + 1 = m /\ i - 1 \in Nat
        OBVIOUS
  <2>2. f[i] = q * Base + y
        BY <1>5, <2>1
  <2>3. q \in Nat /\ y \in Nat /\ y < Base
    <3>1. s[w - i + 1] \in Nat /\ s[w - i + 1] < Base
          BY <1>1, <2>1
    <3> QED BY <1>4, <2>1, <3>1
  <2>4. Bytes(n, w)[m] = (n \div Pow[m - 1]) % Base
        BY DEF Bytes
  <2>5. n \div Pow[m - 1] = f[i]
        BY <1>11, <2>1
  <2> HIDE DEF q, y, i
  <2>6. (q * Base + y) % Base = y
    <3> DEFINE v == q * Base + y
    <3>1. Base \in Nat /\ Base > 0 /\ v \in Nat
      <4>1. q * Base \in Nat
            BY <2>3, BaseNat
      <4> QED BY <2>3, <4>1, BaseNat
    <3> DEFINE D == v \div Base
               r == v % Base
    <3>2. D \in Nat /\ r \in 0..(Base - 1) /\ v = Base * D + r
      <4> HIDE DEF v
      <4> QED BY <3>1, DivFacts
    <3> HIDE DEF D, r
    <3>3. q * Base + y = Base * D + r
          BY <3>2
    <3> DEFINE B == Base
    <3>4. B \in Nat /\ B > 0 /\ r \in 0..(B - 1) /\ q * B + y = B * D + r /\ y < B
          BY <2>3, <3>1, <3>2, <3>3
    <3> HIDE DEF B, v
    <3>5. CASE D = q
      <4>1. q * B = B * D /\ q * B \in Nat
            BY <2>3, <3>4, <3>5
      <4> QED BY <2>3, <3>4, <4>1 DEF r, v
    <3>6. CASE D >= q + 1
      <4>1. B * D >= B * (q + 1) /\ B * (q + 1) = q * B + B /\ q * B \in Nat /\ B * D \in Nat
            BY <2>3, <3>2, <3>4, <3>6
      <4> QED BY <2>3, <3>4, <4>1
    <3>7. CASE q >= D + 1
      <4>1. q * B >= (D + 1) * B /\ (D + 1) * B = B * D + B /\ q * B \in Nat /\ B * D \in Nat
            BY <2>3, <3>2, <3>4, <3>7
      <4> QED BY <2>3, <3>4, <4>1
    <3> QED BY <2>3, <3>2, <3>5, <3>6, <3>7
  <2> QED BY <2>2, <2>4, <2>5, <2>6 DEF y
<1>14. Bytes(n, w) = s
  <2>1. Bytes(n, w) \in Seq(Byte) /\ Len(Bytes(n, w)) = w
        BY <1>7, BytesType
  <2> DEFINE t == Bytes(n, w)
  <2>2. t \in Seq(Byte) /\ Len(t) = Len(s) /\ \A m \in 1..Len(s) : t[m] = s[m]
        BY <1>13, <2>1
  <2> HIDE DEF t
  <2>3. t = s
        BY <2>2, SeqEqual
  <2> QED BY <2>3 DEF t
<1> QED BY <1>6, <1>12, <1>14 DEF n

LEMMA ReadWhole ==
    ASSUME NEW w \in Nat, NEW s \in Seq(Byte), Len(s) = w
    PROVE  Read(Buffer(s), w).val = Value(s)
<1>1. Written(Buffer(s), s)
      BY BufferWritten
<1>2. ReadBinary(Buffer(s), w) = Found(Buffer(s), s, s)
      BY <1>1, ReadBinaryBack
<1> QED BY <1>2 DEF Read, Found

Turned(s) ==
    /\ Len(Reverse(s)) = Len(s) /\ Reverse(Reverse(s)) = s
    /\ \A i \in 1..Len(s) : Reverse(s)[i] = s[Len(s) - i + 1]

LEMMA ReverseIs ==
    ASSUME NEW S, NEW s \in Seq(S)
    PROVE  Reverse(s) \in Seq(S) /\ Turned(s)
<1> DEFINE n == Len(s)
           t == Reverse(s)
           u == Reverse(t)
<1>1. n \in Nat /\ s \in [1..n -> S]
      OBVIOUS
<1>2. t = [i \in 1..n |-> s[(n - i) + 1]]
      BY DEF Reverse
<1>3. ASSUME NEW i \in 1..n PROVE (n - i) + 1 \in 1..n /\ t[i] = s[(n - i) + 1]
  <2>1. (n - i) + 1 \in 1..n
        BY <1>1
  <2> QED BY <1>2, <2>1
<1>4. t \in Seq(S) /\ Len(t) = n
  <2> HIDE DEF t
  <2>1. \A i \in 1..n : s[(n - i) + 1] \in S
        BY <1>1, <1>3
  <2> QED BY <1>1, <1>2, <2>1
<1>5. u = [i \in 1..n |-> t[(n - i) + 1]]
  <2> HIDE DEF t, n
  <2> QED BY <1>4 DEF Reverse
<1>6. ASSUME NEW i \in 1..n PROVE t[(n - i) + 1] = s[i]
  <2> DEFINE j == (n - i) + 1
  <2>1. j \in 1..n /\ (n - j) + 1 = i
        BY <1>1
  <2> HIDE DEF t, j
  <2>2. t[j] = s[(n - j) + 1]
        BY <1>3, <2>1
  <2> QED BY <2>1, <2>2 DEF j
<1>7. u = s
  <2> HIDE DEF t, u
  <2>1. s = [i \in 1..n |-> s[i]]
        BY <1>1
  <2> QED BY <1>5, <1>6, <2>1
<1> HIDE DEF t, u
<1> QED BY <1>3, <1>4, <1>7 DEF t, u, Turned

LEMMA BinType ==
    ASSUME NEW w \in Nat, NEW str \in Text(w)
    PROVE  ASCIIToBin(str) \in Seq(Byte) /\ Len(ASCIIToBin(str)) = w
<1>1. Len(str) = 2 * w
      BY DEF Text
<1>2. (Len(str) + 1) \div 2 = w
      BY <1>1
<1>3. Nibble \in Nat /\ Nibble >= 3
      BY WidthAssumption
<1>4. ASSUME NEW c PROVE ASCIIToHex(c) \in 0..(Nibble - 1)
      BY <1>3 DEF ASCIIToHex
<1> DEFINE X(i) == ASCIIToHex(str[2 * i - 1])
           Y(i) == IF 2 * i <= Len(str) THEN ASCIIToHex(str[2 * i]) ELSE 0
<1>5. ASSUME NEW i \in 1..w PROVE X(i) * Nibble + Y(i) \in Byte
  <2> DEFINE x == X(i)
             y == Y(i)
  <2>1. x \in 0..(Nibble - 1) /\ y \in 0..(Nibble - 1)
        BY <1>3, <1>4
  <2> HIDE DEF x, y
  <2>2. x * Nibble <= (Nibble - 1) * Nibble /\ x * Nibble \in Nat
        /\ (Nibble - 1) * Nibble = Nibble * Nibble - Nibble
        BY <1>3, <2>1
  <2>3. Nibble * Nibble \in Nat
        BY <1>3
  <2>4. x * Nibble + y \in 0..(Nibble * Nibble - 1)
        BY <1>3, <2>1, <2>2, <2>3
  <2> QED BY <2>4 DEF x, y, Byte, Base
<1>6. ASCIIToBin(str) = [i \in 1..w |-> X(i) * Nibble + Y(i)]
      BY <1>2 DEF ASCIIToBin
<1> HIDE DEF X, Y
<1> QED BY <1>5, <1>6

\* A place in a hash is a place in one of its words.
LEMMA WordPlaces ==
    ASSUME NEW k \in 1..Words, NEW o \in 1..U32, NEW i, i = (k - 1) * U32 + o
    PROVE  i \in 1..HashLen /\ 1 + (i - 1) \div U32 = k /\ 1 + ((i - 1) % U32) = o
<1>1. U32 \in Nat /\ U32 > 0 /\ Words \in Nat
      BY WidthAssumption
<1> DEFINE q == k - 1
           r == o - 1
           a == i - 1
           m == q * U32
<1>2. q \in Nat /\ r \in 0..(U32 - 1) /\ q <= Words - 1
      BY <1>1
<1>3. m \in Nat /\ m <= (Words - 1) * U32 /\ (Words - 1) * U32 = Words * U32 - U32
      /\ Words * U32 \in Nat
      BY <1>1, <1>2
<1>4. i = m + o
      OBVIOUS
<1> HIDE DEF m, q
<1>5. i \in 1..(Words * U32)
      BY <1>1, <1>3, <1>4
<1>6. a = m + r /\ a \in Nat
      BY <1>3, <1>4, <1>2
<1> HIDE DEF a, r
<1>7. a \div U32 \in Nat /\ a % U32 \in 0..(U32 - 1) /\ a = U32 * (a \div U32) + (a % U32)
      BY <1>1, <1>6, DivFacts
<1>8. a \div U32 = q
  <2>1. U32 * q <= a /\ ~(U32 * (q + 1) <= a)
    <3>1. U32 * q = m /\ U32 * (q + 1) = m + U32
          BY <1>1, <1>2 DEF m
    <3> QED BY <1>1, <1>2, <1>3, <1>6, <3>1
  <2>2. q <= a \div U32 /\ ~(q + 1 <= a \div U32)
        BY <1>1, <1>2, <1>6, <2>1, DivFacts
  <2> QED BY <1>2, <1>7, <2>2
<1>9. a % U32 = r
  <2>1. U32 * q = m
        BY <1>1, <1>2 DEF m
  <2> QED BY <1>2, <1>3, <1>6, <1>7, <1>8, <2>1
<1> QED BY <1>1, <1>5, <1>8, <1>9 DEF q, r, a, HashLen

LEMMA PlaceInWord ==
    ASSUME NEW i \in 1..HashLen
    PROVE  \E k \in 1..Words, o \in 1..U32 : i = (k - 1) * U32 + o
<1>1. U32 \in Nat /\ U32 > 0 /\ Words \in Nat /\ HashLen = Words * U32 /\ HashLen \in Nat
      BY WidthAssumption DEF HashLen
<1> DEFINE a == i - 1
           q == a \div U32
           r == a % U32
<1>2. a \in Nat /\ a < HashLen
      BY <1>1
<1> HIDE DEF a
<1>3. q \in Nat /\ r \in 0..(U32 - 1) /\ a = U32 * q + r /\ (U32 * Words <= a <=> Words <= q)
      BY <1>1, <1>2, DivFacts
<1> HIDE DEF q, r
<1>4. U32 * Words = HashLen
      BY <1>1
<1>5. q < Words
      BY <1>1, <1>2, <1>3, <1>4
<1>6. q + 1 \in 1..Words /\ r + 1 \in 1..U32
      BY <1>1, <1>3, <1>5
<1>7. i = ((q + 1) - 1) * U32 + (r + 1)
  <2>1. ((q + 1) - 1) * U32 = U32 * q /\ U32 * q \in Nat
        BY <1>1, <1>3
  <2> QED BY <1>1, <1>3, <2>1 DEF a
<1> QED BY <1>6, <1>7

LEMMA WordIs ==
    ASSUME NEW s \in Hash, NEW k \in 1..Words
    PROVE  /\ Word(s, k) \in Seq(Byte) /\ Len(Word(s, k)) = U32
           /\ \A o \in 1..U32 : Word(s, k)[o] = s[(k - 1) * U32 + o]
<1>1. U32 \in Nat /\ U32 > 0 /\ Words \in Nat /\ s \in Seq(Byte) /\ Len(s) = HashLen /\ HashLen \in Nat
      BY WidthAssumption, Widths DEF Hash
<1> DEFINE m == (k - 1) * U32
           e == k * U32
<1>2. m \in Nat /\ e = m + U32
      BY <1>1
<1>3. e <= HashLen
  <2>1. U32 \in 1..U32 /\ e = (k - 1) * U32 + U32
        BY <1>1, <1>2
  <2> HIDE DEF e
  <2>2. e \in 1..HashLen
        BY <2>1, WordPlaces
  <2> QED BY <1>1, <2>2
<1>4. Word(s, k) = SubSeq(s, m + 1, e)
      BY DEF Word
<1> HIDE DEF m, e
<1> DEFINE t == SubSeq(s, m + 1, e)
<1>5. t \in Seq(Byte) /\ Len(t) = U32 /\ \A o \in 1..U32 : t[o] = s[m + o]
      BY <1>1, <1>2, <1>3
<1> HIDE DEF t
<1> QED BY <1>4, <1>5 DEF t, m

LEMMA JoinedIs ==
    ASSUME NEW ws, \A k \in 1..Words, o \in 1..U32 : ws[k][o] \in Byte
    PROVE  /\ Joined(ws) \in Hash
           /\ \A k \in 1..Words, o \in 1..U32 : Joined(ws)[(k - 1) * U32 + o] = ws[k][o]
<1> DEFINE t == Joined(ws)
<1>1. HashLen \in Nat
      BY Widths
<1>2. ASSUME NEW k \in 1..Words, NEW o \in 1..U32 PROVE t[(k - 1) * U32 + o] = ws[k][o]
  <2> DEFINE i == (k - 1) * U32 + o
  <2>1. i \in 1..HashLen /\ 1 + (i - 1) \div U32 = k /\ 1 + ((i - 1) % U32) = o
    <3>1. i = (k - 1) * U32 + o
          OBVIOUS
    <3> HIDE DEF i
    <3> QED BY <3>1, WordPlaces
  <2> HIDE DEF i
  <2>2. t[i] = ws[1 + (i - 1) \div U32][1 + ((i - 1) % U32)]
        BY <2>1 DEF Joined
  <2>3. t[i] = ws[k][o]
        BY <2>1, <2>2
  <2> QED BY <2>3 DEF i
<1>3. ASSUME NEW i \in 1..HashLen PROVE t[i] \in Byte
  <2>1. PICK k \in 1..Words, o \in 1..U32 : i = (k - 1) * U32 + o
        BY PlaceInWord
  <2> HIDE DEF t
  <2>2. t[i] = ws[k][o]
        BY <1>2, <2>1
  <2> QED BY <2>2
<1>4. t = [i \in 1..HashLen |-> t[i]]
      BY DEF Joined
<1> HIDE DEF t
<1>5. t \in Seq(Byte) /\ Len(t) = HashLen
      BY <1>1, <1>3, <1>4
<1> QED BY <1>2, <1>5 DEF t, Hash

\* The miner turns the words round again, and has the hash of the block.
LEMMA SwapBack ==
    ASSUME NEW s \in Hash
    PROVE  Joined([k \in 1..Words |-> Reverse(Word(SwapWords(s), k))]) = s
<1> DEFINE r == Reverse(s)
           p == [k \in 1..Words |-> Word(r, Words + 1 - k)]
           m == Joined(p)
           q == [k \in 1..Words |-> Reverse(Word(m, k))]
           t == Joined(q)
<1>1. U32 \in Nat /\ U32 > 0 /\ Words \in Nat /\ HashLen \in Nat /\ s \in Seq(Byte) /\ Len(s) = HashLen
      BY WidthAssumption, Widths DEF Hash
<1>2. /\ r \in Hash
      /\ \A i \in 1..HashLen : r[i] = s[HashLen - i + 1]
      BY <1>1, ReverseIs DEF Turned, Hash
<1> HIDE DEF r
<1>3. ASSUME NEW k \in 1..Words, NEW o \in 1..U32
      PROVE  p[k][o] \in Byte /\ p[k][o] = r[(Words - k) * U32 + o]
  <2> DEFINE j == Words + 1 - k
             x == Word(r, j)
  <2>1. j \in 1..Words /\ j - 1 = Words - k
        BY <1>1
  <2> HIDE DEF j, x
  <2>2. x \in Seq(Byte) /\ Len(x) = U32 /\ \A y \in 1..U32 : x[y] = r[(j - 1) * U32 + y]
        BY <1>2, <2>1, WordIs DEF x
  <2>3. p[k] = x
        BY DEF x, j
  <2>4. x[o] \in Byte /\ x[o] = r[(j - 1) * U32 + o]
        BY <1>1, <2>2
  <2> QED BY <2>1, <2>3, <2>4
<1> HIDE DEF p
<1>4. /\ m \in Hash
      /\ \A k \in 1..Words, o \in 1..U32 : m[(k - 1) * U32 + o] = p[k][o]
      BY <1>3, JoinedIs
<1> HIDE DEF m
<1>5. ASSUME NEW k \in 1..Words, NEW o \in 1..U32
      PROVE  q[k][o] \in Byte /\ q[k][o] = m[(k - 1) * U32 + (U32 + 1 - o)]
  <2> DEFINE x == Word(m, k)
             y == Reverse(x)
  <2>1. x \in Seq(Byte) /\ Len(x) = U32 /\ \A z \in 1..U32 : x[z] = m[(k - 1) * U32 + z]
        BY <1>4, WordIs
  <2> HIDE DEF x
  <2>2. y \in Seq(Byte) /\ Len(y) = U32 /\ \A i \in 1..U32 : y[i] = x[U32 - i + 1]
        BY <2>1, ReverseIs DEF Turned
  <2> HIDE DEF y
  <2>3. q[k] = y
        BY DEF x, y
  <2>4. U32 + 1 - o \in 1..U32 /\ U32 - o + 1 = U32 + 1 - o
        BY <1>1
  <2>5. y[o] \in Byte
        BY <1>1, <2>2
  <2>6. y[o] = x[U32 + 1 - o]
        BY <2>2, <2>4
  <2>7. x[U32 + 1 - o] = m[(k - 1) * U32 + (U32 + 1 - o)]
        BY <2>1, <2>4
  <2> QED BY <2>3, <2>5, <2>6, <2>7
<1> HIDE DEF q
<1>6. /\ t \in Hash
      /\ \A k \in 1..Words, o \in 1..U32 : t[(k - 1) * U32 + o] = q[k][o]
      BY <1>5, JoinedIs
<1> HIDE DEF t
<1>7. ASSUME NEW i \in 1..HashLen PROVE t[i] = s[i]
  <2>1. PICK k \in 1..Words, o \in 1..U32 : i = (k - 1) * U32 + o
        BY PlaceInWord
  <2> DEFINE z == U32 + 1 - o
             j == (Words - k) * U32 + z
  <2>2. z \in 1..U32
        BY <1>1
  <2>3. t[i] = m[(k - 1) * U32 + z]
        BY <1>5, <1>6, <2>1
  <2> HIDE DEF z
  <2>4. m[(k - 1) * U32 + z] = r[j]
        BY <1>3, <1>4, <2>2
  <2>5. j = HashLen - i + 1
    <3>1. /\ (Words - k) * U32 = Words * U32 - k * U32 /\ (k - 1) * U32 = k * U32 - U32
          /\ Words * U32 \in Nat /\ k * U32 \in Nat
          BY <1>1
    <3> QED BY <1>1, <2>1, <3>1 DEF z, HashLen
  <2>6. j \in 1..HashLen /\ HashLen - j + 1 = i
    <3> HIDE DEF j
    <3> QED BY <1>1, <2>5
  <2> HIDE DEF j
  <2> QED BY <1>2, <2>3, <2>4, <2>6
<1>8. t = s
  <2>1. t \in Seq(Byte) /\ Len(t) = HashLen
        BY <1>6 DEF Hash
  <2> QED BY <1>1, <1>7, <2>1, SeqEqual
<1>9. SwapWords(s) = m
      BY DEF SwapWords, m, p, r
<1> QED BY <1>8, <1>9 DEF t, q

-----------------------------------------------------------------------------
(***************************************************************************)
(* The block of a template, and the block that a share stands for.         *)
(***************************************************************************)
LEMMA TxHashType ==
    ASSUME NEW t \in Transaction
    PROVE  WriteTransaction(t) \in Node /\ TxHash(t) \in Node
<1>1. WriteTransaction(t) \in Seq(Byte)
      BY TransactionType
<1>2. WriteTransaction(t) \in Seq(Int)
  <2>1. Byte \subseteq Int
        BY BaseNat DEF Byte
  <2> DEFINE w == WriteTransaction(t)
  <2>2. w \in Seq(Byte)
        BY <1>1
  <2> HIDE DEF w
  <2>3. Len(w) \in Nat /\ w = [i \in 1..Len(w) |-> w[i]] /\ \A i \in 1..Len(w) : w[i] \in Int
        BY <2>1, <2>2
  <2>4. w \in Seq(Int)
        BY <2>3
  <2> QED BY <2>4 DEF w
<1> QED BY <1>2, NodeType DEF TxHash, Node

LEMMA HashesType ==
    ASSUME NEW tx \in Seq(Transaction)
    PROVE  /\ Hashes(tx) \in Seq(Node) /\ Len(Hashes(tx)) = Len(tx)
           /\ Hashes(tx) = [i \in 1..Len(tx) |-> Hashes(tx)[i]]
           /\ \A i \in 1..Len(tx) : Hashes(tx)[i] = TxHash(tx[i])
<1> DEFINE n == Len(tx)
<1>1. n \in Nat /\ DOMAIN tx = 1..n /\ \A i \in 1..n : tx[i] \in Transaction
      OBVIOUS
<1>2. \A i \in 1..n : TxHash(tx[i]) \in Node
      BY <1>1, TxHashType
<1>3. Hashes(tx) = [i \in 1..n |-> TxHash(tx[i])]
      BY <1>1 DEF Hashes
<1> HIDE DEF n
<1>4. Hashes(tx) \in Seq(Node) /\ Len(Hashes(tx)) = n
      BY <1>1, <1>2, <1>3
<1> QED BY <1>3, <1>4 DEF n

\* Blocks that differ in the coinbase have trees that differ on the left.
LEMMA SiblingsAre ==
    ASSUME NEW n \in Nat \ {0}, NEW a \in Seq(Transaction), NEW c \in Seq(Transaction), Len(a) = n, Len(c) = n,
           \A i \in 2..n : a[i] = c[i]
    PROVE  Siblings(n, Depth(n), Starts(n), Sizes(n), Hashes(a), BuildMerkleTree(a), Hashes(c), BuildMerkleTree(c))
<1> DEFINE d == Depth(n)
           J == Starts(n)
           S == Sizes(n)
<1>1. Shape(n, d, J, S)
      BY ShapeIs
<1>2. ASSUME NEW x \in Seq(Transaction), Len(x) = n PROVE IsTree(BuildMerkleTree(x), Hashes(x), d, J, S)
  <2>1. Hashes(x) \in Seq(Node) /\ DOMAIN x = 1..n
        BY <1>2, HashesType
  <2> QED BY <1>2, <2>1, BuildIs
<1>3. \A i \in 2..n : Hashes(a)[i] = Hashes(c)[i]
  <2> SUFFICES ASSUME NEW i \in 2..n PROVE Hashes(a)[i] = Hashes(c)[i]
      OBVIOUS
  <2>1. i \in 1..n /\ a[i] = c[i]
        OBVIOUS
  <2>2. Hashes(a)[i] = TxHash(a[i]) /\ Hashes(c)[i] = TxHash(c[i])
        BY <2>1, HashesType
  <2> QED BY <2>1, <2>2
<1> HIDE DEF d, J, S
<1>4. Siblings(n, d, J, S, Hashes(a), BuildMerkleTree(a), Hashes(c), BuildMerkleTree(c))
      BY <1>1, <1>2, <1>3 DEF Siblings
<1> QED BY <1>4 DEF d, J, S

\* The block of a template: its coinbase has zeros where the extranonces go.
Templated(b, height, pubkey, value) ==
    /\ IsCoinbase(height, pubkey, value)
    /\ b.version \in Uint(U32) /\ b.prevBlockHash \in Hash /\ b.bits \in Uint(U32)
    /\ b.tx \in Seq(Transaction) /\ Len(b.tx) >= 1 /\ b.tx[1] = CreateCoinbaseTX(height, pubkey, value)
    /\ b.merkleTree = BuildMerkleTree(b.tx)
    /\ b = [version |-> b.version, prevBlockHash |-> b.prevBlockHash, merkleRootHash |-> b.merkleRootHash,
            time |-> b.time, bits |-> b.bits, nonce |-> b.nonce, tx |-> b.tx, merkleTree |-> b.merkleTree]

LEMMA TemplateIs ==
    ASSUME NEW r, IsTemplate(r), NEW height, NEW pubkey, IsCoinbase(height, pubkey, r.coinbasevalue),
           NEW b, b = TemplateBlock(r, height, pubkey)
    PROVE  Templated(b, height, pubkey, r.coinbasevalue)
<1> DEFINE c == CreateCoinbaseTX(height, pubkey, r.coinbasevalue)
           more == [i \in DOMAIN r.transactions |->
                       ReadTransaction(Buffer(ASCIIToBin(r.transactions[i]))).val]
           one == <<c>>
           tx == one \o more
           x == ASCIIToBin(r.previousblockhash)
           y == ASCIIToBin(r.bits)
           z == Reverse(y)
<1>1. b = [version |-> r.version, prevBlockHash |-> Reverse(x),
           merkleRootHash |-> Last(BuildMerkleTree(tx)), time |-> r.curtime,
           bits |-> Read(Buffer(z), U32).val, nonce |-> 0, tx |-> tx, merkleTree |-> BuildMerkleTree(tx)]
      BY DEF TemplateBlock
<1>2. c \in Transaction
  <2>1. c = Coinbase(height, pubkey, r.coinbasevalue, Zeros(2 * U32))
        BY DEF CreateCoinbaseTX, Coinbase
  <2> HIDE DEF c
  <2> QED BY <2>1, ZerosType, CoinbaseType
<1>3. more \in Seq(Transaction)
  <2> DEFINE s == r.transactions
  <2>1. s \in Seq(Seq(Nat)) /\ \A i \in DOMAIN s : ReadTransaction(Buffer(ASCIIToBin(s[i]))).val \in Transaction
        BY DEF IsTemplate
  <2> HIDE DEF s
  <2>2. DOMAIN s = 1..Len(s) /\ Len(s) \in Nat
        BY <2>1
  <2>3. [i \in DOMAIN s |-> ReadTransaction(Buffer(ASCIIToBin(s[i]))).val] \in Seq(Transaction)
        BY <2>1, <2>2
  <2> QED BY <2>3 DEF s
<1> HIDE DEF c, more
<1>4. tx \in Seq(Transaction) /\ Len(tx) >= 1 /\ tx[1] = c
  <2>1. one \in Seq(Transaction) /\ Len(one) = 1 /\ one[1] = c
        BY <1>2
  <2> HIDE DEF one
  <2>2. tx = Joint(one, more)
        BY DEF Joint
  <2> HIDE DEF tx
  <2>3. /\ tx \in Seq(Transaction) /\ Len(tx) = Len(one) + Len(more)
        /\ \A i \in 1..Len(one) : tx[i] = one[i]
        BY <1>3, <2>1, <2>2, JointLen
  <2>4. Len(more) \in Nat
        BY <1>3
  <2> QED BY <2>1, <2>3, <2>4
<1>5. Reverse(x) \in Hash
  <2>1. x \in Seq(Byte) /\ Len(x) = HashLen
        BY Widths, BinType DEF IsTemplate
  <2> HIDE DEF x
  <2> QED BY <2>1, ReverseIs DEF Turned, Hash
<1>6. Read(Buffer(z), U32).val \in Uint(U32)
  <2>1. y \in Seq(Byte) /\ Len(y) = U32
        BY Widths, BinType DEF IsTemplate
  <2> HIDE DEF y
  <2>2. z \in Seq(Byte) /\ Len(z) = U32
        BY <2>1, ReverseIs DEF Turned
  <2> HIDE DEF z
  <2> QED BY <2>2, Widths, ReadWhole, ValueBack
<1>7. r.version \in Uint(U32)
      BY DEF IsTemplate
<1> HIDE DEF tx, x, z
<1> QED BY <1>1, <1>4, <1>5, <1>6, <1>7 DEF Templated, c

FieldsOf(s, b, tx, ntime, nonce) ==
    /\ s.version = b.version /\ s.prevBlockHash = b.prevBlockHash /\ s.bits = b.bits
    /\ s.time = Value(Reverse(ntime)) /\ s.nonce = Value(Reverse(nonce))
    /\ s.tx = tx /\ s.merkleTree = BuildMerkleTree(tx)
    /\ s.merkleRootHash = s.merkleTree[Starts(Len(tx))[Depth(Len(tx))] + 1]
    /\ s.merkleRootHash \in Node
    /\ s = [version |-> s.version, prevBlockHash |-> s.prevBlockHash, merkleRootHash |-> s.merkleRootHash,
            time |-> s.time, bits |-> s.bits, nonce |-> s.nonce, tx |-> s.tx, merkleTree |-> s.merkleTree]

\* The transactions of the template with the extranonces in the coinbase.
Mines(tx, b, c) ==
    /\ tx = [b.tx EXCEPT ![1] = c]
    /\ tx \in Seq(Transaction) /\ Len(tx) = Len(b.tx) /\ tx[1] = c
    /\ \A i \in 2..Len(tx) : tx[i] = b.tx[i]

LEMMA MinesIs ==
    ASSUME NEW b, b.tx \in Seq(Transaction), Len(b.tx) >= 1, NEW c \in Transaction
    PROVE  Mines([b.tx EXCEPT ![1] = c], b, c)
<1> DEFINE a == b.tx
           tx == [a EXCEPT ![1] = c]
<1>1. a \in Seq(Transaction) /\ Len(a) \in Nat /\ Len(a) >= 1
      OBVIOUS
<1> HIDE DEF a
<1>2. tx = [i \in 1..Len(a) |-> IF i = 1 THEN c ELSE a[i]]
      BY <1>1
<1>3. \A i \in 1..Len(a) : a[i] \in Transaction
      BY <1>1
<1>4. tx \in Seq(Transaction) /\ Len(tx) = Len(a)
      BY <1>1, <1>2, <1>3
<1>5. 1 \in 1..Len(a) /\ \A i \in 2..Len(a) : i \in 1..Len(a) /\ i # 1
      BY <1>1
<1>6. tx[1] = c /\ \A i \in 2..Len(a) : tx[i] = a[i]
      BY <1>2, <1>5
<1> HIDE DEF tx
<1>7. Mines(tx, b, c)
      BY <1>4, <1>6 DEF Mines, tx, a
<1> QED BY <1>7 DEF tx, a

LEMMA ShareIs ==
    ASSUME NEW b, NEW height, NEW pubkey, NEW value, Templated(b, height, pubkey, value),
           NEW x \in Uint(U32), NEW y \in Field, NEW ntime \in Field, NEW nonce \in Field,
           NEW s, s = ShareBlock(b, GetJob(b), x, y, ntime, nonce),
           NEW c, c = Coinbase(height, pubkey, value, Extras(x, y))
    PROVE  Mines(s.tx, b, c) /\ FieldsOf(s, b, s.tx, ntime, nonce)
<1> DEFINE job == GetJob(b)
           w == Sent(height, pubkey, value, x, y)
           n == Len(b.tx)
           d == Depth(n)
           J == Starts(n)
           S == Sizes(n)
           tx == [b.tx EXCEPT ![1] = c]
           u == BuildMerkleTree(tx)
           p == Read(Buffer(Reverse(ntime)), U32).val
           q == Read(Buffer(Reverse(nonce)), U32).val
<1>1. /\ IsCoinbase(height, pubkey, value)
      /\ b.tx \in Seq(Transaction) /\ Len(b.tx) >= 1 /\ b.tx[1] = CreateCoinbaseTX(height, pubkey, value)
      /\ b.merkleTree = BuildMerkleTree(b.tx)
      BY DEF Templated
<1>2. job.coinbase1 = Ahead(height) /\ job.coinbase2 = Behind(pubkey, value)
      BY <1>1, JobIs
<1>3. Extras(x, y) \in Room /\ ReadTransaction(Buffer(w)).val = c
      BY <1>1, FilledIs
<1>4. c \in Transaction
      BY <1>1, <1>3, CoinbaseType
<1>5. Mines(tx, b, c)
      BY <1>1, <1>4, MinesIs
<1>6. s = [b EXCEPT !.time = p, !.nonce = q, !.tx = tx,
                    !.merkleTree = RebuildMerkleTree(b.merkleTree, tx),
                    !.merkleRootHash = Last(RebuildMerkleTree(b.merkleTree, tx))]
  <2>1. job.coinbase1 \o Bytes(x, U32) \o y \o job.coinbase2 = w
        BY <1>2 DEF Sent
  <2> HIDE DEF job, w, p, q
  <2> QED BY <1>3, <2>1 DEF ShareBlock, job, p, q
<1>7. p = Value(Reverse(ntime)) /\ q = Value(Reverse(nonce))
  <2> SUFFICES ASSUME NEW f \in Field PROVE Read(Buffer(Reverse(f)), U32).val = Value(Reverse(f))
      OBVIOUS
  <2> DEFINE r == Reverse(f)
  <2>1. r \in Seq(Byte) /\ Len(r) = U32
        BY ReverseIs DEF Turned, Field
  <2> HIDE DEF r
  <2>2. Read(Buffer(r), U32).val = Value(r)
        BY <2>1, Widths, ReadWhole
  <2> QED BY <2>2 DEF r
<1> HIDE DEF p, q, job, w
<1>8. n \in Nat \ {0} /\ tx \in Seq(Transaction) /\ Len(tx) = n /\ tx[1] = c /\ \A i \in 2..n : b.tx[i] = tx[i]
  <2> HIDE DEF tx
  <2> QED BY <1>1, <1>5 DEF Mines
<1> HIDE DEF tx
<1>9. Siblings(n, d, J, S, Hashes(b.tx), b.merkleTree, Hashes(tx), u)
  <2> HIDE DEF n
  <2> QED BY <1>1, <1>8, SiblingsAre DEF n
<1>10. TxHash(tx[1]) = Hashes(tx)[1]
  <2>1. 1 \in 1..Len(tx)
        BY <1>8
  <2> QED BY <1>8, <2>1, HashesType
<1>11. RebuildMerkleTree(b.merkleTree, tx) = u
  <2> DEFINE h == Hashes(b.tx)
             g == Hashes(tx)
             t == b.merkleTree
  <2>1. Siblings(n, d, J, S, h, t, g, u) /\ n = Len(tx) /\ TxHash(tx[1]) = g[1]
        BY <1>8, <1>9, <1>10
  <2>2. d = Depth(n) /\ J = Starts(n) /\ S = Sizes(n)
        OBVIOUS
  <2> HIDE DEF h, g, t, u, n, d, J, S
  <2>3. RebuildMerkleTree(t, tx) = u
        BY <2>1, <2>2, RebuildIs
  <2> QED BY <2>3 DEF t
<1>12. u \in Seq(Node) /\ Len(u) = J[d] + 1 /\ J[d] \in Nat
  <2> HIDE DEF u, n, d, J, S
  <2> QED BY <1>9, TreeType DEF Siblings
<1>13. Last(u) = u[J[d] + 1] /\ Last(u) \in Node
  <2> HIDE DEF u, n, d, J, S
  <2> QED BY <1>12 DEF Last
<1> HIDE DEF u
<1>14. /\ s.version = b.version /\ s.prevBlockHash = b.prevBlockHash /\ s.bits = b.bits
       /\ s.time = p /\ s.nonce = q /\ s.tx = tx /\ s.merkleTree = u /\ s.merkleRootHash = Last(u)
       /\ s = [version |-> s.version, prevBlockHash |-> s.prevBlockHash, merkleRootHash |-> s.merkleRootHash,
               time |-> s.time, bits |-> s.bits, nonce |-> s.nonce, tx |-> s.tx, merkleTree |-> s.merkleTree]
  <2> DEFINE v == Last(u)
  <2>1. s = [b EXCEPT !.time = p, !.nonce = q, !.tx = tx, !.merkleTree = u, !.merkleRootHash = v]
        BY <1>6, <1>11
  <2>2. b = [version |-> b.version, prevBlockHash |-> b.prevBlockHash, merkleRootHash |-> b.merkleRootHash,
             time |-> b.time, bits |-> b.bits, nonce |-> b.nonce, tx |-> b.tx, merkleTree |-> b.merkleTree]
        BY DEF Templated
  <2> HIDE DEF v
  <2>3. s = [version |-> b.version, prevBlockHash |-> b.prevBlockHash, merkleRootHash |-> v,
             time |-> p, bits |-> b.bits, nonce |-> q, tx |-> tx, merkleTree |-> u]
        BY <2>1, <2>2
  <2> QED BY <2>3 DEF v
<1> QED BY <1>5, <1>7, <1>8, <1>13, <1>14 DEF FieldsOf, u

LEMMA FieldIs ==
    ASSUME NEW f \in Field
    PROVE  /\ Reverse(f) \in Seq(Byte) /\ Len(Reverse(f)) = U32 /\ f \in Seq(Byte) /\ Len(f) = U32
           /\ Reverse(f) = Bytes(Value(Reverse(f)), U32) /\ Reverse(Reverse(f)) = f
<1> DEFINE r == Reverse(f)
<1>1. f \in Seq(Byte) /\ Len(f) = U32
      BY DEF Field
<1>2. r \in Seq(Byte) /\ Len(r) = U32 /\ Reverse(r) = f
      BY <1>1, ReverseIs DEF Turned
<1> HIDE DEF r
<1>3. Bytes(Value(r), U32) = r
      BY <1>2, Widths, ValueBack
<1> QED BY <1>1, <1>2, <1>3 DEF r

LEMMA TurnedBytes ==
    ASSUME NEW n \in Nat
    PROVE  Reverse(Reverse(Bytes(n, U32))) = Bytes(n, U32)
<1>1. Bytes(n, U32) \in Seq(Byte)
      BY Widths, BytesType
<1> QED BY <1>1, ReverseIs DEF Turned

\* The miner hashes the header of the block that its share stands for.
LEMMA MinerIs ==
    ASSUME NEW b, NEW height, NEW pubkey, NEW value, Templated(b, height, pubkey, value),
           NEW x \in Uint(U32), NEW sub \in Submission,
           NEW s, s = ShareBlock(b, GetJob(b), x, sub.extranonce2, sub.ntime, sub.nonce)
    PROVE  MinerHash(JobMessage(b, GetJob(b)), Bytes(x, U32), sub) = BlockHash(s)
<1> DEFINE job == GetJob(b)
           m == JobMessage(b, job)
           y == sub.extranonce2
           c == Coinbase(height, pubkey, value, Extras(x, y))
           n == Len(s.tx)
           d == Depth(n)
           J == Starts(n)
           S == Sizes(n)
           u == s.merkleTree
           t == b.merkleTree
           p == [k \in 1..Words |-> Reverse(Word(m.prevhash, k))]
<1>1. y \in Field /\ sub.ntime \in Field /\ sub.nonce \in Field
      BY DEF Submission
<1>2. Mines(s.tx, b, c) /\ FieldsOf(s, b, s.tx, sub.ntime, sub.nonce)
      BY <1>1, ShareIs
<1>3. /\ IsCoinbase(height, pubkey, value) /\ b.version \in Nat /\ b.bits \in Nat /\ b.prevBlockHash \in Hash
      /\ b.tx \in Seq(Transaction) /\ Len(b.tx) >= 1 /\ b.tx[1] = CreateCoinbaseTX(height, pubkey, value)
      /\ t = BuildMerkleTree(b.tx)
      BY Widths DEF Templated
<1>4. /\ m.prevhash = SwapWords(b.prevBlockHash) /\ m.branch = MerkleBranch(b)
      /\ m.version = Reverse(Bytes(b.version, U32)) /\ m.bits = Reverse(Bytes(b.bits, U32))
      /\ m.coinbase1 = job.coinbase1 /\ m.coinbase2 = job.coinbase2
      BY DEF JobMessage
<1> HIDE DEF m, c
<1>5. Reverse(m.version) = Bytes(s.version, U32) /\ Reverse(m.bits) = Bytes(s.bits, U32)
  <2>1. s.version = b.version /\ s.bits = b.bits
        BY <1>2 DEF FieldsOf
  <2>2. Reverse(Reverse(Bytes(b.version, U32))) = Bytes(b.version, U32)
        BY <1>3, TurnedBytes
  <2>3. Reverse(Reverse(Bytes(b.bits, U32))) = Bytes(b.bits, U32)
        BY <1>3, TurnedBytes
  <2> QED BY <1>4, <2>1, <2>2, <2>3
<1>6. Joined(p) = s.prevBlockHash
  <2>1. s.prevBlockHash = b.prevBlockHash
        BY <1>2 DEF FieldsOf
  <2>2. Joined([k \in 1..Words |-> Reverse(Word(SwapWords(b.prevBlockHash), k))]) = b.prevBlockHash
        BY <1>3, SwapBack
  <2> QED BY <1>4, <2>1, <2>2
<1>7. Reverse(sub.ntime) = Bytes(s.time, U32) /\ Reverse(sub.nonce) = Bytes(s.nonce, U32)
  <2>1. s.time = Value(Reverse(sub.ntime)) /\ s.nonce = Value(Reverse(sub.nonce))
        BY <1>2 DEF FieldsOf
  <2> QED BY <1>1, <2>1, FieldIs
<1>8. n = Len(b.tx) /\ n \in Nat \ {0} /\ s.tx \in Seq(Transaction) /\ s.tx[1] = c
      /\ \A i \in 2..n : b.tx[i] = s.tx[i]
      BY <1>2, <1>3 DEF Mines
<1>9. u = BuildMerkleTree(s.tx) /\ s.merkleRootHash = u[J[d] + 1]
      BY <1>2 DEF FieldsOf
<1>10. Siblings(n, d, J, S, Hashes(b.tx), t, Hashes(s.tx), u)
  <2> HIDE DEF n, t, u
  <2>1. Len(b.tx) = n /\ Len(s.tx) = n
        BY <1>8 DEF n
  <2> QED BY <1>3, <1>8, <1>9, <2>1, SiblingsAre
<1>11. Hashes(s.tx)[1] = SHA256D(m.coinbase1 \o Bytes(x, U32) \o y \o m.coinbase2)
  <2>1. job.coinbase1 = Ahead(height) /\ job.coinbase2 = Behind(pubkey, value)
        BY <1>3, JobIs
  <2>2. Sent(height, pubkey, value, x, y) = WriteTransaction(c)
        BY <1>1, <1>3, FilledIs DEF c
  <2>3. Hashes(s.tx)[1] = TxHash(s.tx[1])
    <3>1. 1 \in 1..Len(s.tx)
          BY <1>8
    <3> QED BY <1>8, <3>1, HashesType
  <2> HIDE DEF job
  <2> QED BY <1>4, <1>8, <2>1, <2>2, <2>3 DEF Sent, TxHash
<1>12. m.branch = [k \in 1..d |-> t[J[k - 1] + 2]]
  <2>1. m.branch = [k \in 1..Depth(n) |-> t[Level(n)[k - 1].j + 2]]
        BY <1>4, <1>8 DEF MerkleBranch
  <2>2. \A k \in 1..d : J[k - 1] = Level(n)[k - 1].j
    <3>1. d \in Nat /\ \A k \in 1..d : k - 1 \in Nat
      <4>1. d \in 0..n
            BY <1>8, ShapeIs DEF Shape
      <4> QED BY <4>1
    <3> QED BY <3>1 DEF Starts
  <2> HIDE DEF n, J, t
  <2> QED BY <2>1, <2>2
<1>13. MinerRoot(m, Bytes(x, U32), y) = s.merkleRootHash
  <2> DEFINE h == Hashes(b.tx)
             g == Hashes(s.tx)
             e == Bytes(x, U32)
  <2>1. Siblings(n, d, J, S, h, t, g, u)
        BY <1>10
  <2>2. m.branch = [k \in 1..d |-> t[J[k - 1] + 2]] /\ g[1] = SHA256D(m.coinbase1 \o e \o y \o m.coinbase2)
        BY <1>11, <1>12
  <2> HIDE DEF h, g, e, n, d, J, S, t, u, y
  <2>3. MinerRoot(m, e, y) = u[J[d] + 1]
        BY <2>1, <2>2, MinerRootIs
  <2> QED BY <1>9, <2>3 DEF e
<1> HIDE DEF p
<1>14. MinerHash(m, Bytes(x, U32), sub) = BlockHash(s)
       BY <1>5, <1>6, <1>7, <1>13 DEF MinerHash, BlockHash, WriteHeader, p
<1> QED BY <1>14 DEF m

\* Filling the room of the coinbase is a change of its script.
ScriptFilled(k, x, y) == [k EXCEPT !.in[1].script = SubSeq(@, 1, U32) \o Bytes(x, U32) \o y]

LEMMA CoinbaseFills ==
    ASSUME NEW height, NEW pubkey, NEW value, IsCoinbase(height, pubkey, value),
           NEW x \in Uint(U32), NEW y \in Field,
           NEW k, k = CreateCoinbaseTX(height, pubkey, value)
    PROVE  ScriptFilled(k, x, y) = Coinbase(height, pubkey, value, Extras(x, y))
<1> DEFINE h == Bytes(height, U32)
           z == Zeros(2 * U32)
           o == Bytes(x, U32)
           w == Joint(h, z)
           p == [hash |-> Zeros(HashLen), n |-> Pow[U32] - 1]
           i == [prevout |-> p, script |-> w, n |-> 0]
           out1 == <<[value |-> value, scriptPubKey |-> Append(pubkey, OP_CHECKSIG)]>>
<1>1. h \in Seq(Byte) /\ Len(h) = U32 /\ o \in Seq(Byte) /\ z \in Seq(Byte) /\ y \in Seq(Byte)
  <2>1. height \in Nat /\ x \in Nat /\ U32 \in Nat
        BY Widths DEF IsCoinbase
  <2>2. h \in Seq(Byte) /\ Len(h) = U32 /\ o \in Seq(Byte)
        BY <2>1, BytesType
  <2>3. z \in Seq(Byte) /\ y \in Seq(Byte)
        BY ZerosType DEF Room, Field
  <2> QED BY <2>2, <2>3
<1>2. k = [version |-> 1, in |-> <<i>>, out |-> out1, lockTime |-> 0]
      BY DEF CreateCoinbaseTX, Joint
<1> HIDE DEF h, z, o, w, p, out1
<1>3. SubSeq(w, 1, U32) = h
  <2> DEFINE a == SubSeq(w, 1, U32)
  <2>1. w \in Seq(Byte) /\ Len(w) = Len(h) + Len(z) /\ \A q \in 1..Len(h) : w[q] = h[q]
        BY <1>1, JointLen DEF w
  <2>2. U32 \in Nat /\ Len(z) \in Nat /\ U32 <= Len(w)
        BY <1>1, <2>1, Widths
  <2>3. a \in Seq(Byte) /\ Len(a) = U32 /\ \A q \in 1..U32 : a[q] = w[q]
        BY <2>1, <2>2
  <2> HIDE DEF a
  <2>4. a = h
        BY <1>1, <2>1, <2>3, SeqEqual
  <2> QED BY <2>4 DEF a
<1>4. (h \o o) \o y = h \o Extras(x, y)
  <2>1. Joint(Joint(h, o), y) = Joint(h, Joint(o, y))
        BY <1>1, JointIs
  <2> QED BY <2>1 DEF Joint, Extras, o
<1> DEFINE v == SubSeq(w, 1, U32) \o o \o y
           j == [prevout |-> p, script |-> v, n |-> 0]
<1>5. v = h \o Extras(x, y)
      BY <1>3, <1>4
<1>6. Coinbase(height, pubkey, value, Extras(x, y)) = [version |-> 1, in |-> <<j>>, out |-> out1, lockTime |-> 0]
      BY <1>5 DEF Coinbase, h, p, out1
<1>7. [k EXCEPT !.in[1].script = SubSeq(@, 1, U32) \o o \o y]
          = [version |-> 1, in |-> <<j>>, out |-> out1, lockTime |-> 0]
  <2>1. k.in = <<i>> /\ k.in[1] = i /\ i.script = w
        BY <1>2
  <2>2. [i EXCEPT !.script = v] = j
    <3> HIDE DEF v
    <3> QED OBVIOUS
  <2> DEFINE l == <<i>>
  <2>3. [l EXCEPT ![1] = j] = <<j>>
    <3> HIDE DEF i, j
    <3> QED OBVIOUS
  <2> HIDE DEF v, j
  <2>4. [k EXCEPT !.in[1].script = SubSeq(@, 1, U32) \o o \o y] = [k EXCEPT !.in = [l EXCEPT ![1] = [i EXCEPT !.script = v]]]
        BY <2>1 DEF v
  <2> HIDE DEF l, i
  <2>5. [k EXCEPT !.in = <<j>>] = [version |-> 1, in |-> <<j>>, out |-> out1, lockTime |-> 0]
        BY <1>2
  <2> QED BY <2>2, <2>3, <2>4, <2>5
<1> HIDE DEF j
<1> QED BY <1>6, <1>7 DEF o, ScriptFilled

-----------------------------------------------------------------------------
(***************************************************************************)
(* A share is a block, and the key of a share is its work.                 *)
(***************************************************************************)
ShareResult(v) ==
    LET b == TemplateBlock(v.template, v.height, v.pubkey)
    IN  [miner |-> MinerHash(JobMessage(b, GetJob(b)), Bytes(v.extranonce, U32), v.share),
         old |-> b,
         block |-> ShareBlock(b, GetJob(b), v.extranonce, v.share.extranonce2, v.share.ntime, v.share.nonce)]

LEMMA ShareKept ==
    ASSUME out = ShareResult(in.v), IsTemplate(in.v.template), in.v.height \in Nat, in.v.extranonce \in Uint(U32),
           Append(in.v.pubkey, OP_CHECKSIG) \in List(Byte), in.v.share \in Submission
    PROVE  out.miner = BlockHash(out.block) /\ CoinbaseFilled /\ TreeRebuilt
<1> DEFINE v == in.v
           r == v.template
           value == r.coinbasevalue
           b == TemplateBlock(r, v.height, v.pubkey)
           x == v.extranonce
           sub == v.share
           y == sub.extranonce2
           s == ShareBlock(b, GetJob(b), x, y, sub.ntime, sub.nonce)
           c == Coinbase(v.height, v.pubkey, value, Extras(x, y))
           tx == s.tx
           n == Len(tx)
<1>1. /\ out.miner = MinerHash(JobMessage(b, GetJob(b)), Bytes(x, U32), sub)
      /\ out.old = b /\ out.block = s
      BY DEF ShareResult
<1>2. IsCoinbase(v.height, v.pubkey, value)
      BY DEF IsCoinbase, IsTemplate
<1>3. Templated(b, v.height, v.pubkey, value)
  <2> HIDE DEF v
  <2> QED BY <1>2, TemplateIs DEF v
<1> HIDE DEF b
<1>4. x \in Uint(U32) /\ sub \in Submission /\ y \in Field /\ sub.ntime \in Field /\ sub.nonce \in Field
      BY DEF Submission
<1>5. Mines(tx, b, c) /\ FieldsOf(s, b, tx, sub.ntime, sub.nonce)
      BY <1>3, <1>4, ShareIs
<1>6. out.miner = BlockHash(out.block)
      BY <1>1, <1>3, <1>4, MinerIs
<1>7. CoinbaseFilled
  <2> DEFINE k == b.tx[1]
  <2>1. b.tx \in Seq(Transaction) /\ Len(b.tx) >= 1 /\ k = CreateCoinbaseTX(v.height, v.pubkey, value)
        BY <1>3 DEF Templated
  <2>2. ScriptFilled(k, x, y) = c
    <3> HIDE DEF x, y, value, v, k
    <3>1. ScriptFilled(k, x, y) = Coinbase(v.height, v.pubkey, value, Extras(x, y))
          BY <1>2, <1>4, <2>1, CoinbaseFills
    <3> QED BY <3>1
  <2>3. tx = [b.tx EXCEPT ![1] = c]
        BY <1>5 DEF Mines
  <2> HIDE DEF c, s, x, y
  <2>4. [b.tx EXCEPT ![1].in[1].script = SubSeq(@, 1, U32) \o Bytes(x, U32) \o y]
            = [b.tx EXCEPT ![1] = ScriptFilled(k, x, y)]
        BY DEF ScriptFilled
  <2> QED BY <1>1, <2>2, <2>3, <2>4 DEF CoinbaseFilled, x, y
<1>8. /\ n \in Nat \ {0} /\ tx \in Seq(Transaction) /\ s.merkleTree = BuildMerkleTree(tx)
      /\ s.merkleRootHash = s.merkleTree[Starts(n)[Depth(n)] + 1]
  <2>1. Len(b.tx) \in Nat /\ Len(b.tx) >= 1
        BY <1>3 DEF Templated
  <2> HIDE DEF s
  <2> QED BY <1>5, <2>1 DEF Mines, FieldsOf
<1> HIDE DEF s
<1>9. MerkleRoot(Hashes(tx)) = s.merkleRootHash
  <2> DEFINE d == Depth(n)
             J == Starts(n)
             S == Sizes(n)
             h == Hashes(tx)
             t == s.merkleTree
  <2>1. h = [i \in 1..n |-> h[i]]
        BY <1>8, HashesType
  <2>2. Siblings(n, d, J, S, h, t, h, t)
    <3> HIDE DEF tx
    <3>1. Len(tx) = n
          OBVIOUS
    <3> HIDE DEF n
    <3> QED BY <1>8, <3>1, SiblingsAre
  <2> HIDE DEF h, n, d, J, S, t
  <2>3. Shape(n, d, J, S) /\ IsTree(t, h, d, J, S)
        BY <2>2 DEF Siblings
  <2>4. MerkleRoot(h) = t[J[d] + 1]
        BY <1>8, <2>1, <2>3, RootIs
  <2> QED BY <1>8, <2>4 DEF h, t, d, J
<1>10. TreeRebuilt
       BY <1>1, <1>8, <1>9 DEF TreeRebuilt, Hashes
<1> QED BY <1>6, <1>7, <1>10

\* Two headers that differ in the root and the nonce only.
Peels(p, x, y, z, i, r, q) == p \o x \o z \o i \o r = p \o y \o z \o i \o q => x = y /\ r = q

LEMMA Peel ==
    ASSUME NEW S, NEW p \in Seq(S), NEW x \in Seq(S), NEW y \in Seq(S), NEW z \in Seq(S), NEW i \in Seq(S),
           NEW r \in Seq(S), NEW q \in Seq(S), Len(r) = Len(q)
    PROVE  Peels(p, x, y, z, i, r, q)
<1> SUFFICES ASSUME p \o x \o z \o i \o r = p \o y \o z \o i \o q
             PROVE  x = y /\ r = q
    BY DEF Peels
<1> DEFINE a == Joint(p, x)
           c == Joint(p, y)
           b == Joint(a, z)
           e == Joint(c, z)
           f == Joint(b, i)
           g == Joint(e, i)
<1>1. a \in Seq(S) /\ c \in Seq(S)
      BY JointLen
<1> HIDE DEF a, c
<1>2. b \in Seq(S) /\ e \in Seq(S)
      BY <1>1, JointLen
<1> HIDE DEF b, e
<1>3. f \in Seq(S) /\ g \in Seq(S)
      BY <1>2, JointLen
<1> HIDE DEF f, g
<1>4. f \o r = g \o q
      BY DEF a, b, c, e, f, g, Joint
<1>5. f = g /\ r = q
  <2>1. CutLast(f, r, g, q)
        BY <1>3, CutLastIs
  <2> QED BY <1>4, <2>1 DEF CutLast
<1>6. b \o i = e \o i
      BY <1>5 DEF f, g, Joint
<1>7. b = e
      BY <1>2, <1>6, CutRight
<1>8. a \o z = c \o z
      BY <1>7 DEF b, e, Joint
<1>9. a = c
      BY <1>1, <1>8, CutRight
<1>10. p \o x = p \o y
      BY <1>9 DEF a, c, Joint
<1>11. x = y
      BY <1>10, CutLeft
<1> QED BY <1>5, <1>11

\* The header of a share, its time left out.
Work(b, root, nonce) ==
    (Bytes(b.version, U32) \o b.prevBlockHash) \o root \o Bytes(0, U32) \o Bytes(b.bits, U32) \o nonce
Timeless(s) == BlockHash([s EXCEPT !.time = 0])

LEMMA TimelessIs ==
    ASSUME NEW s, NEW b, NEW tx, NEW ntime, NEW nonce \in Field, FieldsOf(s, b, tx, ntime, nonce)
    PROVE  Timeless(s) = SHA256D(Work(b, s.merkleRootHash, Reverse(nonce)))
<1> DEFINE o == [s EXCEPT !.time = 0]
<1>1. s = [version |-> s.version, prevBlockHash |-> s.prevBlockHash, merkleRootHash |-> s.merkleRootHash,
           time |-> s.time, bits |-> s.bits, nonce |-> s.nonce, tx |-> s.tx, merkleTree |-> s.merkleTree]
      BY DEF FieldsOf
<1>2. o = [version |-> s.version, prevBlockHash |-> s.prevBlockHash, merkleRootHash |-> s.merkleRootHash,
           time |-> 0, bits |-> s.bits, nonce |-> s.nonce, tx |-> s.tx, merkleTree |-> s.merkleTree]
      BY <1>1
<1> HIDE DEF o
<1>3. /\ o.version = s.version /\ o.prevBlockHash = s.prevBlockHash /\ o.merkleRootHash = s.merkleRootHash
      /\ o.time = 0 /\ o.bits = s.bits /\ o.nonce = s.nonce
      BY <1>2
<1>4. /\ o.version = b.version /\ o.prevBlockHash = b.prevBlockHash /\ o.merkleRootHash = s.merkleRootHash
      /\ o.time = 0 /\ o.bits = b.bits /\ o.nonce = Value(Reverse(nonce))
      BY <1>3 DEF FieldsOf
<1>5. Bytes(o.nonce, U32) = Reverse(nonce)
      BY <1>4, FieldIs
<1>6. WriteHeader(o) = Work(b, s.merkleRootHash, Reverse(nonce))
      BY <1>4, <1>5 DEF WriteHeader, Work
<1> QED BY <1>6 DEF Timeless, BlockHash, o

LEMMA WorkTells ==
    ASSUME NEW b, NEW height, NEW pubkey, NEW value, Templated(b, height, pubkey, value),
           NEW x \in Node, NEW y \in Node, NEW r \in Seq(Byte), NEW q \in Seq(Byte), Len(r) = U32, Len(q) = U32,
           SHA256D(Work(b, x, r)) = SHA256D(Work(b, y, q))
    PROVE  x = y /\ r = q
<1> DEFINE v == Bytes(b.version, U32)
           h == b.prevBlockHash
           p == Joint(v, h)
           z == Bytes(0, U32)
           i == Bytes(b.bits, U32)
<1>1. \A s \in Seq(Byte) : s \in Node
      BY BaseNat DEF Byte, Node
<1>2. v \in Node /\ h \in Node /\ z \in Node /\ i \in Node /\ r \in Node /\ q \in Node
  <2>1. b.version \in Nat /\ b.bits \in Nat /\ U32 \in Nat /\ h \in Seq(Byte)
        BY Widths DEF Templated, Hash
  <2>2. v \in Seq(Byte) /\ z \in Seq(Byte) /\ i \in Seq(Byte)
        BY <2>1, BytesType
  <2> QED BY <1>1, <2>1, <2>2
<1> HIDE DEF v, h, z, i
<1>3. p \in Node
      BY <1>2, JointLen DEF Node
<1> HIDE DEF p
<1>4. /\ Work(b, x, r) = p \o x \o z \o i \o r
      /\ Work(b, y, q) = p \o y \o z \o i \o q
      BY DEF Work, p, v, h, z, i, Joint
<1>5. Work(b, x, r) \in Node /\ Work(b, y, q) \in Node
      BY <1>2, <1>3, <1>4 DEF Node
<1>6. Work(b, x, r) = Work(b, y, q)
      BY <1>5, HashTells
<1>7. p \o x \o z \o i \o r = p \o y \o z \o i \o q
      BY <1>4, <1>6
<1>8. Peels(p, x, y, z, i, r, q)
      BY <1>2, <1>3, Peel DEF Node
<1> QED BY <1>7, <1>8 DEF Peels

\* The coinbase tells the second extranonce.
LEMMA CoinbaseTells ==
    ASSUME NEW height, NEW pubkey, NEW value, IsCoinbase(height, pubkey, value),
           NEW x \in Uint(U32), NEW y \in Field, NEW z \in Field,
           NEW c, c = Coinbase(height, pubkey, value, Extras(x, y)),
           NEW k, k = Coinbase(height, pubkey, value, Extras(x, z)),
           TxHash(c) = TxHash(k)
    PROVE  y = z
<1> DEFINE e == Extras(x, y)
           f == Extras(x, z)
           a == Ahead(height)
           g == Behind(pubkey, value)
           o == Bytes(x, U32)
<1>1. e \in Room /\ f \in Room
      BY FilledIs
<1>2. e = o \o y /\ f = o \o z
      BY DEF Extras
<1> HIDE DEF e, f
<1>3. c \in Transaction /\ k \in Transaction
      BY <1>1, CoinbaseType DEF e, f
<1>4. WriteTransaction(c) = WriteTransaction(k)
  <2>1. WriteTransaction(c) \in Node /\ WriteTransaction(k) \in Node
        BY <1>3, TxHashType
  <2> QED BY <2>1, HashTells DEF TxHash
<1>5. WriteTransaction(c) = a \o e \o g /\ WriteTransaction(k) = a \o f \o g
      BY <1>1, CoinbaseParts DEF e, f
<1>6. a \in Seq(Byte) /\ g \in Seq(Byte) /\ e \in Seq(Byte) /\ f \in Seq(Byte)
      BY <1>1, AheadType, BehindType DEF IsCoinbase, Room
<1>7. o \in Seq(Byte) /\ y \in Seq(Byte) /\ z \in Seq(Byte)
      BY BytesType, Widths DEF Field
<1> HIDE DEF a, g, o
<1>8. Joint(a, e) = Joint(a, f)
  <2>1. Joint(a, e) \in Seq(Byte) /\ Joint(a, f) \in Seq(Byte)
        BY <1>6, JointLen
  <2>2. Joint(a, e) \o g = Joint(a, f) \o g
        BY <1>4, <1>5 DEF Joint
  <2> QED BY <1>6, <2>1, <2>2, CutRight
<1>9. e = f
  <2>1. a \o e = a \o f
        BY <1>8 DEF Joint
  <2> QED BY <1>6, <2>1, CutLeft
<1>10. o \o y = o \o z
      BY <1>2, <1>9
<1> QED BY <1>7, <1>10, CutLeft

\* The key tells the second extranonce and the nonce.
LEMMA KeyTells ==
    ASSUME NEW y \in Field, NEW z \in Field, NEW f \in Field, NEW g \in Field
    PROVE  ShareKey(y, f) = ShareKey(z, g) <=> y = z /\ f = g
<1> SUFFICES ASSUME ShareKey(y, f) = ShareKey(z, g) PROVE y = z /\ f = g
    OBVIOUS
<1> DEFINE r == Reverse(f)
           q == Reverse(g)
           d == Joint(r, y)
           e == Joint(q, z)
<1>1. /\ r \in Seq(Byte) /\ Len(r) = U32 /\ Reverse(r) = f /\ y \in Seq(Byte) /\ Len(y) = U32
      /\ q \in Seq(Byte) /\ Len(q) = U32 /\ Reverse(q) = g /\ z \in Seq(Byte) /\ Len(z) = U32
      BY FieldIs
<1> HIDE DEF r, q
<1>2. d \in Seq(Byte) /\ Len(d) = U32 + U32 /\ e \in Seq(Byte) /\ Len(e) = U32 + U32
  <2>1. d \in Seq(Byte) /\ Len(d) = Len(r) + Len(y)
        BY <1>1, JointLen
  <2>2. e \in Seq(Byte) /\ Len(e) = Len(q) + Len(z)
        BY <1>1, JointLen
  <2> QED BY <1>1, <2>1, <2>2
<1>3. ShareKey(y, f) = Read(Buffer(d), U64).val /\ ShareKey(z, g) = Read(Buffer(e), U64).val
      BY DEF ShareKey, Joint, r, q
<1> HIDE DEF d, e
<1>4. U64 \in Nat /\ Len(d) = U64 /\ Len(e) = U64
  <2>1. U64 \in Nat /\ U32 \in Nat
        BY Widths
  <2> QED BY <1>2, <2>1 DEF U64
<1>5. Value(d) = Value(e)
  <2>1. Read(Buffer(d), U64).val = Value(d) /\ Read(Buffer(e), U64).val = Value(e)
        BY <1>2, <1>4, ReadWhole
  <2> QED BY <1>3, <2>1
<1>6. d = e
  <2>1. Bytes(Value(d), U64) = d /\ Bytes(Value(e), U64) = e
        BY <1>2, <1>4, ValueBack
  <2> QED BY <1>5, <2>1
<1>7. r \o y = q \o z
      BY <1>6 DEF d, e, Joint
<1>8. r = q /\ y = z
      BY <1>1, <1>7, CutLeft
<1> QED BY <1>1, <1>8

\* So does the header, the time left out: the coinbase is the first leaf of the
\* tree, and the root tells it.
LEMMA HeaderTells ==
    ASSUME NEW b, NEW height, NEW pubkey, NEW value, Templated(b, height, pubkey, value), NEW x \in Uint(U32),
           NEW p \in Submission, NEW q \in Submission,
           NEW s, s = ShareBlock(b, GetJob(b), x, p.extranonce2, p.ntime, p.nonce),
           NEW t, t = ShareBlock(b, GetJob(b), x, q.extranonce2, q.ntime, q.nonce)
    PROVE  Timeless(s) = Timeless(t) <=> p.extranonce2 = q.extranonce2 /\ p.nonce = q.nonce
<1> DEFINE y == p.extranonce2
           z == q.extranonce2
           f == p.nonce
           g == q.nonce
           c == Coinbase(height, pubkey, value, Extras(x, y))
           k == Coinbase(height, pubkey, value, Extras(x, z))
           a == s.tx
           e == t.tx
           n == Len(b.tx)
           d == Depth(n)
           J == Starts(n)
           S == Sizes(n)
<1>1. y \in Field /\ z \in Field /\ f \in Field /\ g \in Field /\ p.ntime \in Field /\ q.ntime \in Field
      BY DEF Submission
<1>2. IsCoinbase(height, pubkey, value) /\ n \in Nat /\ n >= 1
      BY DEF Templated
<1>3. Mines(a, b, c) /\ FieldsOf(s, b, a, p.ntime, f) /\ Mines(e, b, k) /\ FieldsOf(t, b, e, q.ntime, g)
      BY <1>1, ShareIs
<1> HIDE DEF y, z, f, g, c, k, a, e
<1>4. /\ Timeless(s) = SHA256D(Work(b, s.merkleRootHash, Reverse(f)))
      /\ Timeless(t) = SHA256D(Work(b, t.merkleRootHash, Reverse(g)))
      BY <1>1, <1>3, TimelessIs
<1>5. /\ a \in Seq(Transaction) /\ Len(a) = n /\ a[1] = c
      /\ e \in Seq(Transaction) /\ Len(e) = n /\ e[1] = k
      /\ \A i \in 2..n : a[i] = e[i]
      BY <1>3 DEF Mines
<1>6. /\ s.merkleRootHash = BuildMerkleTree(a)[J[d] + 1] /\ s.merkleRootHash \in Node
      /\ t.merkleRootHash = BuildMerkleTree(e)[J[d] + 1] /\ t.merkleRootHash \in Node
      BY <1>3, <1>5 DEF FieldsOf
<1>7. ASSUME y = z, f = g PROVE Timeless(s) = Timeless(t)
  <2>1. a = e
        BY <1>3, <1>7 DEF Mines, c, k
  <2> QED BY <1>4, <1>6, <1>7, <2>1
<1>8. ASSUME Timeless(s) = Timeless(t) PROVE y = z /\ f = g
  <2> DEFINE u == BuildMerkleTree(a)
             w == BuildMerkleTree(e)
             r == s.merkleRootHash
             m == t.merkleRootHash
             v == Reverse(f)
             o == Reverse(g)
  <2>1. v \in Seq(Byte) /\ Len(v) = U32 /\ Reverse(v) = f /\ o \in Seq(Byte) /\ Len(o) = U32 /\ Reverse(o) = g
        BY <1>1, FieldIs
  <2>2. SHA256D(Work(b, r, v)) = SHA256D(Work(b, m, o))
        BY <1>4, <1>8
  <2> HIDE DEF v, o
  <2>3. r = m /\ v = o
    <3>1. r \in Node /\ m \in Node
          BY <1>6
    <3> HIDE DEF r, m
    <3> QED BY <2>1, <2>2, <3>1, WorkTells
  <2>4. Siblings(n, d, J, S, Hashes(a), u, Hashes(e), w)
    <3> HIDE DEF n
    <3> QED BY <1>2, <1>5, SiblingsAre
  <2>5. u[J[d] + 1] = w[J[d] + 1]
        BY <1>6, <2>3
  <2>6. Hashes(a)[1] = Hashes(e)[1]
    <3> HIDE DEF u, w, n, d, J, S
    <3> QED BY <2>4, <2>5, RootTells
  <2>7. TxHash(c) = TxHash(k)
    <3> HIDE DEF n
    <3>1. 1 \in 1..n
          BY <1>2
    <3>2. Hashes(a)[1] = TxHash(a[1]) /\ Hashes(e)[1] = TxHash(e[1])
          BY <1>5, <3>1, HashesType
    <3> QED BY <1>5, <2>6, <3>2
  <2>8. y = z
        BY <1>1, <1>2, <2>7, CoinbaseTells DEF c, k
  <2> QED BY <2>1, <2>3, <2>8
<1> QED BY <1>7, <1>8 DEF y, z, f, g

PairResult(v) ==
    LET b == TemplateBlock(v.template, 1, <<>>)
        Submitted(s) ==
            [key |-> ShareKey(s.extranonce2, s.nonce),
             block |-> ShareBlock(b, GetJob(b), 0, s.extranonce2, s.ntime, s.nonce)]
    IN  [one |-> Submitted(v.one), other |-> Submitted(v.other)]

LEMMA PairKept ==
    ASSUME NEW v, IsTemplate(v.template), v.one \in Submission, v.other \in Submission,
           NEW r, r = PairResult(v)
    PROVE  r.one.key = r.other.key <=> Timeless(r.one.block) = Timeless(r.other.block)
<1> DEFINE m == v.template
           b == TemplateBlock(m, 1, <<>>)
           p == v.one
           q == v.other
           s == ShareBlock(b, GetJob(b), 0, p.extranonce2, p.ntime, p.nonce)
           t == ShareBlock(b, GetJob(b), 0, q.extranonce2, q.ntime, q.nonce)
<1>1. /\ r.one.key = ShareKey(p.extranonce2, p.nonce) /\ r.one.block = s
      /\ r.other.key = ShareKey(q.extranonce2, q.nonce) /\ r.other.block = t
      BY DEF PairResult
<1>2. IsCoinbase(1, <<>>, m.coinbasevalue)
  <2> DEFINE w == Append(<<>>, OP_CHECKSIG)
  <2>1. w = <<OP_CHECKSIG>> /\ m.coinbasevalue \in Uint(U64)
        BY DEF IsTemplate
  <2>2. OP_CHECKSIG \in Byte /\ 1 \in Uint(U64)
        BY SmallNumbers
  <2>3. w \in Seq(Byte) /\ Len(w) = 1
    <3> HIDE DEF w
    <3> QED BY <2>1, <2>2
  <2> QED BY <2>1, <2>2, <2>3 DEF IsCoinbase, List
<1>3. Templated(b, 1, <<>>, m.coinbasevalue)
  <2> HIDE DEF m
  <2> QED BY <1>2, TemplateIs DEF m
<1>4. p \in Submission /\ q \in Submission /\ 0 \in Uint(U32)
      BY SmallNumbers
<1> HIDE DEF b, m, p, q
<1>5. Timeless(s) = Timeless(t) <=> p.extranonce2 = q.extranonce2 /\ p.nonce = q.nonce
      BY <1>3, <1>4, HeaderTells
<1>6. ShareKey(p.extranonce2, p.nonce) = ShareKey(q.extranonce2, q.nonce)
          <=> p.extranonce2 = q.extranonce2 /\ p.nonce = q.nonce
      BY <1>4, KeyTells DEF Submission
<1> HIDE DEF s, t
<1> QED BY <1>1, <1>5, <1>6

-----------------------------------------------------------------------------
(***************************************************************************)
(* The recursive functions of the nodes, their texts and the reader.       *)
(***************************************************************************)
\* The nodes by depth are well defined.
NodesRun(L, K, n, g) == g[0] = L /\ \A k \in 1..n : g[k] = L \cup ListsOf(g[k - 1], K)

LEMMA NodesRunExists ==
    ASSUME NEW L, NEW K, NEW n \in Nat
    PROVE  \E g : NodesRun(L, K, n, g)
<1> USE DEF NodesRun
<1> DEFINE T == {m \in Nat : \E g : NodesRun(L, K, m, g)}
<1>1. 0 \in T
  <2>1. NodesRun(L, K, 0, [k \in 0..0 |-> L])
        OBVIOUS
  <2> QED BY <2>1
<1>2. ASSUME NEW m \in Nat, m \in T PROVE m + 1 \in T
  <2>1. PICK g : NodesRun(L, K, m, g)
        BY <1>2
  <2> DEFINE last == L \cup ListsOf(g[m], K)
             h == [k \in 0..(m + 1) |-> IF k = m + 1 THEN last ELSE g[k]]
  <2>2. h[0] = L
        BY <2>1
  <2>3. ASSUME NEW k \in 1..(m + 1) PROVE h[k] = L \cup ListsOf(h[k - 1], K)
    <3>1. k - 1 \in 0..m /\ k - 1 # m + 1 /\ k \in 0..(m + 1)
          OBVIOUS
    <3>2. h[k - 1] = g[k - 1]
          BY <3>1
    <3>3. CASE k = m + 1
      <4>1. h[k] = last /\ k - 1 = m
            BY <3>3
      <4> QED BY <4>1, <3>2
    <3>4. CASE k # m + 1
      <4>1. k \in 1..m /\ h[k] = g[k]
            BY <3>4
      <4> QED BY <4>1, <3>2, <2>1
    <3> QED BY <3>3, <3>4
  <2> HIDE DEF h
  <2>4. NodesRun(L, K, m + 1, h)
        BY <2>2, <2>3
  <2> QED BY <2>4
<1>3. Nat \subseteq T
  <2> HIDE DEF T
  <2> QED BY <1>1, <1>2, Induction
<1> QED BY <1>3

LEMMA NodesAre ==
    ASSUME NEW L, NEW K
    PROVE  NodesRun(L, K, Nesting, NodesOf(L, K))
<1> DEFINE Is(f) == f = [k \in 0..Nesting |-> IF k = 0 THEN L ELSE L \cup ListsOf(f[k - 1], K)]
           N == NodesOf(L, K)
<1>0. Nesting \in Nat
      BY NestingAssumption
<1>1. PICK g : NodesRun(L, K, Nesting, g)
      BY <1>0, NodesRunExists
<1> DEFINE h == [k \in 0..Nesting |-> g[k]]
<1>2. Is(h)
  <2>1. ASSUME NEW k \in 0..Nesting PROVE h[k] = IF k = 0 THEN L ELSE L \cup ListsOf(h[k - 1], K)
    <3>1. CASE k = 0
          BY <1>0, <1>1, <3>1 DEF NodesRun
    <3>2. CASE k # 0
      <4>1. k \in 1..Nesting /\ k - 1 \in 0..Nesting
            BY <1>0, <3>2
      <4>2. g[k] = L \cup ListsOf(g[k - 1], K)
            BY <1>1, <4>1 DEF NodesRun
      <4>3. h[k] = g[k] /\ h[k - 1] = g[k - 1]
            BY <4>1
      <4> QED BY <3>2, <4>2, <4>3
    <3> QED BY <3>1, <3>2
  <2>2. h = [k \in 0..Nesting |-> h[k]]
        OBVIOUS
  <2> HIDE DEF h
  <2> QED BY <2>1, <2>2
<1>3. Is(N)
  <2>1. N = CHOOSE f : Is(f)
        BY DEF NodesOf
  <2> HIDE DEF Is, N, h
  <2> QED BY <1>2, <2>1
<1>4. \A k \in 0..Nesting : N[k] = IF k = 0 THEN L ELSE L \cup ListsOf(N[k - 1], K)
  <2> HIDE DEF N
  <2> QED BY <1>3
<1> HIDE DEF N
<1>5. N[0] = L
  <2>1. 0 \in 0..Nesting
        BY <1>0
  <2> QED BY <1>4, <2>1
<1>6. ASSUME NEW k \in 1..Nesting PROVE N[k] = L \cup ListsOf(N[k - 1], K)
  <2>1. k \in 0..Nesting /\ k # 0
        BY <1>0
  <2> QED BY <1>4, <2>1
<1>7. NodesRun(L, K, Nesting, N)
      BY <1>5, <1>6 DEF NodesRun
<1> QED BY <1>7 DEF N

\* So are their texts.
WriteRun(n, g) ==
    /\ g[0] = [node \in Leaves |-> WriteLeaf(node)]
    /\ \A k \in 1..n : g[k] = [node \in Nodes[k] |-> WriteNode(g[k - 1], node)]

LEMMA WriteRunExists ==
    ASSUME NEW n \in Nat
    PROVE  \E g : WriteRun(n, g)
<1> USE DEF WriteRun
<1> DEFINE T == {m \in Nat : \E g : WriteRun(m, g)}
<1>1. 0 \in T
  <2>1. WriteRun(0, [k \in 0..0 |-> [node \in Leaves |-> WriteLeaf(node)]])
        OBVIOUS
  <2> HIDE DEF WriteRun
  <2> QED BY <2>1
<1>2. ASSUME NEW m \in Nat, m \in T PROVE m + 1 \in T
  <2>1. PICK g : WriteRun(m, g)
        BY <1>2
  <2> DEFINE last == [node \in Nodes[m + 1] |-> WriteNode(g[m], node)]
             h == [k \in 0..(m + 1) |-> IF k = m + 1 THEN last ELSE g[k]]
  <2>2. h[0] = g[0]
        OBVIOUS
  <2>3. ASSUME NEW k \in 1..(m + 1)
        PROVE  h[k] = [node \in Nodes[k] |-> WriteNode(h[k - 1], node)]
    <3>1. k - 1 \in 0..m /\ k - 1 # m + 1 /\ k \in 0..(m + 1)
          OBVIOUS
    <3>2. h[k - 1] = g[k - 1]
          BY <3>1
    <3>3. CASE k = m + 1
      <4>1. h[k] = last /\ k - 1 = m
            BY <3>3
      <4> QED BY <4>1, <3>2, <3>3
    <3>4. CASE k # m + 1
      <4>1. k \in 1..m /\ h[k] = g[k]
            BY <3>4
      <4> QED BY <4>1, <3>2, <2>1
    <3> QED BY <3>3, <3>4
  <2>4. h[0] = [node \in Leaves |-> WriteLeaf(node)]
        BY <2>1, <2>2
  <2> HIDE DEF h
  <2>5. WriteRun(m + 1, h)
        BY <2>3, <2>4
  <2> HIDE DEF WriteRun
  <2> QED BY <2>5
<1>3. Nat \subseteq T
  <2> HIDE DEF T
  <2> QED BY <1>1, <1>2, Induction
<1> QED BY <1>3

LEMMA WriteIs == WriteRun(Nesting, Write)
<1> DEFINE first == [node \in Leaves |-> WriteLeaf(node)]
           Then(f, k) == [node \in Nodes[k] |-> WriteNode(f[k - 1], node)]
           Is(f) == f = [k \in 0..Nesting |-> IF k = 0 THEN first ELSE Then(f, k)]
<1>0. Nesting \in Nat
      BY NestingAssumption
<1>1. PICK g : WriteRun(Nesting, g)
      BY <1>0, WriteRunExists
<1> DEFINE h == [k \in 0..Nesting |-> g[k]]
<1>2. Is(h)
  <2>1. ASSUME NEW k \in 0..Nesting PROVE h[k] = IF k = 0 THEN first ELSE Then(h, k)
    <3>1. CASE k = 0
          BY <1>0, <1>1, <3>1 DEF WriteRun
    <3>2. CASE k # 0
      <4>1. k \in 1..Nesting /\ k - 1 \in 0..Nesting
            BY <1>0, <3>2
      <4>2. g[k] = Then(g, k)
            BY <1>1, <4>1 DEF WriteRun
      <4>3. h[k] = g[k] /\ h[k - 1] = g[k - 1]
            BY <4>1
      <4> QED BY <3>2, <4>2, <4>3
    <3> QED BY <3>1, <3>2
  <2>2. h = [k \in 0..Nesting |-> h[k]]
        OBVIOUS
  <2> HIDE DEF h, first, Then
  <2> QED BY <2>1, <2>2
<1>3. Is(Write)
  <2>1. Write = CHOOSE f : Is(f)
        BY DEF Write
  <2> HIDE DEF Is, h
  <2> QED BY <1>2, <2>1
<1>4. \A k \in 0..Nesting : Write[k] = IF k = 0 THEN first ELSE Then(Write, k)
  <2> HIDE DEF first, Then
  <2> QED BY <1>3
<1>5. Write[0] = first
  <2>1. 0 \in 0..Nesting
        BY <1>0
  <2> HIDE DEF first, Then
  <2> QED BY <1>4, <2>1
<1>6. ASSUME NEW k \in 1..Nesting PROVE Write[k] = Then(Write, k)
  <2>1. k \in 0..Nesting /\ k # 0
        BY <1>0
  <2> QED BY <1>4, <2>1
<1> QED BY <1>5, <1>6 DEF WriteRun

\* A list is written a member at a time.
Comma(i) == IF i > 1 THEN <<Tok(",")>> ELSE <<>>
Name(node, i) ==
    IF node.type = "object" THEN Quoted(node.mapOrder[i]) \o <<Tok(":")>> ELSE <<>>
Member(write, node, i, text) == text \o Comma(i) \o Name(node, i) \o write[node.vec[i]]
TextRun(write, node, n, g) == g[0] = <<>> /\ \A i \in 1..n : g[i] = Member(write, node, i, g[i - 1])

LEMMA TextRunExists ==
    ASSUME NEW write, NEW node, NEW n \in Nat
    PROVE  \E g : TextRun(write, node, n, g)
<1> USE DEF TextRun
<1> DEFINE T == {m \in Nat : \E g : TextRun(write, node, m, g)}
<1>1. 0 \in T
  <2>1. TextRun(write, node, 0, [i \in 0..0 |-> <<>>])
        OBVIOUS
  <2> HIDE DEF TextRun
  <2> QED BY <2>1
<1>2. ASSUME NEW m \in Nat, m \in T PROVE m + 1 \in T
  <2>1. PICK g : TextRun(write, node, m, g)
        BY <1>2
  <2> DEFINE last == Member(write, node, m + 1, g[m])
             h == [i \in 0..(m + 1) |-> IF i = m + 1 THEN last ELSE g[i]]
  <2>2. h[0] = <<>>
        BY <2>1
  <2>3. ASSUME NEW i \in 1..(m + 1) PROVE h[i] = Member(write, node, i, h[i - 1])
    <3>1. i - 1 \in 0..m /\ i - 1 # m + 1 /\ i \in 0..(m + 1)
          OBVIOUS
    <3>2. h[i - 1] = g[i - 1]
          BY <3>1
    <3>3. CASE i = m + 1
      <4>1. h[i] = last /\ i - 1 = m
            BY <3>3
      <4> QED BY <4>1, <3>2, <3>3
    <3>4. CASE i # m + 1
      <4>1. i \in 1..m /\ h[i] = g[i]
            BY <3>4
      <4> QED BY <4>1, <3>2, <2>1
    <3> QED BY <3>3, <3>4
  <2> HIDE DEF h
  <2>4. TextRun(write, node, m + 1, h)
        BY <2>2, <2>3
  <2> QED BY <2>4
<1>3. Nat \subseteq T
  <2> HIDE DEF T
  <2> QED BY <1>1, <1>2, Induction
<1> QED BY <1>3

Bracketed(node, body) ==
    IF node.type = "object" THEN <<Tok("{")>> \o body \o <<Tok("}")>>
    ELSE <<Tok("[")>> \o body \o <<Tok("]")>>

LEMMA TextIs ==
    ASSUME NEW write, NEW node, Len(node.vec) \in Nat
    PROVE  \E g : TextRun(write, node, Len(node.vec), g)
                  /\ WriteList(write, node) = Bracketed(node, g[Len(node.vec)])
<1> DEFINE n == Len(node.vec)
           First(f) == f = [i \in 0..n |->
                              IF i = 0 THEN <<>> ELSE f[i - 1] \o Comma(i) \o Name(node, i) \o write[node.vec[i]]]
           Is(f) == f = [i \in 0..n |-> IF i = 0 THEN <<>> ELSE Member(write, node, i, f[i - 1])]
           text == CHOOSE f : First(f)
<1>1. PICK g : TextRun(write, node, n, g)
  <2> HIDE DEF n
  <2> QED BY TextRunExists DEF n
<1> DEFINE h == [i \in 0..n |-> g[i]]
<1>2. Is(h)
  <2>1. ASSUME NEW i \in 0..n PROVE h[i] = IF i = 0 THEN <<>> ELSE Member(write, node, i, h[i - 1])
    <3>1. CASE i = 0
          BY <1>1, <3>1 DEF TextRun
    <3>2. CASE i # 0
      <4>1. i \in 1..n /\ i - 1 \in 0..n
            BY <3>2
      <4>2. g[i] = Member(write, node, i, g[i - 1])
            BY <1>1, <4>1 DEF TextRun
      <4>3. h[i] = g[i] /\ h[i - 1] = g[i - 1]
            BY <4>1
      <4> QED BY <3>2, <4>2, <4>3
    <3> QED BY <3>1, <3>2
  <2>2. h = [i \in 0..n |-> h[i]]
        OBVIOUS
  <2> HIDE DEF h, n
  <2> QED BY <2>1, <2>2
<1>3. First(h)
      BY <1>2 DEF Member
<1>4. First(text)
  <2> HIDE DEF First, h
  <2> QED BY <1>3
<1>5. Is(text)
  <2> HIDE DEF text
  <2> QED BY <1>4 DEF Member
<1>6. WriteList(write, node) = Bracketed(node, text[n])
      BY DEF WriteList, Bracketed, Comma, Name
<1> HIDE DEF text, First
<1>7. TextRun(write, node, n, text)
  <2>1. \A i \in 0..n : text[i] = IF i = 0 THEN <<>> ELSE Member(write, node, i, text[i - 1])
    <3> HIDE DEF n
    <3> QED BY <1>5
  <2>2. 0 \in 0..n /\ \A i \in 1..n : i \in 0..n /\ i # 0
        OBVIOUS
  <2> HIDE DEF n
  <2> QED BY <2>1, <2>2 DEF TextRun
<1> QED BY <1>6, <1>7

\* The reader takes a symbol at a time.
NextToken(s, t, i, u) == ReadSymbol(u, t[i])
ReadRun(s, t, n, g) == g[0] = s /\ \A i \in 1..n : g[i] = NextToken(s, t, i, g[i - 1])

LEMMA ReadRunExists ==
    ASSUME NEW s, NEW t, NEW n \in Nat
    PROVE  \E g : ReadRun(s, t, n, g)
<1> USE DEF ReadRun
<1> DEFINE T == {m \in Nat : \E g : ReadRun(s, t, m, g)}
<1>1. 0 \in T
  <2>1. ReadRun(s, t, 0, [i \in 0..0 |-> s])
        OBVIOUS
  <2> HIDE DEF ReadRun
  <2> QED BY <2>1
<1>2. ASSUME NEW m \in Nat, m \in T PROVE m + 1 \in T
  <2>1. PICK g : ReadRun(s, t, m, g)
        BY <1>2
  <2> DEFINE last == NextToken(s, t, m + 1, g[m])
             h == [i \in 0..(m + 1) |-> IF i = m + 1 THEN last ELSE g[i]]
  <2>2. h[0] = s
        BY <2>1
  <2>3. ASSUME NEW i \in 1..(m + 1) PROVE h[i] = NextToken(s, t, i, h[i - 1])
    <3>1. i - 1 \in 0..m /\ i - 1 # m + 1 /\ i \in 0..(m + 1)
          OBVIOUS
    <3>2. h[i - 1] = g[i - 1]
          BY <3>1
    <3>3. CASE i = m + 1
      <4>1. h[i] = last /\ i - 1 = m
            BY <3>3
      <4> QED BY <4>1, <3>2, <3>3
    <3>4. CASE i # m + 1
      <4>1. i \in 1..m /\ h[i] = g[i]
            BY <3>4
      <4> QED BY <4>1, <3>2, <2>1
    <3> QED BY <3>3, <3>4
  <2> HIDE DEF h
  <2>4. ReadRun(s, t, m + 1, h)
        BY <2>2, <2>3
  <2> QED BY <2>4
<1>3. Nat \subseteq T
  <2> HIDE DEF T
  <2> QED BY <1>1, <1>2, Induction
<1> QED BY <1>3

LEMMA ParseIs ==
    ASSUME NEW s, NEW t, Len(t) \in Nat, NEW g, ReadRun(s, t, Len(t), g)
    PROVE  Parse(s, t) = g[Len(t)]
<1> DEFINE n == Len(t)
           Is(f) == f = [i \in 0..n |-> IF i = 0 THEN s ELSE ReadSymbol(f[i - 1], t[i])]
           run == CHOOSE f : Is(f)
           h == [i \in 0..n |-> g[i]]
<1>1. Is(h)
  <2>1. ASSUME NEW i \in 0..n PROVE h[i] = IF i = 0 THEN s ELSE ReadSymbol(h[i - 1], t[i])
    <3>1. CASE i = 0
          BY <3>1 DEF ReadRun
    <3>2. CASE i # 0
      <4>1. i \in 1..n /\ i - 1 \in 0..n
            BY <3>2
      <4>2. g[i] = ReadSymbol(g[i - 1], t[i])
            BY <4>1 DEF ReadRun, NextToken
      <4>3. h[i] = g[i] /\ h[i - 1] = g[i - 1]
            BY <4>1
      <4> QED BY <3>2, <4>2, <4>3
    <3> QED BY <3>1, <3>2
  <2>2. h = [i \in 0..n |-> h[i]]
        OBVIOUS
  <2> HIDE DEF h, n
  <2> QED BY <2>1, <2>2
<1>2. Is(run)
  <2> HIDE DEF Is, h
  <2> QED BY <1>1
<1>3. Parse(s, t) = run[n]
      BY DEF Parse
<1> HIDE DEF run
<1>4. \A i \in 0..n : run[i] = IF i = 0 THEN s ELSE ReadSymbol(run[i - 1], t[i])
  <2> HIDE DEF n
  <2> QED BY <1>2
<1>5. Alike(n, run, g)
  <2>1. 0 \in 0..n /\ \A i \in 1..n : i \in 0..n /\ i # 0
        BY DEF n
  <2>2. run[0] = g[0]
        BY <1>4, <2>1 DEF ReadRun
  <2>3. \A i \in 1..n : run[i] = ReadSymbol(run[i - 1], t[i]) /\ g[i] = ReadSymbol(g[i - 1], t[i])
        BY <1>4, <2>1 DEF ReadRun, NextToken
  <2> HIDE DEF n
  <2> QED BY <2>2, <2>3 DEF Alike
<1>6. n \in 0..n /\ n \in Nat
      BY DEF n
<1>7. run[n] = g[n]
  <2> HIDE DEF n
  <2> QED BY <1>5, <1>6, SameRun
<1> QED BY <1>3, <1>7

LEMMA ParseJoint ==
    ASSUME NEW s, NEW S, NEW x \in Seq(S), NEW y \in Seq(S)
    PROVE  Parse(s, Joint(x, y)) = Parse(Parse(s, x), y)
<1> DEFINE a == Len(x)
           b == Len(y)
           z == Joint(x, y)
<1>1. a \in Nat /\ b \in Nat
      OBVIOUS
<1>2. Len(z) = a + b /\ (\A i \in 1..a : z[i] = x[i]) /\ \A i \in 1..b : z[a + i] = y[i]
  <2>1. Len(z) = a + b /\ \A i \in 1..a : z[i] = x[i]
        BY JointLen
  <2>2. \A i \in 1..b : z[a + i] = y[i]
        BY JointAt
  <2> QED BY <2>1, <2>2
<1>3. PICK g : ReadRun(s, x, a, g)
      BY <1>1, ReadRunExists
<1>4. Parse(s, x) = g[a]
      BY <1>1, <1>3, ParseIs
<1>5. PICK h : ReadRun(g[a], y, b, h)
      BY <1>1, ReadRunExists
<1>6. Parse(g[a], y) = h[b]
      BY <1>1, <1>5, ParseIs
<1> DEFINE f == [i \in 0..(a + b) |-> IF i <= a THEN g[i] ELSE h[i - a]]
<1> HIDE DEF a, b, z
<1>7. h[0] = g[a]
      BY <1>5 DEF ReadRun
<1>8. ReadRun(s, z, a + b, f)
  <2>1. f[0] = s
        BY <1>1, <1>3 DEF ReadRun
  <2>2. ASSUME NEW i \in 1..(a + b) PROVE f[i] = ReadSymbol(f[i - 1], z[i])
    <3>1. CASE i <= a
      <4>1. i \in 1..a /\ f[i] = g[i] /\ f[i - 1] = g[i - 1]
            BY <1>1, <3>1
      <4> QED BY <1>2, <1>3, <4>1 DEF ReadRun, NextToken
    <3>2. CASE i > a
      <4> DEFINE j == i - a
      <4>1. j \in 1..b /\ a + j = i /\ f[i] = h[j]
            BY <1>1, <3>2
      <4>2. h[j] = ReadSymbol(h[j - 1], y[j]) /\ z[i] = y[j]
        <5> HIDE DEF j
        <5> QED BY <1>2, <1>5, <4>1 DEF ReadRun, NextToken
      <4>3. f[i - 1] = h[j - 1]
        <5>1. CASE i - 1 = a
          <6>1. f[i - 1] = g[a] /\ j - 1 = 0
                BY <1>1, <5>1
          <6> QED BY <1>7, <6>1
        <5>2. CASE i - 1 # a
          <6>1. (i - 1) - a = j - 1 /\ f[i - 1] = h[(i - 1) - a]
                BY <1>1, <3>2, <5>2
          <6> QED BY <6>1
        <5> QED BY <5>1, <5>2
      <4> QED BY <4>1, <4>2, <4>3
    <3> QED BY <1>1, <3>1, <3>2
  <2> HIDE DEF f
  <2> QED BY <2>1, <2>2 DEF ReadRun, NextToken
<1>9. f[a + b] = h[b]
  <2>1. CASE b = 0
    <3>1. f[a + b] = g[a]
          BY <1>1, <2>1
    <3> QED BY <1>7, <2>1, <3>1
  <2>2. CASE b # 0
    <3>1. a + b > a /\ (a + b) - a = b /\ a + b \in 0..(a + b)
          BY <1>1, <2>2
    <3> QED BY <1>1, <3>1
  <2> QED BY <2>1, <2>2
<1>10. Parse(s, z) = f[a + b]
  <2> HIDE DEF f
  <2> QED BY <1>1, <1>2, <1>8, ParseIs
<1> QED BY <1>4, <1>6, <1>9, <1>10 DEF z

LEMMA ParseOne ==
    ASSUME NEW s, NEW x
    PROVE  Parse(s, <<x>>) = ReadSymbol(s, x) /\ Parse(s, <<>>) = s
<1> DEFINE f == [i \in 0..1 |-> IF i = 0 THEN s ELSE ReadSymbol(s, x)]
           t == <<x>>
           e == <<>>
<1>1. ReadRun(s, t, 1, f) /\ f[1] = ReadSymbol(s, x) /\ Len(t) = 1
      BY DEF ReadRun, NextToken
<1>2. ReadRun(s, e, 0, f) /\ f[0] = s /\ Len(e) = 0
      BY DEF ReadRun, NextToken
<1> HIDE DEF f, t, e
<1>3. Parse(s, t) = f[1]
  <2>1. Len(t) \in Nat /\ ReadRun(s, t, Len(t), f)
        BY <1>1
  <2> QED BY <1>1, <2>1, ParseIs
<1>4. Parse(s, e) = f[0]
  <2>1. Len(e) \in Nat /\ ReadRun(s, e, Len(e), f)
        BY <1>2
  <2> QED BY <1>2, <2>1, ParseIs
<1> QED BY <1>1, <1>2, <1>3, <1>4 DEF t, e

\* Where no symbol changes the reader, no text does.
LEMMA Stays ==
    ASSUME NEW s, NEW t, Len(t) \in Nat, \A i \in 1..Len(t) : ReadSymbol(s, t[i]) = s
    PROVE  Parse(s, t) = s
<1> DEFINE g == [i \in 0..Len(t) |-> s]
<1>1. ReadRun(s, t, Len(t), g)
      BY DEF ReadRun, NextToken
<1>2. g[Len(t)] = s
      OBVIOUS
<1> HIDE DEF g
<1> QED BY <1>1, <1>2, ParseIs

-----------------------------------------------------------------------------
(***************************************************************************)
(* The tokens and the states of the reader.                                *)
(***************************************************************************)
Types == Atoms \cup {"string", "array", "object"}
Nexts == {"json", "value", "elements", "members", "pair", "colon", "more", "end", "fail"}
PlainLeaves == LeavesOf(Plain, Doubles)
CarriedLeaves == LeavesOf(CarriedStrings, CarriedDoubles)
Lists(S) == ListsOf(S, Plain)
Trees(k) == PlainNodes[k]
Kept(k) == CarriedNodes[k]
AnyNode == UNION {Trees(k) : k \in 0..Nesting}
OpenNode == [type : Types, val : Int, str : Seq(Symbol), mapOrder : Seq(Plain), vec : Seq(AnyNode)]
Reader ==
    [stack : Seq(OpenNode), names : Seq(Plain), root : OpenNode, next : Nexts, lexeme : {<<>>}]

\* A value may come: inside an array, or after the name of a member.
Ready(s) ==
    /\ s \in Reader /\ s.stack # <<>> /\ s.next \in {"value", "elements"}
    /\ Last(s.stack).type \in {"array", "object"}
    /\ Last(s.stack).type = "object" => s.names # <<>>

\* The reader inside a node m of its own.
Open(s, m, next) == [s EXCEPT !.stack = Append(@, m), !.next = next]
Named(s, key) == [s EXCEPT !.names = Append(@, key)]

Punctuation == {"{", "}", "[", "]", ":", ","}

LEMMA TokIs ==
    /\ \A t \in Punctuation \cup {"letter"} : Tok(t) \in Symbol /\ Tok(t) # Mark /\ Tok(t).t = t
    /\ Mark \in Symbol /\ \A t \in Atoms, v \in Int : Token(t, v) \in Symbol /\ Token(t, v) # Mark
<1> USE DEF Tok, Token, Symbol, Mark
<1>1. ASSUME NEW t \in Punctuation \cup {"letter"}
      PROVE  Tok(t) \in Symbol /\ Tok(t) # Mark /\ Tok(t).t = t
  <2>1. Tok(t).t = t
        OBVIOUS
  <2>3. Tok(t) \in Symbol
    <3>1. t \in Kinds
          BY DEF Punctuation, Kinds
    <3> HIDE DEF Mark
    <3> QED BY <3>1
  <2>2. Mark.t = "mark" /\ t # "mark"
        BY DEF Punctuation
  <2> QED BY <2>1, <2>2, <2>3
<1>2. Mark \in Symbol
      BY DEF Kinds
<1>3. ASSUME NEW t \in Atoms, NEW v \in Int
      PROVE  Token(t, v) \in Symbol /\ Token(t, v) # Mark
  <2>1. Token(t, v).t = t /\ Token(t, v) \in Symbol
        BY DEF Kinds
  <2>2. Mark.t = "mark" /\ t # "mark"
        BY DEF Atoms
  <2> QED BY <2>1, <2>2
<1> QED BY <1>1, <1>2, <1>3

\* After the end of the object, and after a failure, the reader does not change.
Failed(u) == u.next = "fail"

LEMMA Settled ==
    ASSUME NEW u, Parsed(u) \/ Failed(u), NEW t \in Seq(Symbol)
    PROVE  Parse(u, t) = u
<1>1. ASSUME NEW x PROVE ReadSymbol(u, x) = u
      BY DEF ReadSymbol, Parsed, Failed
<1>2. Len(t) \in Nat /\ \A i \in 1..Len(t) : ReadSymbol(u, t[i]) = u
      BY <1>1
<1> QED BY <1>2, Stays

\* Outside a string a symbol is a token.
LEMMA ReadOutside ==
    ASSUME NEW s, s.lexeme = <<>>, s.next \notin {"end", "fail"}, NEW x, x # Mark
    PROVE  ReadSymbol(s, x) = Step(s, x)
BY DEF ReadSymbol

\* A string without a quotation mark is a token too.
LEMMA QuotedIs ==
    ASSUME NEW c \in Plain
    PROVE  /\ c \in Seq(Symbol) /\ <<Mark>> \in Seq(Symbol) /\ Quoted(c) \in Seq(Symbol)
           /\ Joint(<<Mark>>, c) \in Seq(Symbol) /\ Quoted(c) = Joint(Joint(<<Mark>>, c), <<Mark>>)
<1> DEFINE m == <<Mark>>
<1>1. Mark \in Symbol
      BY TokIs
<1>2. c \in Seq(Symbol) /\ m \in Seq(Symbol)
  <2>1. \A x \in Symbol \ {Mark} : x \in Symbol
        OBVIOUS
  <2> QED BY <1>1, <2>1 DEF Plain
<1> HIDE DEF m
<1>3. Joint(m, c) \in Seq(Symbol)
      BY <1>2, JointLen
<1>4. Joint(Joint(m, c), m) \in Seq(Symbol)
      BY <1>2, <1>3, JointLen
<1>5. Quoted(c) = Joint(Joint(m, c), m)
      BY DEF Quoted, Joint, m
<1> QED BY <1>2, <1>3, <1>4, <1>5 DEF m

LEMMA ReadQuoted ==
    ASSUME NEW s \in Reader, s.next \notin {"end", "fail"}, NEW c \in Plain
    PROVE  Parse(s, Quoted(c)) = Step(s, Token("string", c))
<1> DEFINE m == <<Mark>>
           q == Joint(m, c)
           In(d) == [s EXCEPT !.lexeme = Joint(m, d)]
           g == [i \in 0..Len(c) |-> In(SubSeq(c, 1, i))]
<1>1. c \in Seq(Symbol) /\ m \in Seq(Symbol) /\ q \in Seq(Symbol) /\ Len(c) \in Nat
      BY QuotedIs
<1>2. \A d \in Seq(Symbol) :
          /\ In(d).next = s.next /\ In(d).lexeme = Joint(m, d) /\ Joint(m, d) # <<>>
          /\ Tail(Joint(m, d)) = d
  <2> SUFFICES ASSUME NEW d \in Seq(Symbol)
               PROVE  /\ In(d).next = s.next /\ In(d).lexeme = Joint(m, d) /\ Joint(m, d) # <<>>
                      /\ Tail(Joint(m, d)) = d
      OBVIOUS
  <2>1. In(d).next = s.next /\ In(d).lexeme = Joint(m, d)
        BY DEF Reader
  <2> DEFINE j == Joint(m, d)
  <2>2. Len(m) = 1
        OBVIOUS
  <2>3. j \in Seq(Symbol) /\ Len(j) = 1 + Len(d) /\ \A i \in 1..Len(d) : j[1 + i] = d[i]
    <3> HIDE DEF m
    <3>1. j \in Seq(Symbol) /\ Len(j) = Len(m) + Len(d)
          BY <1>1, JointLen
    <3>2. \A i \in 1..Len(d) : j[Len(m) + i] = d[i]
          BY <1>1, JointAt
    <3> QED BY <2>2, <3>1, <3>2
  <2> HIDE DEF j
  <2>4. j # <<>>
        BY <2>3
  <2>5. Tail(j) = d
    <3>1. Tail(j) \in Seq(Symbol) /\ Len(Tail(j)) = Len(d) /\ \A i \in 1..Len(d) : Tail(j)[i] = j[1 + i]
          BY <2>3, <2>4
    <3>2. \A i \in 1..Len(Tail(j)) : Tail(j)[i] = d[i]
          BY <2>3, <3>1
    <3> DEFINE tail == Tail(j)
    <3> HIDE DEF tail
    <3>3. tail = d
          BY <3>1, <3>2, SeqEqual DEF tail
    <3> QED BY <3>3 DEF tail
  <2> QED BY <2>1, <2>4, <2>5 DEF j
<1>3. Parse(s, m) = In(<<>>)
  <2>1. Parse(s, m) = ReadSymbol(s, Mark)
        BY ParseOne
  <2>2. ReadSymbol(s, Mark) = [s EXCEPT !.lexeme = <<Mark>>]
        BY DEF ReadSymbol, Reader
  <2>3. Joint(m, <<>>) = m
        BY DEF Joint
  <2> QED BY <2>1, <2>2, <2>3
<1>4. ASSUME NEW d \in Seq(Symbol), NEW x, x # Mark PROVE ReadSymbol(In(d), x) = In(Append(d, x))
  <2> DEFINE u == In(d)
  <2>1. u.lexeme # <<>> /\ u.lexeme = Joint(m, d) /\ u.next \notin {"end", "fail"}
        BY <1>2
  <2>2. ReadSymbol(u, x) = [u EXCEPT !.lexeme = Append(Joint(m, d), x)]
    <3> HIDE DEF u
    <3> QED BY <1>4, <2>1 DEF ReadSymbol
  <2>3. [u EXCEPT !.lexeme = Append(Joint(m, d), x)] = [s EXCEPT !.lexeme = Append(Joint(m, d), x)]
        BY DEF Reader
  <2>4. Append(Joint(m, d), x) = Joint(m, Append(d, x))
    <3> DEFINE e == <<x>>
               k == Joint(m, d)
    <3>1. Append(k, x) = Joint(k, e) /\ Append(d, x) = Joint(d, e) /\ e \in Seq({x} \cup Symbol)
      <4>1. k \in Seq(Symbol)
        <5> HIDE DEF m
        <5> QED BY <1>1, JointLen
      <4> HIDE DEF k
      <4> QED BY <4>1 DEF Joint
    <3>2. m \in Seq({x} \cup Symbol) /\ d \in Seq({x} \cup Symbol)
      <4>1. \A y \in Symbol : y \in {x} \cup Symbol
            OBVIOUS
      <4> HIDE DEF m
      <4> QED BY <1>1, <4>1
    <3> HIDE DEF m, e
    <3>3. Joint(Joint(m, d), e) = Joint(m, Joint(d, e))
          BY <3>1, <3>2, JointIs
    <3> QED BY <3>1, <3>3
  <2> QED BY <2>2, <2>3, <2>4
<1>5. Parse(In(<<>>), c) = In(c)
  <2>1. g[0] = In(<<>>) /\ g[Len(c)] = In(c)
    <3>1. SubSeq(c, 1, 0) = <<>> /\ SubSeq(c, 1, Len(c)) = c
          BY <1>1
    <3>2. g[0] = In(SubSeq(c, 1, 0)) /\ g[Len(c)] = In(SubSeq(c, 1, Len(c)))
          BY <1>1
    <3> HIDE DEF g, In
    <3> QED BY <3>1, <3>2
  <2>2. ASSUME NEW i \in 1..Len(c) PROVE g[i] = ReadSymbol(g[i - 1], c[i])
    <3> DEFINE d == SubSeq(c, 1, i - 1)
    <3>1. i - 1 \in 0..Len(c) /\ d \in Seq(Symbol) /\ c[i] # Mark
      <4>1. d \in Seq(Symbol) /\ i - 1 \in 0..Len(c)
            BY <1>1
      <4>2. c[i] \in Symbol \ {Mark}
            BY DEF Plain
      <4> QED BY <4>1, <4>2
    <3>2. Append(d, c[i]) = SubSeq(c, 1, i)
      <4> DEFINE x == Append(d, c[i])
                 y == SubSeq(c, 1, i)
      <4>1. /\ y \in Seq(Symbol) /\ Len(y) = i /\ \A j \in 1..i : y[j] = c[j]
            /\ d \in Seq(Symbol) /\ Len(d) = i - 1 /\ \A j \in 1..(i - 1) : d[j] = c[j]
            BY <1>1
      <4>2. c[i] \in Symbol
            BY <1>1
      <4> HIDE DEF d, y
      <4>3. x \in Seq(Symbol) /\ Len(x) = i /\ \A j \in 1..i : x[j] = c[j]
            BY <4>1, <4>2
      <4> HIDE DEF x
      <4>4. x = y
            BY <4>1, <4>3, SeqEqual
      <4> QED BY <4>4 DEF x, y
    <3>3. g[i] = In(SubSeq(c, 1, i)) /\ g[i - 1] = In(d)
          BY <3>1
    <3> HIDE DEF d, g, In
    <3> QED BY <1>4, <3>1, <3>2, <3>3
  <2>3. ReadRun(In(<<>>), c, Len(c), g)
    <3> HIDE DEF g, In
    <3> QED BY <2>1, <2>2 DEF ReadRun, NextToken
  <2> HIDE DEF g, In
  <2> QED BY <1>1, <2>1, <2>3, ParseIs
<1>6. Parse(In(c), m) = Step(s, Token("string", c))
  <2> DEFINE u == In(c)
  <2>1. u.lexeme # <<>> /\ Tail(u.lexeme) = c /\ u.next \notin {"end", "fail"}
        BY <1>1, <1>2
  <2>2. ReadSymbol(u, Mark) = Step([u EXCEPT !.lexeme = <<>>], Token("string", c))
    <3> HIDE DEF u
    <3> QED BY <2>1 DEF ReadSymbol
  <2>3. [u EXCEPT !.lexeme = <<>>] = s
        BY DEF Reader
  <2>4. Parse(u, m) = ReadSymbol(u, Mark)
    <3> HIDE DEF u
    <3> QED BY ParseOne
  <2> QED BY <2>2, <2>3, <2>4
<1> HIDE DEF In, m
<1>7. Parse(s, q) = In(c)
  <2>1. Parse(s, Joint(m, c)) = Parse(Parse(s, m), c)
        BY <1>1, ParseJoint
  <2> QED BY <1>3, <1>5, <2>1
<1> HIDE DEF q
<1>8. Parse(s, Joint(q, m)) = Parse(Parse(s, q), m)
      BY <1>1, ParseJoint
<1>9. Quoted(c) = Joint(q, m)
      BY QuotedIs DEF q, m
<1> QED BY <1>6, <1>7, <1>8, <1>9

LEMMA LastFront ==
    ASSUME NEW S, NEW q \in Seq(S), NEW m
    PROVE  Last(Append(q, m)) = m /\ Front(Append(q, m)) = q /\ Append(q, m) # <<>>
<1>1. Len(Append(q, m)) = Len(q) + 1 /\ Append(q, m)[Len(q) + 1] = m
      OBVIOUS
<1>2. Last(Append(q, m)) = m /\ Append(q, m) # <<>>
      BY <1>1 DEF Last
<1>3. Front(Append(q, m)) = q
  <2>1. Front(Append(q, m)) = SubSeq(Append(q, m), 1, Len(q))
        BY <1>1 DEF Front
  <2>2. SubSeq(Append(q, m), 1, Len(q)) = [i \in 1..Len(q) |-> q[i]]
        OBVIOUS
  <2> QED BY <2>1, <2>2
<1> QED BY <1>2, <1>3

LEMMA NewShape ==
    ASSUME NEW type \in Types
    PROVE  New(type) \in OpenNode /\ New(type).type = type
<1>1. <<>> \in Seq(Plain) /\ <<>> \in Seq(AnyNode)
      OBVIOUS
<1> QED BY <1>1 DEF New, OpenNode

Opened(s, m, next, u) ==
    /\ u \in Reader /\ u.next = next /\ u.stack # <<>> /\ u.names = s.names /\ u.root = s.root
    /\ Last(u.stack) = m /\ Front(u.stack) = s.stack

LEMMA OpenIs ==
    ASSUME NEW s \in Reader, NEW m \in OpenNode, NEW next \in Nexts
    PROVE  Opened(s, m, next, Open(s, m, next))
<1> SUFFICES ASSUME NEW u, u = Open(s, m, next) PROVE Opened(s, m, next, u)
    OBVIOUS
<1>1. u = [stack |-> Append(s.stack, m), names |-> s.names, root |-> s.root, next |-> next,
           lexeme |-> <<>>]
      BY DEF Open, Reader
<1>2. s.stack \in Seq(OpenNode) /\ s.names \in Seq(Plain) /\ s.root \in OpenNode
      BY DEF Reader
<1>3. Append(s.stack, m) \in Seq(OpenNode)
      BY <1>2
<1>4. Last(Append(s.stack, m)) = m /\ Front(Append(s.stack, m)) = s.stack /\ Append(s.stack, m) # <<>>
      BY <1>2, LastFront
<1> QED BY <1>1, <1>2, <1>3, <1>4 DEF Reader, Opened

LEMMA StepOpen ==
    ASSUME NEW s, Ready(s)
    PROVE  /\ Step(s, Tok("{")) = Open(s, New("object"), "members")
           /\ Step(s, Tok("[")) = Open(s, New("array"), "elements")
<1>1. s \in Reader /\ s.next \in {"value", "elements"} /\ Last(s.stack).type # "null"
      BY DEF Ready
<1>2. /\ Step(s, Tok("{")) = Begin(s, "object", "members")
      /\ Step(s, Tok("[")) = Begin(s, "array", "elements")
      BY <1>1 DEF Step, Tok, Token, Atoms
<1>3. /\ Begin(s, "object", "members") = Open(s, New("object"), "members")
      /\ Begin(s, "array", "elements") = Open(s, New("array"), "elements")
  <2> USE <1>1 DEF Begin, Open, Reader
  <2>1. Begin(s, "object", "members") = Open(s, New("object"), "members")
        OBVIOUS
  <2>2. Begin(s, "array", "elements") = Open(s, New("array"), "elements")
        OBVIOUS
  <2> QED BY <2>1, <2>2
<1> QED BY <1>2, <1>3

LEMMA StepLeaf ==
    ASSUME NEW s, Ready(s)
    PROVE  /\ \A t \in Atoms : \A v : Step(s, Token(t, v)) = SetData(s, Leaf(t, v))
           /\ \A c : Step(s, Token("string", c)) = SetData(s, Str(c))
<1>1. s.next \in {"value", "elements"}
      BY DEF Ready
<1>2. ASSUME NEW t \in Atoms, NEW v PROVE Step(s, Token(t, v)) = SetData(s, Leaf(t, v))
      BY <1>1 DEF Step, Token, Atoms
<1>3. ASSUME NEW c PROVE Step(s, Token("string", c)) = SetData(s, Str(c))
      BY <1>1 DEF Step, Token, Atoms
<1> QED BY <1>2, <1>3

LEMMA StepComma ==
    ASSUME NEW s \in Reader, NEW m \in OpenNode
    PROVE  Step(Open(s, m, "more"), Tok(","))
               = Open(s, m, IF m.type = "object" THEN "pair" ELSE "value")
<1> DEFINE u == Open(s, m, "more")
           next == IF m.type = "object" THEN "pair" ELSE "value"
<1>1. u.next = "more" /\ Last(u.stack) = m
  <2>1. Opened(s, m, "more", u)
        BY OpenIs DEF Nexts
  <2> QED BY <2>1 DEF Opened
<1>2. [u EXCEPT !.next = next] = Open(s, m, next)
      BY DEF Open, Reader
<1> HIDE DEF u
<1>3. Step(u, Tok(",")) = [u EXCEPT !.next = next]
      BY <1>1 DEF Step, Tok, Token, Atoms
<1> QED BY <1>2, <1>3 DEF u

LEMMA StepName ==
    ASSUME NEW s \in Reader, NEW m \in OpenNode, NEW next \in {"members", "pair"}, NEW key \in Plain
    PROVE  Step(Step(Open(s, m, next), Token("string", key)), Tok(":")) = Named(Open(s, m, "value"), key)
<1> DEFINE u == Open(s, m, next)
           w == [u EXCEPT !.names = Append(@, key), !.next = "colon"]
<1>1. u.next = next /\ u \in Reader
  <2>1. Opened(s, m, next, u)
        BY OpenIs DEF Nexts
  <2> QED BY <2>1 DEF Opened
<1>2. [w EXCEPT !.next = "value"] = Named(Open(s, m, "value"), key)
      BY DEF Open, Named, Reader
<1>3. w.next = "colon"
      BY <1>1 DEF Reader
<1> HIDE DEF u
<1>4. Step(u, Token("string", key)) = w
      BY <1>1 DEF Step, Token, Atoms, ObjectKey
<1> HIDE DEF w
<1>5. Step(w, Tok(":")) = [w EXCEPT !.next = "value"]
      BY <1>3 DEF Step, Tok, Token, Atoms
<1> QED BY <1>2, <1>4, <1>5 DEF u

\* A node that is closed goes to the one around it, or is the root.
Closed(s, m) ==
    IF s.stack = <<>> THEN [s EXCEPT !.root = m, !.next = "end"] ELSE SetData(s, m)

LEMMA SetDataNext ==
    ASSUME NEW s \in Reader, NEW m, NEW next
    PROVE  SetData([s EXCEPT !.next = next], m) = SetData(s, m)
<1> DEFINE w == [s EXCEPT !.next = next]
<1>1. w.stack = s.stack /\ w.names = s.names
      BY DEF Reader
<1>2. ASSUME NEW stack, NEW names
      PROVE  [w EXCEPT !.stack = stack, !.names = names, !.next = "more"]
                 = [s EXCEPT !.stack = stack, !.names = names, !.next = "more"]
      BY DEF Reader
<1>3. ASSUME NEW stack
      PROVE  [w EXCEPT !.stack = stack, !.next = "more"] = [s EXCEPT !.stack = stack, !.next = "more"]
      BY DEF Reader
<1> HIDE DEF w
<1>4. CASE Last(s.stack).type = "object"
  <2> DEFINE n == Set(Last(s.stack), Last(s.names), m)
             stack == Append(Front(s.stack), n)
             names == Front(s.names)
  <2>1. SetData(w, m) = [w EXCEPT !.stack = stack, !.names = names, !.next = "more"]
        BY <1>1, <1>4 DEF SetData
  <2>2. SetData(s, m) = [s EXCEPT !.stack = stack, !.names = names, !.next = "more"]
        BY <1>4 DEF SetData
  <2> HIDE DEF stack, names
  <2> QED BY <1>2, <2>1, <2>2 DEF w
<1>5. CASE Last(s.stack).type # "object"
  <2> DEFINE stack == Append(Front(s.stack), Add(Last(s.stack), m))
  <2>1. SetData(w, m) = [w EXCEPT !.stack = stack, !.next = "more"]
        BY <1>1, <1>5 DEF SetData
  <2>2. SetData(s, m) = [s EXCEPT !.stack = stack, !.next = "more"]
        BY <1>5 DEF SetData
  <2> HIDE DEF stack
  <2> QED BY <1>3, <2>1, <2>2 DEF w
<1> QED BY <1>4, <1>5

LEMMA EndIs ==
    ASSUME NEW s \in Reader, NEW m \in OpenNode, NEW next \in Nexts
    PROVE  End(Open(s, m, next)) = Closed(s, m)
<1> DEFINE u == Open(s, m, next)
           rest == [u EXCEPT !.stack = Front(@)]
           left == [s EXCEPT !.next = next]
<1>1. Last(u.stack) = m /\ Front(u.stack) = s.stack /\ u \in Reader
  <2>1. Opened(s, m, next, u)
        BY OpenIs
  <2> QED BY <2>1 DEF Opened
<1>2. rest = left
  <2>1. rest = [u EXCEPT !.stack = s.stack]
        BY <1>1
  <2>2. [u EXCEPT !.stack = s.stack] = left
        BY DEF Open, Reader
  <2> QED BY <2>1, <2>2
<1>3. left.stack = s.stack
      BY DEF Reader
<1>4. SetData(left, m) = SetData(s, m)
      BY SetDataNext
<1>5. [left EXCEPT !.root = m, !.next = "end"] = [s EXCEPT !.root = m, !.next = "end"]
      BY DEF Reader
<1>6. End(u) = IF rest.stack = <<>> THEN [rest EXCEPT !.root = m, !.next = "end"] ELSE SetData(rest, m)
  <2> HIDE DEF u
  <2> QED BY <1>1 DEF End
<1> HIDE DEF u, rest, left
<1>7. End(u) = Closed(s, m)
      BY <1>2, <1>3, <1>4, <1>5, <1>6 DEF Closed
<1> QED BY <1>7 DEF u

LEMMA StepClose ==
    ASSUME NEW s \in Reader, NEW m \in OpenNode, NEW next \in Nexts
    PROVE  /\ m.type = "object" /\ next \in {"members", "more"} =>
                  Step(Open(s, m, next), Tok("}")) = Closed(s, m)
           /\ m.type = "array" /\ next \in {"elements", "more"} =>
                  Step(Open(s, m, next), Tok("]")) = Closed(s, m)
<1> DEFINE u == Open(s, m, next)
<1>1. u.next = next /\ Last(u.stack) = m
  <2>1. Opened(s, m, next, u)
        BY OpenIs
  <2> QED BY <2>1 DEF Opened
<1>2. End(u) = Closed(s, m)
      BY EndIs
<1> HIDE DEF u
<1>3. ASSUME m.type = "object", next \in {"members", "more"} PROVE Step(u, Tok("}")) = End(u)
      BY <1>1, <1>3 DEF Step, Tok, Token, Atoms
<1>4. ASSUME m.type = "array", next \in {"elements", "more"} PROVE Step(u, Tok("]")) = End(u)
      BY <1>1, <1>4 DEF Step, Tok, Token, Atoms
<1> QED BY <1>2, <1>3, <1>4 DEF u

\* What is read inside the node goes to the node.
LEMMA SetArray ==
    ASSUME NEW s \in Reader, NEW m \in OpenNode, m.type = "array", NEW next \in Nexts, NEW x
    PROVE  SetData(Open(s, m, next), x) = Open(s, Add(m, x), "more")
<1> DEFINE u == Open(s, m, next)
           n == Add(m, x)
<1>1. Last(u.stack) = m /\ Front(u.stack) = s.stack
  <2>1. Opened(s, m, next, u)
        BY OpenIs
  <2> QED BY <2>1 DEF Opened
<1>2. SetData(u, x) = [u EXCEPT !.stack = Append(s.stack, n), !.next = "more"]
  <2> HIDE DEF u
  <2> QED BY <1>1 DEF SetData
<1>3. ASSUME NEW n0 PROVE [u EXCEPT !.stack = Append(s.stack, n0), !.next = "more"] = Open(s, n0, "more")
      BY DEF Open, Reader
<1> QED BY <1>2, <1>3

LEMMA SetObject ==
    ASSUME NEW s \in Reader, NEW m \in OpenNode, m.type = "object", NEW next \in Nexts, NEW key \in Plain, NEW x
    PROVE  SetData(Named(Open(s, m, next), key), x) = Open(s, Set(m, key, x), "more")
<1> DEFINE u == Open(s, m, next)
           w == Named(u, key)
           n == Set(m, key, x)
<1>1. Last(u.stack) = m /\ Front(u.stack) = s.stack /\ u \in Reader /\ u.names = s.names
  <2>1. Opened(s, m, next, u)
        BY OpenIs
  <2> QED BY <2>1 DEF Opened
<1>2. w.stack = u.stack /\ w.names = Append(s.names, key)
  <2> HIDE DEF u
  <2> QED BY <1>1 DEF Named, Reader
<1>3. Last(w.names) = key /\ Front(w.names) = s.names
  <2>1. s.names \in Seq(Plain)
        BY DEF Reader
  <2> HIDE DEF w
  <2> QED BY <1>2, <2>1, LastFront
<1>4. SetData(w, x) = [w EXCEPT !.stack = Append(s.stack, n), !.names = s.names, !.next = "more"]
  <2> HIDE DEF u, w
  <2> QED BY <1>1, <1>2, <1>3 DEF SetData
<1>5. ASSUME NEW n0
      PROVE  [w EXCEPT !.stack = Append(s.stack, n0), !.names = s.names, !.next = "more"] = Open(s, n0, "more")
      BY DEF Open, Named, Reader
<1> QED BY <1>4, <1>5

LEMMA NamedIs ==
    ASSUME NEW u \in Reader, NEW key \in Plain
    PROVE  Named(u, key) = [stack |-> u.stack, names |-> Append(u.names, key), root |-> u.root, next |-> u.next, lexeme |-> <<>>]
<1> SUFFICES ASSUME NEW w, w = Named(u, key)
             PROVE  w = [stack |-> u.stack, names |-> Append(u.names, key), root |-> u.root, next |-> u.next, lexeme |-> <<>>]
    OBVIOUS
<1> QED BY DEF Named, Reader

\* Inside an array, and after a name inside an object, a value may come.
LEMMA InsideReady ==
    ASSUME NEW s \in Reader, NEW m \in OpenNode, NEW next \in {"value", "elements"}, NEW key \in Plain
    PROVE  /\ m.type = "array" => Ready(Open(s, m, next))
           /\ m.type = "object" => Ready(Named(Open(s, m, next), key))
<1> DEFINE u == Open(s, m, next)
           w == Named(u, key)
<1>1. /\ Last(u.stack) = m /\ u \in Reader /\ u.names = s.names /\ u.stack # <<>>
      /\ u.next = next
  <2>1. Opened(s, m, next, u)
        BY OpenIs DEF Nexts
  <2> QED BY <2>1 DEF Opened
<1> HIDE DEF u
<1>2. w \in Reader /\ w.stack = u.stack /\ w.names = Append(s.names, key) /\ w.next = next
  <2>1. u.names \in Seq(Plain)
        BY <1>1 DEF Reader
  <2>2. w = [stack |-> u.stack, names |-> Append(u.names, key), root |-> u.root, next |-> u.next, lexeme |-> <<>>]
        BY <1>1, NamedIs
  <2>3. Append(u.names, key) \in Seq(Plain)
        BY <2>1
  <2> QED BY <1>1, <2>2, <2>3 DEF Reader
<1>3. w.names # <<>>
  <2>1. s.names \in Seq(Plain)
        BY DEF Reader
  <2> HIDE DEF w
  <2> QED BY <1>2, <2>1, LastFront
<1>4. m.type = "array" => Ready(u)
      BY <1>1 DEF Ready
<1> HIDE DEF w
<1>5. m.type = "object" => Ready(w)
      BY <1>1, <1>2, <1>3 DEF Ready
<1> QED BY <1>4, <1>5 DEF u, w

-----------------------------------------------------------------------------
(***************************************************************************)
(* A list while it is read: the first members of a node, with values xs.   *)
(***************************************************************************)
Part(node, xs) ==
    [type |-> node.type, val |-> 0, str |-> <<>>,
     mapOrder |-> IF node.type = "object" THEN SubSeq(node.mapOrder, 1, Len(xs)) ELSE <<>>,
     vec |-> xs]

ListNode(S, node) ==
    /\ node.type \in {"array", "object"} /\ node.val = 0 /\ node.str = <<>>
    /\ node.vec \in Seq(S) /\ node.mapOrder \in Seq(Plain)
    /\ node.type = "array" => node.mapOrder = <<>>
    /\ node.type = "object" =>
           /\ Len(node.mapOrder) = Len(node.vec)
           /\ \A i, j \in 1..Len(node.mapOrder) : node.mapOrder[i] = node.mapOrder[j] => i = j
    /\ node = [type |-> node.type, val |-> 0, str |-> <<>>, mapOrder |-> node.mapOrder, vec |-> node.vec]

LEMMA ListIs ==
    ASSUME NEW S, NEW node
    PROVE  node \in Lists(S) <=> ListNode(S, node)
<1>1. ASSUME node \in Lists(S), node.type = "array" PROVE ListNode(S, node)
  <2>1. node \in [type : {"array"}, val : {0}, str : {<<>>}, mapOrder : {<<>>}, vec : Seq(S)]
        BY <1>1 DEF Lists, ListsOf
  <2>2. <<>> \in Seq(Plain)
        OBVIOUS
  <2>3. node.type = "array" /\ node.val = 0 /\ node.str = <<>> /\ node.vec \in Seq(S) /\ node.mapOrder = <<>>
        BY <2>1
  <2>4. node = [type |-> node.type, val |-> 0, str |-> <<>>, mapOrder |-> node.mapOrder, vec |-> node.vec]
        BY <2>1
  <2> QED BY <2>2, <2>3, <2>4 DEF ListNode
<1>2. ASSUME node \in Lists(S), node.type # "array" PROVE ListNode(S, node)
  <2>1. /\ node \in [type : {"object"}, val : {0}, str : {<<>>}, mapOrder : Seq(Plain), vec : Seq(S)]
        /\ Len(node.mapOrder) = Len(node.vec) /\ IsInjective(node.mapOrder)
        BY <1>2 DEF Lists, ListsOf
  <2>2. node.mapOrder \in Seq(Plain) /\ DOMAIN node.mapOrder = 1..Len(node.mapOrder)
        BY <2>1
  <2>3. \A i, j \in 1..Len(node.mapOrder) : node.mapOrder[i] = node.mapOrder[j] => i = j
        BY <2>1, <2>2 DEF IsInjective
  <2> QED BY <2>1, <2>3 DEF ListNode
<1>3. ASSUME ListNode(S, node), node.type = "array" PROVE node \in Lists(S)
  <2>1. node \in [type : {"array"}, val : {0}, str : {<<>>}, mapOrder : {<<>>}, vec : Seq(S)]
        BY <1>3 DEF ListNode
  <2> QED BY <2>1 DEF Lists, ListsOf
<1>4. ASSUME ListNode(S, node), node.type = "object" PROVE node \in Lists(S)
  <2>1. node \in [type : {"object"}, val : {0}, str : {<<>>}, mapOrder : Seq(Plain), vec : Seq(S)]
        BY <1>4 DEF ListNode
  <2>2. DOMAIN node.mapOrder = 1..Len(node.mapOrder)
        BY <2>1
  <2>3. IsInjective(node.mapOrder)
        BY <1>4, <2>2 DEF ListNode, IsInjective
  <2> QED BY <1>4, <2>1, <2>3 DEF Lists, ListsOf, ListNode
<1>5. ListNode(S, node) => node.type \in {"array", "object"}
      BY DEF ListNode
<1> QED BY <1>1, <1>2, <1>3, <1>4, <1>5

LEMMA PartFirst ==
    ASSUME NEW S, NEW node \in Lists(S)
    PROVE  Part(node, <<>>) = New(node.type)
<1>1. node.mapOrder \in Seq(Plain)
      BY ListIs DEF ListNode
<1>2. SubSeq(node.mapOrder, 1, 0) = <<>>
      BY <1>1
<1> QED BY <1>2 DEF Part, New

LEMMA PartShape ==
    ASSUME NEW S, NEW node \in Lists(S), NEW xs \in Seq(AnyNode), Len(xs) <= Len(node.vec)
    PROVE  Part(node, xs) \in OpenNode /\ Part(node, xs).type = node.type /\ Part(node, xs).vec = xs
<1>1. ListNode(S, node)
      BY ListIs
<1>2. SubSeq(node.mapOrder, 1, Len(xs)) \in Seq(Plain) \/ node.type # "object"
  <2>1. CASE node.type = "object"
    <3>1. node.mapOrder \in Seq(Plain) /\ Len(xs) \in Nat /\ Len(xs) <= Len(node.mapOrder)
          BY <1>1, <2>1 DEF ListNode
    <3> QED BY <3>1
  <2> QED BY <2>1
<1>3. <<>> \in Seq(Plain) /\ node.type \in Types
      BY <1>1 DEF ListNode, Types
<1> QED BY <1>2, <1>3 DEF Part, OpenNode

LEMMA ListRecord ==
    ASSUME NEW m, NEW type, NEW o, NEW v, NEW o2, NEW v2,
           m = [type |-> type, val |-> 0, str |-> <<>>, mapOrder |-> o, vec |-> v]
    PROVE  /\ [m EXCEPT !.type = type, !.vec = v2] = [type |-> type, val |-> 0, str |-> <<>>, mapOrder |-> o, vec |-> v2]
           /\ [m EXCEPT !.type = type, !.mapOrder = o2, !.vec = v2]
                  = [type |-> type, val |-> 0, str |-> <<>>, mapOrder |-> o2, vec |-> v2]
<1>1. ASSUME NEW w, w = [m EXCEPT !.type = type, !.vec = v2]
      PROVE  w = [type |-> type, val |-> 0, str |-> <<>>, mapOrder |-> o, vec |-> v2]
      BY <1>1
<1>2. ASSUME NEW w, w = [m EXCEPT !.type = type, !.mapOrder = o2, !.vec = v2]
      PROVE  w = [type |-> type, val |-> 0, str |-> <<>>, mapOrder |-> o2, vec |-> v2]
      BY <1>2
<1> QED BY <1>1, <1>2

LEMMA PartNext ==
    ASSUME NEW S, NEW node \in Lists(S), NEW xs \in Seq(S), NEW x \in S, Len(xs) < Len(node.vec)
    PROVE  /\ node.type = "array" => Add(Part(node, xs), x) = Part(node, Append(xs, x))
           /\ node.type = "object" =>
                  Set(Part(node, xs), node.mapOrder[Len(xs) + 1], x) = Part(node, Append(xs, x))
<1> DEFINE m == Part(node, xs)
           n == Len(xs)
           ys == Append(xs, x)
<1>1. ListNode(S, node)
      BY ListIs
<1>2. n \in Nat /\ ys \in Seq(S) /\ Len(ys) = n + 1
      OBVIOUS
<1>3. ASSUME node.type = "array" PROVE Add(m, x) = Part(node, ys)
  <2>1. m = [type |-> "array", val |-> 0, str |-> <<>>, mapOrder |-> <<>>, vec |-> xs]
        BY <1>3 DEF Part
  <2>2. Part(node, ys) = [type |-> "array", val |-> 0, str |-> <<>>, mapOrder |-> <<>>, vec |-> ys]
        BY <1>3 DEF Part
  <2>3. Add(m, x) = [m EXCEPT !.type = "array", !.vec = ys]
        BY <2>1 DEF Add
  <2> HIDE DEF m, ys
  <2> QED BY <2>1, <2>2, <2>3, ListRecord
<1>4. ASSUME node.type = "object" PROVE Set(m, node.mapOrder[n + 1], x) = Part(node, ys)
  <2> DEFINE o == node.mapOrder
             p == SubSeq(o, 1, n)
             key == o[n + 1]
  <2>1. o \in Seq(Plain) /\ n + 1 \in 1..Len(o) /\ \A i, j \in 1..Len(o) : o[i] = o[j] => i = j
        BY <1>1, <1>2, <1>4 DEF ListNode
  <2>2. p \in Seq(Plain) /\ Len(p) = n /\ DOMAIN p = 1..n /\ \A i \in 1..n : p[i] = o[i]
    <3> HIDE DEF o, n
    <3> QED BY <1>2, <2>1
  <2>3. ASSUME NEW i \in 1..n PROVE p[i] # key
    <3>1. i \in 1..Len(o) /\ i # n + 1
          BY <1>2, <2>1 DEF n
    <3>2. p[i] = o[i]
          BY <2>2
    <3> HIDE DEF o, n, p
    <3> QED BY <2>1, <3>1, <3>2
  <2>4. m.mapOrder = p /\ m.vec = xs
        BY <1>4 DEF Part
  <2>5. ~Has(m, key)
    <3> HIDE DEF m, p, key
    <3> QED BY <2>2, <2>3, <2>4 DEF Has
  <2>6. Append(p, key) = SubSeq(o, 1, n + 1)
    <3> HIDE DEF o, n
    <3>1. Len(SubSeq(o, 1, n + 1)) = n + 1 /\ SubSeq(o, 1, n + 1) \in Seq(Plain)
          BY <1>2, <2>1
    <3>2. \A i \in 1..(n + 1) : SubSeq(o, 1, n + 1)[i] = o[i]
          BY <1>2, <2>1
    <3> HIDE DEF p
    <3>3. Append(p, key) \in Seq(Plain) /\ Len(Append(p, key)) = n + 1
          BY <1>2, <2>1, <2>2
    <3>4. \A i \in 1..(n + 1) : Append(p, key)[i] = o[i]
          BY <1>2, <2>2
    <3> DEFINE a == Append(p, key)
               b == SubSeq(o, 1, n + 1)
    <3> HIDE DEF a, b
    <3>5. Len(a) = Len(b) /\ a \in Seq(Plain) /\ b \in Seq(Plain) /\ \A i \in 1..Len(a) : a[i] = b[i]
          BY <3>1, <3>2, <3>3, <3>4 DEF a, b
    <3>6. a = b
          BY <3>5, SeqEqual
    <3> QED BY <3>6 DEF a, b
  <2>7. Set(m, key, x) = [m EXCEPT !.type = "object", !.mapOrder = Append(p, key), !.vec = ys]
    <3> HIDE DEF m, p, key
    <3> QED BY <2>4, <2>5 DEF Set
  <2>8. Part(node, ys) = [type |-> "object", val |-> 0, str |-> <<>>, mapOrder |-> SubSeq(o, 1, n + 1), vec |-> ys]
        BY <1>2, <1>4 DEF Part
  <2>9. m = [type |-> "object", val |-> 0, str |-> <<>>, mapOrder |-> p, vec |-> xs]
        BY <1>4 DEF Part
  <2>10. Set(m, key, x) = Part(node, ys)
    <3> HIDE DEF m, ys, p, key, o, n
    <3> QED BY <2>6, <2>7, <2>8, <2>9, ListRecord
  <2> QED BY <2>10
<1> QED BY <1>3, <1>4

LEMMA PartLast ==
    ASSUME NEW S, NEW node \in Lists(S), NEW xs \in Seq(S), Len(xs) = Len(node.vec)
    PROVE  Part(node, xs) \in Lists(S) /\ (Part(node, xs) = node <=> xs = node.vec)
<1>1. ListNode(S, node)
      BY ListIs
<1>2. node.type = "object" => SubSeq(node.mapOrder, 1, Len(xs)) = node.mapOrder
  <2> SUFFICES ASSUME node.type = "object" PROVE SubSeq(node.mapOrder, 1, Len(xs)) = node.mapOrder
      OBVIOUS
  <2>1. node.mapOrder \in Seq(Plain) /\ Len(xs) = Len(node.mapOrder)
        BY <1>1 DEF ListNode
  <2> QED BY <2>1
<1>3. Part(node, xs) = [type |-> node.type, val |-> 0, str |-> <<>>, mapOrder |-> node.mapOrder, vec |-> xs]
      BY <1>1, <1>2 DEF Part, ListNode
<1>4. ListNode(S, Part(node, xs))
      BY <1>1, <1>3 DEF ListNode
<1>5. Part(node, xs) \in Lists(S)
      BY <1>4, ListIs
<1>6. Part(node, xs) = node <=> xs = node.vec
      BY <1>1, <1>3 DEF ListNode
<1> QED BY <1>5, <1>6

-----------------------------------------------------------------------------
(***************************************************************************)
(* The nodes by depth, and those whose leaves can be carried.              *)
(***************************************************************************)
LEMMA DeepNodes ==
    ASSUME NEW L, NEW K
    PROVE  /\ NodesOf(L, K)[0] = L
           /\ \A k \in 1..Nesting : NodesOf(L, K)[k] = L \cup ListsOf(NodesOf(L, K)[k - 1], K)
<1>1. NodesRun(L, K, Nesting, NodesOf(L, K))
      BY NodesAre
<1> QED BY <1>1 DEF NodesRun

LEMMA TreesAre ==
    /\ Trees(0) = PlainLeaves /\ Kept(0) = CarriedLeaves
    /\ \A k \in 1..Nesting : /\ Trees(k) = PlainLeaves \cup Lists(Trees(k - 1))
                             /\ Kept(k) = CarriedLeaves \cup Lists(Kept(k - 1))
<1>1. /\ NodesOf(PlainLeaves, Plain)[0] = PlainLeaves
      /\ \A k \in 1..Nesting :
             NodesOf(PlainLeaves, Plain)[k] = PlainLeaves \cup ListsOf(NodesOf(PlainLeaves, Plain)[k - 1], Plain)
      BY DeepNodes
<1>2. /\ NodesOf(CarriedLeaves, Plain)[0] = CarriedLeaves
      /\ \A k \in 1..Nesting :
             NodesOf(CarriedLeaves, Plain)[k]
                 = CarriedLeaves \cup ListsOf(NodesOf(CarriedLeaves, Plain)[k - 1], Plain)
      BY DeepNodes
<1> QED BY <1>1, <1>2 DEF Trees, Kept, Lists, PlainNodes, CarriedNodes, PlainLeaves, CarriedLeaves

LEMMA AllAre ==
    /\ Nodes[0] = Leaves
    /\ \A k \in 1..Nesting : Nodes[k] = Leaves \cup ListsOf(Nodes[k - 1], Seq(Symbol))
BY DeepNodes DEF Nodes

\* The nodes without a quotation mark are nodes.
LEMMA PlainAre ==
    /\ \A c \in Plain : c \in Seq(Symbol)
    /\ \A node \in PlainLeaves : node \in Leaves
    /\ \A k \in 0..Nesting : Trees(k) \subseteq Nodes[k]
<1>1. \A c \in Plain : c \in Seq(Symbol)
      BY QuotedIs
<1>2. \A node \in PlainLeaves : node \in Leaves
      BY <1>1 DEF PlainLeaves, Leaves, LeavesOf
<1> DEFINE T == {k \in Nat : k <= Nesting => Trees(k) \subseteq Nodes[k]}
<1>3. Nesting \in Nat
      BY NestingAssumption
<1>4. 0 \in T
      BY <1>2, TreesAre, AllAre
<1>5. ASSUME NEW l \in Nat, l \in T PROVE l + 1 \in T
  <2> SUFFICES ASSUME l + 1 <= Nesting PROVE Trees(l + 1) \subseteq Nodes[l + 1]
      OBVIOUS
  <2> DEFINE k == l + 1
  <2>1. k \in 1..Nesting /\ k - 1 = l /\ Trees(l) \subseteq Nodes[l]
        BY <1>3, <1>5
  <2> HIDE DEF k
  <2>2. Trees(k) = PlainLeaves \cup ListsOf(Trees(l), Plain) /\ Nodes[k] = Leaves \cup ListsOf(Nodes[l], Seq(Symbol))
        BY <2>1, TreesAre, AllAre DEF Lists
  <2>3. ListsOf(Trees(l), Plain) \subseteq ListsOf(Nodes[l], Seq(Symbol))
    <3>1. \A q \in Seq(Trees(l)) : q \in Seq(Nodes[l])
      <4> DEFINE A == Trees(l)
                 B == Nodes[l]
      <4>1. \A x \in A : x \in B
            BY <2>1
      <4> HIDE DEF A, B
      <4>2. \A q \in Seq(A) : q \in Seq(B)
            BY <4>1
      <4> QED BY <4>2 DEF A, B
    <3>2. \A q \in Seq(Plain) : q \in Seq(Seq(Symbol))
      <4> DEFINE B == Seq(Symbol)
      <4>1. \A x \in Plain : x \in B
            BY <1>1
      <4> HIDE DEF B
      <4>2. \A q \in Seq(Plain) : q \in Seq(B)
            BY <4>1
      <4> QED BY <4>2 DEF B
    <3> QED BY <3>1, <3>2 DEF ListsOf
  <2> QED BY <1>2, <2>2, <2>3 DEF k
<1>6. Nat \subseteq T
  <2> HIDE DEF T
  <2> QED BY <1>4, <1>5, Induction
<1> QED BY <1>1, <1>2, <1>3, <1>6

LEMMA TextsAre ==
    /\ \A node \in PlainLeaves : Write[0][node] = WriteLeaf(node)
    /\ \A k \in 1..Nesting : \A node \in Trees(k) : Write[k][node] = WriteNode(Write[k - 1], node)
<1>1. WriteRun(Nesting, Write)
      BY WriteIs
<1>2. Write[0] = [node \in Leaves |-> WriteLeaf(node)]
      BY <1>1 DEF WriteRun
<1>3. ASSUME NEW k \in 1..Nesting
      PROVE  Write[k] = [node \in Nodes[k] |-> WriteNode(Write[k - 1], node)] /\ Trees(k) \subseteq Nodes[k]
  <2>1. Write[k] = [node \in Nodes[k] |-> WriteNode(Write[k - 1], node)]
        BY <1>1 DEF WriteRun
  <2>2. k \in 0..Nesting
        BY NestingAssumption
  <2> QED BY <2>1, <2>2, PlainAre
<1>4. ASSUME NEW k \in 1..Nesting, NEW node \in Trees(k) PROVE Write[k][node] = WriteNode(Write[k - 1], node)
      BY <1>3
<1>5. ASSUME NEW node \in PlainLeaves PROVE Write[0][node] = WriteLeaf(node)
      BY <1>2, PlainAre
<1> QED BY <1>4, <1>5

LEMMA LeafType ==
    ASSUME NEW S, NEW D, NEW node \in LeavesOf(S, D)
    PROVE  /\ node.type \in Atoms \cup {"string"} /\ node.type \notin {"array", "object"}
           /\ node.type # "string" => node = Leaf(node.type, node.val) /\ node.str = <<>>
           /\ node.type \in {"null", "bool", "int"} => node.val \in Int
           /\ node.type = "double" => node.val \in D
           /\ node.type = "string" => node.str \in S /\ node = Str(node.str)
           /\ node.type = "null" => node.val = 0
           /\ node.type = "bool" => node.val \in {0, 1}
<1> USE DEF Atoms, Leaf, Str, New
<1>1. CASE node \in [type : {"null"}, val : {0}, str : {<<>>}, mapOrder : {<<>>}, vec : {<<>>}]
      BY <1>1
<1>2. CASE node \in [type : {"bool"}, val : {0, 1}, str : {<<>>}, mapOrder : {<<>>}, vec : {<<>>}]
      BY <1>2
<1>3. CASE node \in [type : {"int"}, val : Int, str : {<<>>}, mapOrder : {<<>>}, vec : {<<>>}]
      BY <1>3
<1>4. CASE node \in [type : {"double"}, val : D, str : {<<>>}, mapOrder : {<<>>}, vec : {<<>>}]
      BY <1>4
<1>5. CASE node \in [type : {"string"}, val : {0}, str : S, mapOrder : {<<>>}, vec : {<<>>}]
      BY <1>5
<1> QED BY <1>1, <1>2, <1>3, <1>4, <1>5 DEF LeavesOf

LEMMA LeafIn ==
    ASSUME NEW S, NEW D
    PROVE  /\ New("null") \in LeavesOf(S, D) /\ \A v \in Int : Leaf("int", v) \in LeavesOf(S, D)
           /\ \A v \in {0, 1} : Leaf("bool", v) \in LeavesOf(S, D)
           /\ \A v \in D : Leaf("double", v) \in LeavesOf(S, D)
           /\ \A c \in S : Str(c) \in LeavesOf(S, D)
BY DEF LeavesOf, Leaf, Str, New

LEMMA LeafIs ==
    /\ \A t, v : Leaf(t, v).type = t /\ Leaf(t, v).val = v
    /\ \A c : Str(c).type = "string" /\ Str(c).str = c
BY DEF Leaf, Str, New

\* Which leaves can be carried.
LEMMA CarriedIs ==
    ASSUME NEW node \in PlainLeaves
    PROVE  node \in CarriedLeaves <=> /\ node.type = "string" => node.str \in CarriedStrings
                                      /\ node.type = "double" => node.val \in CarriedDoubles
<1> DEFINE C == LeavesOf(CarriedStrings, CarriedDoubles)
<1>1. node \in LeavesOf(Plain, Doubles)
      BY DEF PlainLeaves
<1>2. node.type \in {"null", "bool", "int", "double", "string"}
      BY <1>1, LeafType DEF Atoms
<1>3. ASSUME node \in C
      PROVE  /\ node.type = "string" => node.str \in CarriedStrings
             /\ node.type = "double" => node.val \in CarriedDoubles
      BY <1>3, LeafType
<1>4. ASSUME node.type = "string" => node.str \in CarriedStrings,
             node.type = "double" => node.val \in CarriedDoubles
      PROVE  node \in C
  <2>1. CASE node.type = "string"
        BY <1>1, <1>4, <2>1, LeafType, LeafIn
  <2>2. CASE node.type = "double"
        BY <1>1, <1>4, <2>2, LeafType, LeafIn
  <2>3. CASE node.type = "bool"
        BY <1>1, <2>3, LeafType, LeafIn
  <2>4. CASE node.type = "int"
        BY <1>1, <2>4, LeafType, LeafIn
  <2>5. CASE node.type = "null"
    <3>1. node = Leaf("null", 0)
          BY <1>1, <2>5, LeafType
    <3>2. Leaf("null", 0) = New("null")
          BY DEF Leaf, New
    <3> QED BY <3>1, <3>2, LeafIn
  <2> QED BY <1>2, <2>1, <2>2, <2>3, <2>4, <2>5
<1> QED BY <1>3, <1>4 DEF CarriedLeaves

\* A sequence is over a set when all its elements are in the set.
LEMMA SeqWithin ==
    ASSUME NEW S, NEW q \in Seq(S), NEW T
    PROVE  q \in Seq(T) <=> \A i \in 1..Len(q) : q[i] \in T
<1>1. q \in Seq(T) => \A i \in 1..Len(q) : q[i] \in T
      OBVIOUS
<1>2. ASSUME \A i \in 1..Len(q) : q[i] \in T PROVE q \in Seq(T)
  <2>1. Len(q) \in Nat /\ q = [i \in 1..Len(q) |-> q[i]]
        OBVIOUS
  <2>2. q \in [1..Len(q) -> T]
        BY <1>2, <2>1
  <2> QED BY <2>1, <2>2
<1> QED BY <1>1, <1>2

LEMMA KeptLeaf ==
    ASSUME NEW node \in PlainLeaves, NEW k \in 0..Nesting
    PROVE  node \in Trees(k) /\ (node \in Kept(k) <=> node \in CarriedLeaves)
<1>1. CASE k = 0
      BY <1>1, TreesAre
<1>2. CASE k # 0
  <2>1. k \in 1..Nesting
        BY <1>2, NestingAssumption
  <2>2. node \in Trees(k) /\ (node \in Kept(k) <=> node \in CarriedLeaves \/ node \in Lists(Kept(k - 1)))
        BY <2>1, TreesAre
  <2>3. node \notin Lists(Kept(k - 1))
    <3>1. node.type \notin {"array", "object"}
          BY LeafType DEF PlainLeaves
    <3>2. ~ListNode(Kept(k - 1), node)
          BY <3>1 DEF ListNode
    <3> QED BY <3>2, ListIs
  <2> QED BY <2>2, <2>3
<1> QED BY <1>1, <1>2

LEMMA KeptList ==
    ASSUME NEW k \in 1..Nesting, NEW node \in Lists(Trees(k - 1))
    PROVE  /\ node \in Trees(k)
           /\ node \in Kept(k) <=> \A j \in 1..Len(node.vec) : node.vec[j] \in Kept(k - 1)
<1>1. ListNode(Trees(k - 1), node)
      BY ListIs
<1>2. node \in Trees(k) /\ (node \in Kept(k) <=> node \in CarriedLeaves \/ node \in Lists(Kept(k - 1)))
      BY TreesAre
<1>3. node \notin CarriedLeaves
  <2>1. node.type \in {"array", "object"}
        BY <1>1 DEF ListNode
  <2> QED BY <2>1, LeafType DEF CarriedLeaves
<1>4. node \in Lists(Kept(k - 1)) <=> node.vec \in Seq(Kept(k - 1))
  <2>1. ListNode(Kept(k - 1), node) <=> node.vec \in Seq(Kept(k - 1))
        BY <1>1 DEF ListNode
  <2> QED BY <2>1, ListIs
<1>5. node.vec \in Seq(Kept(k - 1)) <=> \A j \in 1..Len(node.vec) : node.vec[j] \in Kept(k - 1)
  <2>1. node.vec \in Seq(Trees(k - 1))
        BY <1>1 DEF ListNode
  <2> QED BY <2>1, SeqWithin
<1> QED BY <1>2, <1>3, <1>4, <1>5

-----------------------------------------------------------------------------
(***************************************************************************)
(* Escaping.                                                               *)
(***************************************************************************)
\* A prefix grows by the next element.
LEMMA AppendPrefix ==
    ASSUME NEW S, NEW c \in Seq(S), NEW m \in Nat, m + 1 <= Len(c)
    PROVE  Append(SubSeq(c, 1, m), c[m + 1]) = SubSeq(c, 1, m + 1)
<1> DEFINE d == SubSeq(c, 1, m)
           x == Append(d, c[m + 1])
           y == SubSeq(c, 1, m + 1)
<1>1. /\ y \in Seq(S) /\ Len(y) = m + 1 /\ \A j \in 1..(m + 1) : y[j] = c[j]
      /\ d \in Seq(S) /\ Len(d) = m /\ \A j \in 1..m : d[j] = c[j]
      OBVIOUS
<1>2. c[m + 1] \in S
      OBVIOUS
<1> HIDE DEF d, y
<1>3. x \in Seq(S) /\ Len(x) = m + 1 /\ \A j \in 1..(m + 1) : x[j] = c[j]
      BY <1>1, <1>2
<1> HIDE DEF x
<1>4. x = y
      BY <1>1, <1>3, SeqEqual
<1> QED BY <1>4 DEF d, x, y

Escaped(x) == IF x.t \in {"mark", "apostrophe"} THEN <<Tok("backslash"), x>> ELSE <<x>>
EscapeNext(c, i, text) == text \o Escaped(c[i])
EscapeRun(c, n, g) == g[0] = <<>> /\ \A i \in 1..n : g[i] = EscapeNext(c, i, g[i - 1])

LEMMA EscapeRunExists ==
    ASSUME NEW c, NEW n \in Nat
    PROVE  \E g : EscapeRun(c, n, g)
<1> USE DEF EscapeRun
<1> DEFINE T == {m \in Nat : \E g : EscapeRun(c, m, g)}
<1>1. 0 \in T
  <2>1. EscapeRun(c, 0, [i \in 0..0 |-> <<>>])
        OBVIOUS
  <2> HIDE DEF EscapeRun
  <2> QED BY <2>1
<1>2. ASSUME NEW m \in Nat, m \in T PROVE m + 1 \in T
  <2>1. PICK g : EscapeRun(c, m, g)
        BY <1>2
  <2> DEFINE last == EscapeNext(c, m + 1, g[m])
             h == [i \in 0..(m + 1) |-> IF i = m + 1 THEN last ELSE g[i]]
  <2>2. h[0] = <<>>
        BY <2>1
  <2>3. ASSUME NEW i \in 1..(m + 1) PROVE h[i] = EscapeNext(c, i, h[i - 1])
    <3>1. i - 1 \in 0..m /\ i - 1 # m + 1 /\ i \in 0..(m + 1)
          OBVIOUS
    <3>2. h[i - 1] = g[i - 1]
          BY <3>1
    <3>3. CASE i = m + 1
      <4>1. h[i] = last /\ i - 1 = m
            BY <3>3
      <4> QED BY <4>1, <3>2, <3>3
    <3>4. CASE i # m + 1
      <4>1. i \in 1..m /\ h[i] = g[i]
            BY <3>4
      <4> QED BY <4>1, <3>2, <2>1
    <3> QED BY <3>3, <3>4
  <2> HIDE DEF h
  <2>4. EscapeRun(c, m + 1, h)
        BY <2>2, <2>3
  <2> QED BY <2>4
<1>3. Nat \subseteq T
  <2> HIDE DEF T
  <2> QED BY <1>1, <1>2, Induction
<1> QED BY <1>3

LEMMA EscapeIs ==
    ASSUME NEW c, Len(c) \in Nat
    PROVE  \E g : EscapeRun(c, Len(c), g) /\ EscapeString(c) = g[Len(c)]
<1> DEFINE n == Len(c)
           First(f) == f = [i \in 0..n |-> IF i = 0 THEN <<>> ELSE f[i - 1] \o Escaped(c[i])]
           Is(f) == f = [i \in 0..n |-> IF i = 0 THEN <<>> ELSE EscapeNext(c, i, f[i - 1])]
           text == CHOOSE f : First(f)
<1>1. PICK g : EscapeRun(c, n, g)
  <2> HIDE DEF n
  <2> QED BY EscapeRunExists DEF n
<1> DEFINE h == [i \in 0..n |-> g[i]]
<1>2. Is(h)
  <2>1. ASSUME NEW i \in 0..n PROVE h[i] = IF i = 0 THEN <<>> ELSE EscapeNext(c, i, h[i - 1])
    <3>1. CASE i = 0
          BY <1>1, <3>1 DEF EscapeRun
    <3>2. CASE i # 0
      <4>1. i \in 1..n /\ i - 1 \in 0..n
            BY <3>2
      <4>2. g[i] = EscapeNext(c, i, g[i - 1])
            BY <1>1, <4>1 DEF EscapeRun
      <4>3. h[i] = g[i] /\ h[i - 1] = g[i - 1]
            BY <4>1
      <4> QED BY <3>2, <4>2, <4>3
    <3> QED BY <3>1, <3>2
  <2>2. h = [i \in 0..n |-> h[i]]
        OBVIOUS
  <2> HIDE DEF h, n
  <2> QED BY <2>1, <2>2
<1>3. First(h)
      BY <1>2 DEF EscapeNext
<1>4. First(text)
  <2> HIDE DEF First, h
  <2> QED BY <1>3
<1>5. Is(text)
  <2> HIDE DEF text
  <2> QED BY <1>4 DEF EscapeNext
<1>6. EscapeString(c) = text[n]
      BY DEF EscapeString, Escaped
<1> HIDE DEF text, First
<1>7. EscapeRun(c, n, text)
  <2>1. \A i \in 0..n : text[i] = IF i = 0 THEN <<>> ELSE EscapeNext(c, i, text[i - 1])
    <3> HIDE DEF n
    <3> QED BY <1>5
  <2>2. 0 \in 0..n /\ \A i \in 1..n : i \in 0..n /\ i # 0
        OBVIOUS
  <2> HIDE DEF n
  <2> QED BY <2>1, <2>2 DEF EscapeRun
<1> QED BY <1>6, <1>7

Quotes(x) == x.t \in {"mark", "apostrophe"}

LEMMA EscapedIs ==
    ASSUME NEW S, Tok("backslash") \in S, NEW u \in Seq(S), NEW x \in S
    PROVE  /\ Joint(u, Escaped(x)) \in Seq(S)
           /\ Quotes(x) => Len(Joint(u, Escaped(x))) = Len(u) + 2
           /\ ~Quotes(x) => Joint(u, Escaped(x)) = Append(u, x)
<1> DEFINE b == Tok("backslash")
<1>1. CASE Quotes(x)
  <2>1. Escaped(x) = <<b, x>>
        BY <1>1 DEF Escaped, Quotes
  <2> HIDE DEF b
  <2> DEFINE e == <<b, x>>
  <2>2. e \in Seq(S) /\ Len(e) = 2
        BY DEF b
  <2> HIDE DEF e
  <2>3. Joint(u, e) \in Seq(S) /\ Len(Joint(u, e)) = Len(u) + Len(e)
        BY <2>2, JointLen
  <2>4. Len(Joint(u, e)) = Len(u) + 2
        BY <2>2, <2>3
  <2>5. Joint(u, e) = Joint(u, Escaped(x))
        BY <2>1 DEF e
  <2> QED BY <1>1, <2>3, <2>4, <2>5
<1>2. CASE ~Quotes(x)
  <2>1. Escaped(x) = <<x>>
        BY <1>2 DEF Escaped, Quotes
  <2>2. Joint(u, <<x>>) = Append(u, x) /\ Append(u, x) \in Seq(S)
        BY DEF Joint
  <2> QED BY <1>2, <2>1, <2>2
<1> QED BY <1>1, <1>2

\* A string is escaped to a string of the same symbols and backslashes, and to
\* itself when there is nothing to escape.
EscapeSoFar(S, c, i, w) ==
    /\ w \in Seq(S)
    /\ IF \E j \in 1..i : Quotes(c[j]) THEN Len(w) > i ELSE w = SubSeq(c, 1, i)

LEMMA EscapeKept ==
    ASSUME NEW S, Tok("backslash") \in S, NEW c \in Seq(S)
    PROVE  /\ EscapeString(c) \in Seq(S)
           /\ EscapeString(c) = c <=> \A i \in 1..Len(c) : ~Quotes(c[i])
<1> DEFINE n == Len(c)
<1>1. n \in Nat /\ \A i \in 1..n : c[i] \in S
      OBVIOUS
<1>2. PICK g : EscapeRun(c, n, g) /\ EscapeString(c) = g[n]
  <2> HIDE DEF n
  <2> QED BY <1>1, EscapeIs DEF n
<1> DEFINE T == {i \in Nat : i <= n => EscapeSoFar(S, c, i, g[i])}
<1>3. 0 \in T
  <2>1. g[0] = <<>> /\ <<>> \in Seq(S) /\ SubSeq(c, 1, 0) = <<>> /\ ~\E j \in 1..0 : Quotes(c[j])
        BY <1>2 DEF EscapeRun
  <2>2. EscapeSoFar(S, c, 0, g[0])
        BY <2>1 DEF EscapeSoFar
  <2> QED BY <2>2
<1>4. ASSUME NEW m \in Nat, m \in T PROVE m + 1 \in T
  <2> SUFFICES ASSUME m + 1 <= n PROVE EscapeSoFar(S, c, m + 1, g[m + 1])
      OBVIOUS
  <2> DEFINE i == m + 1
             x == c[i]
             u == g[m]
             w == g[i]
  <2>1. i \in 1..n /\ i - 1 = m /\ x \in S /\ EscapeSoFar(S, c, m, u)
        BY <1>1, <1>4
  <2>2. w = Joint(u, Escaped(x))
        BY <1>2, <2>1 DEF EscapeRun, EscapeNext, Joint
  <2>3. u \in Seq(S)
        BY <2>1 DEF EscapeSoFar
  <2>4. /\ w \in Seq(S)
        /\ Quotes(x) => Len(w) = Len(u) + 2
        /\ ~Quotes(x) => w = Append(u, x)
    <3> HIDE DEF x, u, w
    <3> QED BY <2>1, <2>2, <2>3, EscapedIs
  <2>5. (\E j \in 1..i : Quotes(c[j])) <=> Quotes(x) \/ \E j \in 1..m : Quotes(c[j])
    <3>1. \A j \in 1..i : j = i \/ j \in 1..m
          OBVIOUS
    <3>2. i \in 1..i /\ \A j \in 1..m : j \in 1..i
          OBVIOUS
    <3> HIDE DEF i
    <3> QED BY <3>1, <3>2
  <2>6. CASE \E j \in 1..i : Quotes(c[j])
    <3>1. CASE \E j \in 1..m : Quotes(c[j])
      <4>1. Len(u) > m
            BY <2>1, <3>1 DEF EscapeSoFar
      <4>2. Len(w) > Len(u)
        <5>1. CASE Quotes(x)
              BY <2>3, <2>4, <5>1
        <5>2. CASE ~Quotes(x)
          <6> HIDE DEF x, u, w
          <6> QED BY <2>1, <2>3, <2>4, <5>2
        <5> QED BY <5>1, <5>2
      <4>3. Len(w) \in Nat /\ Len(u) \in Nat
            BY <2>3, <2>4
      <4>4. Len(w) > i
        <5> HIDE DEF u, w
        <5> QED BY <4>1, <4>2, <4>3
      <4> QED BY <2>4, <2>6, <4>4 DEF EscapeSoFar
    <3>2. CASE ~\E j \in 1..m : Quotes(c[j])
      <4>1. u = SubSeq(c, 1, m)
            BY <2>1, <3>2 DEF EscapeSoFar
      <4>2. Len(u) = m
            BY <1>1, <4>1
      <4>3. Len(w) = m + 2
        <5> HIDE DEF x, u, w
        <5> QED BY <2>4, <2>5, <2>6, <3>2, <4>2
      <4>4. Len(w) > i
        <5> HIDE DEF u, w
        <5> QED BY <4>3
      <4> QED BY <2>4, <2>6, <4>4 DEF EscapeSoFar
    <3> QED BY <3>1, <3>2
  <2>7. CASE ~\E j \in 1..i : Quotes(c[j])
    <3>1. ~Quotes(x) /\ ~\E j \in 1..m : Quotes(c[j])
          BY <2>5, <2>7
    <3>2. u = SubSeq(c, 1, m)
          BY <2>1, <3>1 DEF EscapeSoFar
    <3>3. Append(SubSeq(c, 1, m), c[m + 1]) = SubSeq(c, 1, m + 1)
          BY <2>1, AppendPrefix
    <3>4. w = SubSeq(c, 1, i)
      <4>1. w = Append(u, x)
            BY <2>4, <3>1
      <4> QED BY <3>2, <3>3, <4>1
    <3> QED BY <2>4, <2>7, <3>4 DEF EscapeSoFar
  <2> QED BY <2>6, <2>7
<1>5. Nat \subseteq T
  <2> HIDE DEF T
  <2> QED BY <1>3, <1>4, Induction
<1>6. EscapeSoFar(S, c, n, g[n])
      BY <1>1, <1>5
<1> DEFINE w == g[n]
<1>7. w \in Seq(S)
      BY <1>6 DEF EscapeSoFar
<1>8. CASE \E j \in 1..n : Quotes(c[j])
  <2>1. Len(w) > n
        BY <1>6, <1>8 DEF EscapeSoFar
  <2>2. w # c
    <3> HIDE DEF w
    <3> QED BY <2>1
  <2> QED BY <1>2, <1>7, <1>8, <2>2
<1>9. CASE ~\E j \in 1..n : Quotes(c[j])
  <2>1. w = SubSeq(c, 1, n) /\ SubSeq(c, 1, n) = c
        BY <1>6, <1>9 DEF EscapeSoFar
  <2> QED BY <1>2, <1>7, <1>9, <2>1
<1> QED BY <1>8, <1>9

-----------------------------------------------------------------------------
(***************************************************************************)
(* Reading the text of a node.                                             *)
(***************************************************************************)
LEMMA SetDataIs ==
    ASSUME NEW s \in Reader, NEW x
    PROVE  \E stack, names, root :
               SetData(s, x) = [stack |-> stack, names |-> names, root |-> root, next |-> "more", lexeme |-> <<>>]
<1>1. ASSUME NEW stack, NEW names
      PROVE  /\ [s EXCEPT !.stack = stack, !.names = names, !.next = "more"]
                    = [stack |-> stack, names |-> names, root |-> s.root, next |-> "more", lexeme |-> <<>>]
             /\ [s EXCEPT !.stack = stack, !.next = "more"]
                    = [stack |-> stack, names |-> s.names, root |-> s.root, next |-> "more", lexeme |-> <<>>]
  <2>1. ASSUME NEW w, w = [s EXCEPT !.stack = stack, !.names = names, !.next = "more"]
        PROVE  w = [stack |-> stack, names |-> names, root |-> s.root, next |-> "more", lexeme |-> <<>>]
        BY <2>1 DEF Reader
  <2>2. ASSUME NEW w, w = [s EXCEPT !.stack = stack, !.next = "more"]
        PROVE  w = [stack |-> stack, names |-> s.names, root |-> s.root, next |-> "more", lexeme |-> <<>>]
        BY <2>2 DEF Reader
  <2> QED BY <2>1, <2>2
<1>2. CASE Last(s.stack).type = "object"
  <2> DEFINE stack == Append(Front(s.stack), Set(Last(s.stack), Last(s.names), x))
             names == Front(s.names)
  <2>1. SetData(s, x) = [s EXCEPT !.stack = stack, !.names = names, !.next = "more"]
        BY <1>2 DEF SetData
  <2> HIDE DEF stack, names
  <2>2. SetData(s, x) = [stack |-> stack, names |-> names, root |-> s.root, next |-> "more", lexeme |-> <<>>]
        BY <1>1, <2>1
  <2> QED BY <2>2
<1>3. CASE Last(s.stack).type # "object"
  <2> DEFINE stack == Append(Front(s.stack), Add(Last(s.stack), x))
  <2>1. SetData(s, x) = [s EXCEPT !.stack = stack, !.next = "more"]
        BY <1>3 DEF SetData
  <2> HIDE DEF stack
  <2>2. SetData(s, x) = [stack |-> stack, names |-> s.names, root |-> s.root, next |-> "more", lexeme |-> <<>>]
        BY <1>1, <2>1
  <2> QED BY <2>2
<1> QED BY <1>2, <1>3

\* Behind a value there is no letter: the rest of a number with an exponent is refused.
LEMMA JunkFails ==
    ASSUME NEW s \in Reader, NEW x
    PROVE  Failed(Parse(SetData(s, x), <<Tok("letter")>>))
<1> DEFINE u == SetData(s, x)
           a == Tok("letter")
<1>1. PICK stack, names, root :
          u = [stack |-> stack, names |-> names, root |-> root, next |-> "more", lexeme |-> <<>>]
      BY SetDataIs
<1>2. a # Mark /\ a.t = "letter"
      BY TokIs
<1> HIDE DEF u, a
<1>3. u.next = "more" /\ u.lexeme = <<>>
      BY <1>1
<1>4. Parse(u, <<a>>) = Step(u, a)
      BY <1>2, <1>3, ParseOne, ReadOutside
<1>5. Step(u, a) = [u EXCEPT !.next = "fail"]
      BY <1>2, <1>3 DEF Step, Atoms
<1>6. ASSUME NEW w, w = [u EXCEPT !.next = "fail"] PROVE w.next = "fail"
      BY <1>1, <1>6
<1>7. Step(u, a).next = "fail"
      BY <1>5, <1>6
<1> QED BY <1>4, <1>7 DEF u, a, Failed

\* Rounding changes exactly the doubles with more digits than are kept.
LEMMA RoundedIs ==
    ASSUME NEW v \in Doubles
    PROVE  Rounded(v) \in Doubles /\ Rounded(v) \in Nat /\ (Rounded(v) = v <=> v % Unit(v) = 0)
<1> DEFINE u == Unit(v)
           q == v \div u
           m == v % u
           r == Rounded(v)
<1>1. v \in Nat /\ r \in Doubles /\ r \in Nat /\ u \in Nat \ {0}
  <2>1. \E w \in Units : UnitOf(w, v)
        BY DoubleAssumption
  <2>2. u \in Units
        BY <2>1 DEF Unit
  <2> QED BY <2>2, DoubleAssumption
<1>2. r = u * q \/ (r = u * (q + 1) /\ 2 * m >= u)
  <2>1. r = IF 2 * m > u \/ (2 * m = u /\ q % 2 = 1) THEN u * (q + 1) ELSE u * q
        BY DEF Rounded
  <2>2. m \in Nat
    <3> HIDE DEF u
    <3> QED BY <1>1
  <2> HIDE DEF r, u, q, m
  <2> QED BY <1>1, <2>1, <2>2
<1>3. m = 0 => r = u * q
  <2> HIDE DEF r, u, q, m
  <2> QED BY <1>1, <1>2
<1> HIDE DEF r, u
<1>4. q \in Nat /\ m \in Nat /\ m < u /\ v = u * q + m
      BY <1>1
<1> HIDE DEF q, m
<1>5. r = v <=> m = 0
      BY <1>1, <1>2, <1>3, <1>4
<1> QED BY <1>1, <1>5 DEF r, u, m

\* Escaping brings no quotation mark in.
LEMMA EscapePlain ==
    ASSUME NEW c \in Plain
    PROVE  /\ EscapeString(c) \in Plain
           /\ EscapeString(c) = c <=> \A i \in 1..Len(c) : ~Quotes(c[i])
<1>1. Tok("backslash").t # Mark.t
      BY DEF Tok, Token, Mark
<1>2. "backslash" \in Kinds
      BY DEF Kinds
<1>3. Tok("backslash") \in Symbol
      BY <1>2 DEF Tok, Token, Symbol
<1>4. Tok("backslash") \in Symbol \ {Mark}
      BY <1>1, <1>3
<1> QED BY <1>4, EscapeKept DEF Plain

\* A node that can be carried is read as it is; another is read as a node that is
\* not it, or not at all.
Outcome(S, K, node, s, u) ==
    \/ node \notin K /\ Failed(u)
    \/ \E x \in S : u = SetData(s, x) /\ (x = node <=> node \in K)

LEMMA LeafRead ==
    ASSUME NEW node \in PlainLeaves
    PROVE  /\ WriteLeaf(node) \in Seq(Symbol)
           /\ \A s : Ready(s) => Outcome(PlainLeaves, CarriedLeaves, node, s, Parse(s, WriteLeaf(node)))
<1> DEFINE v == node.val
<1>1. /\ node.type \in Atoms \cup {"string"}
      /\ node.type # "string" => node = Leaf(node.type, v)
      /\ node.type \in {"null", "bool", "int"} => v \in Int
      /\ node.type = "double" => v \in Doubles
      /\ node.type = "string" => node.str \in Plain /\ node = Str(node.str)
      BY LeafType DEF PlainLeaves
<1>2. ASSUME NEW type \in Atoms, NEW a \in Int
      PROVE  /\ <<Token(type, a)>> \in Seq(Symbol)
             /\ \A s : Ready(s) => Parse(s, <<Token(type, a)>>) = SetData(s, Leaf(type, a))
  <2>1. Token(type, a) \in Symbol /\ Token(type, a) # Mark
        BY TokIs
  <2>2. <<Token(type, a)>> \in Seq(Symbol)
    <3> DEFINE x == Token(type, a)
    <3> HIDE DEF x
    <3> QED BY <2>1 DEF x
  <2>3. ASSUME NEW s, Ready(s) PROVE Parse(s, <<Token(type, a)>>) = SetData(s, Leaf(type, a))
    <3>1. s.lexeme = <<>> /\ s.next \notin {"end", "fail"}
          BY <2>3 DEF Ready, Reader
    <3>2. Parse(s, <<Token(type, a)>>) = Step(s, Token(type, a))
          BY <2>1, <3>1, ParseOne, ReadOutside
    <3>3. Step(s, Token(type, a)) = SetData(s, Leaf(type, a))
          BY <2>3, StepLeaf
    <3> QED BY <3>2, <3>3
  <2> QED BY <2>2, <2>3
<1>3. CASE node.type \in {"null", "bool", "int"}
  <2>1. WriteLeaf(node) = <<Token(node.type, v)>>
        BY <1>3 DEF WriteLeaf
  <2>2. node \in CarriedLeaves
        BY <1>3, CarriedIs
  <2>3. node.type \in Atoms /\ v \in Int /\ node = Leaf(node.type, v)
        BY <1>1, <1>3 DEF Atoms
  <2> QED BY <1>2, <2>1, <2>2, <2>3 DEF Outcome
<1>4. CASE node.type = "double"
  <2> DEFINE r == Rounded(v)
  <2>1. v \in Doubles /\ node = Leaf("double", v)
        BY <1>1, <1>4
  <2>2. r \in Doubles /\ r \in Nat /\ (r = v <=> v % Unit(v) = 0)
        BY <2>1, RoundedIs
  <2>3. node \in CarriedLeaves <=> r = v /\ ~Whole(r) /\ (Exponent(r) => ExponentRead)
    <3>1. node \in CarriedLeaves <=> v \in CarriedDoubles
          BY <1>4, CarriedIs
    <3>2. v \in CarriedDoubles <=> v % Unit(v) = 0 /\ ~Whole(v) /\ (Exponent(v) => ExponentRead)
          BY <2>1 DEF CarriedDoubles
    <3> HIDE DEF r
    <3> QED BY <2>2, <3>1, <3>2
  <2>4. ~(Whole(r) /\ Exponent(r))
    <3> HIDE DEF r
    <3>1. Limit * One \in Int
          BY DoubleAssumption
    <3>2. ~(r < Limit * One /\ r >= Limit * One)
          BY <2>2, <3>1
    <3> QED BY <3>2 DEF Whole, Exponent
  <2>5. WriteLeaf(node) = WriteDouble(v)
        BY <1>4 DEF WriteLeaf
  <2>6. ASSUME NEW type \in Atoms, NEW a \in Int, WriteDouble(v) = <<Token(type, a)>>,
               Leaf(type, a) \in PlainLeaves, Leaf(type, a) = node <=> node \in CarriedLeaves
        PROVE  /\ WriteLeaf(node) \in Seq(Symbol)
               /\ \A s : Ready(s) =>
                      Outcome(PlainLeaves, CarriedLeaves, node, s, Parse(s, WriteLeaf(node)))
        BY <1>2, <2>5, <2>6 DEF Outcome
  <2>7. CASE Whole(r)
    <3> DEFINE w == r \div One
    <3>1. WriteDouble(v) = <<Token("int", w)>>
          BY <2>4, <2>7 DEF WriteDouble
    <3>2. w \in Int
      <4> HIDE DEF r
      <4> QED BY <2>2, DoubleAssumption
    <3> HIDE DEF w
    <3>3. Leaf("int", w) \in PlainLeaves /\ Leaf("int", w).type = "int"
          BY <3>2, LeafIn, LeafIs DEF PlainLeaves
    <3>4. Leaf("int", w) = node <=> node \in CarriedLeaves
          BY <1>4, <2>3, <2>7, <3>3
    <3>5. "int" \in Atoms
          BY DEF Atoms
    <3> QED BY <2>6, <3>1, <3>2, <3>3, <3>4, <3>5
  <2>8. CASE Exponent(r) /\ ~ExponentRead
    <3> DEFINE a == <<Token("int", 1)>>
               b == <<Tok("letter")>>
    <3>1. WriteLeaf(node) = Joint(a, b)
          BY <2>4, <2>5, <2>8 DEF WriteDouble, Joint
    <3>2. "int" \in Atoms /\ 1 \in Int
          BY DEF Atoms
    <3>3. a \in Seq(Symbol) /\ \A s : Ready(s) => Parse(s, a) = SetData(s, Leaf("int", 1))
          BY <1>2, <3>2
    <3>4. b \in Seq(Symbol)
      <4>1. Tok("letter") \in Symbol
            BY TokIs
      <4> QED BY <4>1
    <3>5. \A s : Ready(s) => Failed(Parse(SetData(s, Leaf("int", 1)), b))
          BY JunkFails DEF Ready
    <3>6. node \notin CarriedLeaves
          BY <2>3, <2>8
    <3> HIDE DEF a, b
    <3>7. Joint(a, b) \in Seq(Symbol) /\ \A s : Parse(s, Joint(a, b)) = Parse(Parse(s, a), b)
          BY <3>3, <3>4, JointLen, ParseJoint
    <3> QED BY <3>1, <3>3, <3>5, <3>6, <3>7 DEF Outcome
  <2>9. CASE ~Whole(r) /\ ~(Exponent(r) /\ ~ExponentRead)
    <3>1. WriteDouble(v) = <<Token("double", r)>>
          BY <2>9 DEF WriteDouble
    <3> HIDE DEF r
    <3>2. Leaf("double", r) \in PlainLeaves /\ r \in Int
          BY <2>2, LeafIn DEF PlainLeaves
    <3>3. Leaf("double", r) = node <=> r = v
          BY <2>1, LeafIs
    <3>4. "double" \in Atoms
          BY DEF Atoms
    <3> QED BY <2>3, <2>6, <2>9, <3>1, <3>2, <3>3, <3>4
  <2> QED BY <2>7, <2>8, <2>9
<1>5. CASE node.type = "string"
  <2> DEFINE c == node.str
             e == EscapeString(c)
             x == Str(e)
  <2>1. WriteLeaf(node) = Quoted(e)
        BY <1>5 DEF WriteLeaf
  <2>2. c \in Plain /\ node = Str(c)
        BY <1>1, <1>5
  <2>3. e \in Plain /\ (e = c <=> \A i \in 1..Len(c) : ~Quotes(c[i]))
        BY <2>2, EscapePlain
  <2>4. c \in CarriedStrings <=> e = c
    <3>1. ASSUME NEW y \in Symbol PROVE ~Quotes(y) <=> y \in {z \in Symbol : z.t \notin {"mark", "apostrophe"}}
          BY DEF Quotes
    <3> DEFINE Z == {z \in Symbol : z.t \notin {"mark", "apostrophe"}}
    <3>2. c \in Seq(Symbol)
          BY <2>2, QuotedIs
    <3> HIDE DEF Z, c
    <3>3. c \in Seq(Z) <=> \A i \in 1..Len(c) : c[i] \in Z
          BY <3>2, SeqWithin
    <3>4. \A i \in 1..Len(c) : c[i] \in Symbol
          BY <3>2
    <3>5. (\A i \in 1..Len(c) : c[i] \in Z) <=> \A i \in 1..Len(c) : ~Quotes(c[i])
          BY <3>1, <3>4 DEF Z
    <3> QED BY <2>3, <3>3, <3>5 DEF CarriedStrings, Z
  <2>5. x \in PlainLeaves /\ (x = node <=> e = c)
        BY <2>2, <2>3, LeafIn, LeafIs DEF PlainLeaves
  <2>6. node \in CarriedLeaves <=> x = node
        BY <1>5, <2>4, <2>5, CarriedIs
  <2> HIDE DEF e
  <2>7. ASSUME NEW s, Ready(s) PROVE Parse(s, Quoted(e)) = SetData(s, x)
    <3>1. s \in Reader /\ s.next \notin {"end", "fail"}
          BY <2>7 DEF Ready
    <3>2. Parse(s, Quoted(e)) = Step(s, Token("string", e))
          BY <2>3, <3>1, ReadQuoted
    <3> QED BY <2>7, <3>2, StepLeaf
  <2>8. Quoted(e) \in Seq(Symbol)
        BY <2>3, QuotedIs
  <2> HIDE DEF x
  <2> QED BY <2>1, <2>5, <2>6, <2>7, <2>8 DEF Outcome
<1> QED BY <1>1, <1>3, <1>4, <1>5 DEF Atoms

\* The text of the first i members takes the reader into the node as far as it is
\* read, with every value that can be carried as it was, or to a failure that
\* some value which cannot be carried accounts for.
After(node, i) == IF i > 0 THEN "more" ELSE IF node.type = "object" THEN "members" ELSE "elements"

Faithful(K, node, xs) == \A j \in 1..Len(xs) : xs[j] = node.vec[j] <=> node.vec[j] \in K

Progress(S, K, node, s, i, u) ==
    \/ Failed(u) /\ \E j \in 1..i : node.vec[j] \notin K
    \/ \E xs \in Seq(S) :
           Len(xs) = i /\ u = Open(s, Part(node, xs), After(node, i)) /\ Faithful(K, node, xs)

LEMMA TupleType ==
    ASSUME NEW S, NEW a \in S, NEW b \in S
    PROVE  <<>> \in Seq(S) /\ <<a>> \in Seq(S) /\ <<a, b>> \in Seq(S)
<1>1. <<>> \in Seq(S)
      OBVIOUS
<1>2. <<a>> \in Seq(S)
      OBVIOUS
<1>3. <<a, b>> \in Seq(S)
      OBVIOUS
<1> QED BY <1>1, <1>2, <1>3

LEMMA NameIs ==
    ASSUME NEW S, NEW node \in Lists(S), node.type = "object", NEW n \in 1..Len(node.vec)
    PROVE  /\ node.mapOrder[n] \in Plain /\ <<Tok(":")>> \in Seq(Symbol)
           /\ Quoted(node.mapOrder[n]) \in Seq(Symbol)
           /\ Name(node, n) = Joint(Quoted(node.mapOrder[n]), <<Tok(":")>>)
<1>1. node.mapOrder \in Seq(Plain) /\ Len(node.mapOrder) = Len(node.vec)
      BY ListIs DEF ListNode
<1>2. node.mapOrder[n] \in Plain
  <2> DEFINE o == node.mapOrder
  <2>1. o \in Seq(Plain) /\ n \in 1..Len(o)
        BY <1>1
  <2> HIDE DEF o
  <2> QED BY <2>1 DEF o
<1>3. Tok(":") \in Symbol
      BY TokIs DEF Punctuation
<1>4. <<Tok(":")>> \in Seq(Symbol)
      BY <1>3
<1>5. Quoted(node.mapOrder[n]) \in Seq(Symbol)
      BY <1>2, QuotedIs
<1> QED BY <1>2, <1>4, <1>5 DEF Name, Joint

LEMMA PunctuationType ==
    ASSUME NEW S, NEW node \in Lists(S), NEW n \in 1..Len(node.vec)
    PROVE  Comma(n) \in Seq(Symbol) /\ Name(node, n) \in Seq(Symbol)
<1>1. Tok(",") \in Symbol
      BY TokIs DEF Punctuation
<1>2. <<>> \in Seq(Symbol) /\ <<Tok(",")>> \in Seq(Symbol)
      BY <1>1, TupleType
<1>3. CASE node.type = "object"
  <2>1. Name(node, n) = Joint(Quoted(node.mapOrder[n]), <<Tok(":")>>)
        /\ Quoted(node.mapOrder[n]) \in Seq(Symbol) /\ <<Tok(":")>> \in Seq(Symbol)
        BY <1>3, NameIs
  <2>2. Name(node, n) \in Seq(Symbol)
        BY <2>1, JointLen
  <2> QED BY <1>2, <2>2 DEF Comma
<1>4. CASE node.type # "object"
      BY <1>2, <1>4 DEF Comma, Name
<1> QED BY <1>3, <1>4

\* In front of the next value: inside an array, or after the name.
Expecting(s, m, next, key) ==
    IF m.type = "object" THEN Named(Open(s, m, next), key) ELSE Open(s, m, next)

LEMMA PunctuationRead ==
    ASSUME NEW S, NEW node \in Lists(S), NEW n \in 1..Len(node.vec), NEW s \in Reader,
           NEW m \in OpenNode, m.type = node.type
    PROVE  \E next \in {"value", "elements"} :
               Parse(Parse(Open(s, m, After(node, n - 1)), Comma(n)), Name(node, n))
                   = Expecting(s, m, next, node.mapOrder[n])
<1> DEFINE u == Open(s, m, After(node, n - 1))
           w == Parse(u, Comma(n))
<1>1. node.type \in {"array", "object"}
      BY ListIs DEF ListNode
<1>2. w = Open(s, m, IF n = 1 THEN After(node, 0) ELSE IF m.type = "object" THEN "pair" ELSE "value")
  <2>1. CASE n = 1
    <3>1. Comma(n) = <<>> /\ n - 1 = 0
          BY <2>1 DEF Comma
    <3>2. w = u
          BY <3>1, ParseOne
    <3> QED BY <2>1, <3>1, <3>2
  <2>2. CASE n # 1
    <3>1. Comma(n) = <<Tok(",")>> /\ After(node, n - 1) = "more"
      <4>1. node.vec \in Seq(S)
            BY ListIs DEF ListNode
      <4>2. n > 1 /\ n - 1 > 0
            BY <2>2, <4>1
      <4> QED BY <4>2 DEF Comma, After
    <3>2. Opened(s, m, "more", Open(s, m, "more"))
          BY OpenIs DEF Nexts
    <3>3. Tok(",") # Mark
          BY TokIs DEF Punctuation
    <3> DEFINE o == Open(s, m, "more")
    <3>4. o.next = "more" /\ o.lexeme = <<>>
          BY <3>2 DEF Opened, Reader
    <3>5. w = Parse(o, <<Tok(",")>>)
          BY <3>1
    <3> HIDE DEF o, w
    <3>6. Parse(o, <<Tok(",")>>) = Step(o, Tok(","))
          BY <3>3, <3>4, ParseOne, ReadOutside
    <3> QED BY <2>2, <3>5, <3>6, StepComma DEF o
  <2> QED BY <2>1, <2>2
<1>3. CASE node.type = "object"
  <2> DEFINE next == IF n = 1 THEN "members" ELSE "pair"
             key == node.mapOrder[n]
  <2>1. w = Open(s, m, next)
        BY <1>2, <1>3 DEF After
  <2> DEFINE p == Quoted(key)
             q == <<Tok(":")>>
  <2>2. key \in Plain
        BY <1>3, NameIs
  <2>4. p \in Seq(Symbol) /\ q \in Seq(Symbol) /\ Name(node, n) = Joint(p, q)
        BY <1>3, NameIs
  <2>5. Parse(w, Joint(p, q)) = Parse(Parse(w, p), q)
    <3> HIDE DEF p, q, w
    <3> QED BY <2>4, ParseJoint
  <2>6. Parse(w, p) = Step(w, Token("string", key)) /\ Parse(Step(w, Token("string", key)), q)
            = Step(Step(w, Token("string", key)), Tok(":"))
    <3>1. Opened(s, m, next, Open(s, m, next))
          BY OpenIs DEF Nexts
    <3>2. w \in Reader /\ w.next = next
          BY <2>1, <3>1 DEF Opened
    <3> HIDE DEF w, key
    <3>3. Parse(w, Quoted(key)) = Step(w, Token("string", key))
          BY <2>2, <3>2, ReadQuoted
    <3> DEFINE named == Step(w, Token("string", key))
    <3>4. named = [w EXCEPT !.names = Append(@, key), !.next = "colon"]
          BY <3>2 DEF Step, Token, Atoms, ObjectKey
    <3>5. named.lexeme = <<>> /\ named.next = "colon"
          BY <3>2, <3>4 DEF Reader
    <3>6. Tok(":") # Mark
          BY TokIs DEF Punctuation
    <3> HIDE DEF named
    <3>7. Parse(named, <<Tok(":")>>) = Step(named, Tok(":"))
          BY <3>5, <3>6, ParseOne, ReadOutside
    <3> QED BY <3>3, <3>7 DEF named
  <2>7. next \in {"members", "pair"}
        OBVIOUS
  <2>8. Step(Step(w, Token("string", key)), Tok(":")) = Named(Open(s, m, "value"), key)
    <3> HIDE DEF w, key, next
    <3> QED BY <2>1, <2>2, <2>7, StepName
  <2>9. Parse(w, Name(node, n)) = Expecting(s, m, "value", key)
    <3> HIDE DEF w, key, next, p, q
    <3> QED BY <1>3, <2>4, <2>5, <2>6, <2>8 DEF Expecting, p
  <2> QED BY <2>9
<1>4. CASE node.type = "array"
  <2> DEFINE next == IF n = 1 THEN "elements" ELSE "value"
  <2>1. w = Open(s, m, next)
        BY <1>2, <1>4 DEF After
  <2>2. Name(node, n) = <<>>
        BY <1>4 DEF Name
  <2>3. Parse(w, <<>>) = w
    <3> HIDE DEF w
    <3> QED BY ParseOne
  <2>4. Parse(w, Name(node, n)) = Expecting(s, m, next, node.mapOrder[n])
    <3> HIDE DEF w, next
    <3> QED BY <1>4, <2>1, <2>2, <2>3 DEF Expecting
  <2>5. next \in {"value", "elements"}
        OBVIOUS
  <2> HIDE DEF next
  <2> QED BY <2>4, <2>5
<1> QED BY <1>1, <1>3, <1>4

\* Every node of the depth below is read as Outcome says.
Readable(k, node) ==
    /\ Write[k][node] \in Seq(Symbol)
    /\ \A s : Ready(s) => Outcome(Trees(k), Kept(k), node, s, Parse(s, Write[k][node]))

LEMMA MemberIs ==
    ASSUME NEW u, NEW write, NEW node, NEW n, NEW text \in Seq(Symbol),
           Comma(n) \in Seq(Symbol), Name(node, n) \in Seq(Symbol), write[node.vec[n]] \in Seq(Symbol)
    PROVE  /\ Member(write, node, n, text) \in Seq(Symbol)
           /\ Parse(u, Member(write, node, n, text))
                  = Parse(Parse(Parse(Parse(u, text), Comma(n)), Name(node, n)), write[node.vec[n]])
<1> DEFINE a == Comma(n)
           b == Name(node, n)
           c == write[node.vec[n]]
           p == Joint(text, a)
           q == Joint(p, b)
           r == Joint(q, c)
<1>1. Member(write, node, n, text) = r
      BY DEF Member, Joint
<1> HIDE DEF a, b, c
<1>2. a \in Seq(Symbol) /\ b \in Seq(Symbol) /\ c \in Seq(Symbol)
      BY DEF a, b, c
<1>3. p \in Seq(Symbol) /\ Parse(u, p) = Parse(Parse(u, text), a)
  <2>1. p \in Seq(Symbol)
        BY <1>2, JointLen
  <2>2. Parse(u, p) = Parse(Parse(u, text), a)
        BY <1>2, ParseJoint
  <2> QED BY <2>1, <2>2
<1> HIDE DEF p
<1>4. q \in Seq(Symbol) /\ Parse(u, q) = Parse(Parse(u, p), b)
  <2>1. q \in Seq(Symbol)
        BY <1>2, <1>3, JointLen
  <2>2. Parse(u, q) = Parse(Parse(u, p), b)
        BY <1>2, <1>3, ParseJoint
  <2> QED BY <2>1, <2>2
<1> HIDE DEF q
<1>5. r \in Seq(Symbol) /\ Parse(u, r) = Parse(Parse(u, q), c)
  <2>1. r \in Seq(Symbol)
        BY <1>2, <1>4, JointLen
  <2>2. Parse(u, r) = Parse(Parse(u, q), c)
        BY <1>2, <1>4, ParseJoint
  <2> QED BY <2>1, <2>2
<1> HIDE DEF r
<1> QED BY <1>1, <1>3, <1>4, <1>5 DEF a, b, c

LEMMA MemberRead ==
    ASSUME NEW k \in 0..Nesting, \A y \in Trees(k) : Readable(k, y),
           NEW node \in Lists(Trees(k)), NEW n \in 1..Len(node.vec), NEW s \in Reader,
           NEW u, NEW text \in Seq(Symbol),
           Progress(Trees(k), Kept(k), node, s, n - 1, Parse(u, text))
    PROVE  /\ Member(Write[k], node, n, text) \in Seq(Symbol)
           /\ Progress(Trees(k), Kept(k), node, s, n, Parse(u, Member(Write[k], node, n, text)))
<1> DEFINE y == node.vec[n]
           S == Trees(k)
           K == Kept(k)
           w == Parse(u, text)
           c == Write[k][y]
           e == Parse(Parse(w, Comma(n)), Name(node, n))
           all == Member(Write[k], node, n, text)
<1>1. ListNode(S, node)
      BY ListIs
<1>2. node.vec \in Seq(S) /\ Len(node.vec) \in Nat /\ n \in Nat /\ n - 1 \in Nat /\ y \in S
  <2>1. node.vec \in Seq(S)
        BY <1>1 DEF ListNode
  <2> HIDE DEF S
  <2> QED BY <2>1
<1>3. Readable(k, y)
      BY <1>2
<1>4. c \in Seq(Symbol) /\ Comma(n) \in Seq(Symbol) /\ Name(node, n) \in Seq(Symbol)
  <2>1. c \in Seq(Symbol)
        BY <1>3 DEF Readable
  <2>2. Comma(n) \in Seq(Symbol) /\ Name(node, n) \in Seq(Symbol)
        BY PunctuationType
  <2> QED BY <2>1, <2>2
<1>5. all \in Seq(Symbol) /\ Parse(u, all) = Parse(e, c)
  <2> DEFINE write == Write[k]
  <2>1. write[node.vec[n]] \in Seq(Symbol)
        BY <1>4
  <2> HIDE DEF write
  <2>2. /\ Member(write, node, n, text) \in Seq(Symbol)
        /\ Parse(u, Member(write, node, n, text))
               = Parse(Parse(Parse(Parse(u, text), Comma(n)), Name(node, n)), write[node.vec[n]])
        BY <1>4, <2>1, MemberIs
  <2> QED BY <2>2 DEF write
<1> HIDE DEF S, K, w, c, e, all, y
<1>6. Progress(S, K, node, s, n - 1, w)
      BY DEF S, K, w
<1>7. CASE Failed(w) /\ \E j \in 1..(n - 1) : node.vec[j] \notin K
  <2>1. e = w
    <3>1. Parse(w, Comma(n)) = w
          BY <1>4, <1>7, Settled
    <3> QED BY <1>4, <1>7, <3>1, Settled DEF e
  <2>2. Parse(e, c) = w
        BY <1>4, <1>7, <2>1, Settled
  <2>3. \E j \in 1..n : node.vec[j] \notin K
    <3>1. PICK j \in 1..(n - 1) : node.vec[j] \notin K
          BY <1>7
    <3>2. j \in 1..n
          BY <1>2, <3>1
    <3> QED BY <3>1, <3>2
  <2>4. Progress(S, K, node, s, n, Parse(u, all))
        BY <1>5, <1>7, <2>2, <2>3 DEF Progress
  <2> QED BY <1>5, <2>4 DEF S, K, all
<1>8. ASSUME NEW xs \in Seq(S), Len(xs) = n - 1, w = Open(s, Part(node, xs), After(node, n - 1)),
             Faithful(K, node, xs)
      PROVE  Progress(S, K, node, s, n, Parse(u, all))
  <2> DEFINE m == Part(node, xs)
             key == node.mapOrder[n]
  <2>1. m \in OpenNode /\ m.type = node.type
    <3>1. xs \in Seq(AnyNode)
      <4>1. \A x \in S : x \in AnyNode
            BY DEF S, AnyNode
      <4> QED BY <1>8, <4>1
    <3>2. Len(xs) <= Len(node.vec)
          BY <1>2, <1>8
    <3> QED BY <3>1, <3>2, PartShape
  <2> HIDE DEF m
  <2>2. PICK next \in {"value", "elements"} : e = Expecting(s, m, next, key)
    <3>1. \E next \in {"value", "elements"} :
              Parse(Parse(Open(s, m, After(node, n - 1)), Comma(n)), Name(node, n))
                  = Expecting(s, m, next, node.mapOrder[n])
          BY <2>1, PunctuationRead
    <3> QED BY <1>8, <3>1 DEF e, m
  <2>3. node.type = "object" => key \in Plain
    <3> SUFFICES ASSUME node.type = "object" PROVE key \in Plain
        OBVIOUS
    <3>1. node.mapOrder \in Seq(Plain) /\ Len(node.mapOrder) = Len(node.vec)
          BY <1>1 DEF ListNode
    <3> QED BY <3>1
  <2> HIDE DEF key
  <2>4. Ready(e) /\ \A x : SetData(e, x) =
            Open(s, IF node.type = "object" THEN Set(m, key, x) ELSE Add(m, x), "more")
    <3>1. next \in Nexts
          BY DEF Nexts
    <3>2. CASE node.type = "object"
      <4>1. e = Named(Open(s, m, next), key)
            BY <2>1, <2>2, <3>2 DEF Expecting
      <4>2. Ready(e)
            BY <2>1, <2>3, <3>2, <4>1, InsideReady
      <4>3. \A x : SetData(e, x) = Open(s, Set(m, key, x), "more")
            BY <2>1, <2>3, <3>1, <3>2, <4>1, SetObject
      <4> QED BY <3>2, <4>2, <4>3
    <3>3. CASE node.type = "array"
      <4>1. e = Open(s, m, next)
            BY <2>1, <2>2, <3>3 DEF Expecting
      <4>2. Ready(e)
        <5>1. <<>> \in Plain
              BY DEF Plain
        <5> QED BY <2>1, <3>3, <4>1, <5>1, InsideReady
      <4>3. \A x : SetData(e, x) = Open(s, Add(m, x), "more")
            BY <2>1, <3>1, <3>3, <4>1, SetArray
      <4> QED BY <3>3, <4>2, <4>3
    <3> QED BY <1>1, <3>2, <3>3 DEF ListNode
  <2>5. Outcome(S, K, y, e, Parse(e, c))
        BY <1>3, <2>4 DEF Readable, S, K, c
  <2>6. CASE y \notin K /\ Failed(Parse(e, c))
    <3>1. n \in 1..n /\ node.vec[n] \notin K
          BY <1>2, <2>6 DEF y
    <3> QED BY <1>5, <2>6, <3>1 DEF Progress
  <2>7. ASSUME NEW x \in S, Parse(e, c) = SetData(e, x), x = y <=> y \in K
        PROVE  Progress(S, K, node, s, n, Parse(u, all))
    <3> DEFINE ys == Append(xs, x)
    <3>1. ys \in Seq(S) /\ Len(ys) = n /\ ys[n] = x /\ \A j \in 1..(n - 1) : ys[j] = xs[j]
          BY <1>2, <1>8, <2>7
    <3>2. (IF node.type = "object" THEN Set(m, key, x) ELSE Add(m, x)) = Part(node, ys)
      <4>1. Len(xs) < Len(node.vec) /\ Len(xs) + 1 = n
            BY <1>2, <1>8
      <4>2. node.type = "array" => Add(m, x) = Part(node, ys)
            BY <4>1, <2>7, PartNext DEF m, S
      <4>3. node.type = "object" => Set(m, key, x) = Part(node, ys)
            BY <4>1, <2>7, PartNext DEF m, S, key
      <4> QED BY <1>1, <4>2, <4>3 DEF ListNode
    <3> HIDE DEF ys
    <3>3. After(node, n) = "more"
          BY <1>2 DEF After
    <3>4. Faithful(K, node, ys)
      <4>1. ASSUME NEW j \in 1..n PROVE ys[j] = node.vec[j] <=> node.vec[j] \in K
        <5>1. CASE j = n
              BY <2>7, <3>1, <5>1 DEF y
        <5>2. CASE j # n
          <6>1. j \in 1..(n - 1)
                BY <1>2, <5>2
          <6>2. xs[j] = node.vec[j] <=> node.vec[j] \in K
                BY <1>8, <6>1 DEF Faithful
          <6> QED BY <3>1, <6>1, <6>2
        <5> QED BY <5>1, <5>2
      <4> QED BY <3>1, <4>1 DEF Faithful
    <3>5. Parse(u, all) = Open(s, Part(node, ys), After(node, n))
          BY <1>5, <2>4, <2>7, <3>2, <3>3
    <3> QED BY <3>1, <3>4, <3>5 DEF Progress
  <2> QED BY <2>5, <2>6, <2>7 DEF Outcome
<1>9. Progress(S, K, node, s, n, Parse(u, all))
      BY <1>5, <1>6, <1>7, <1>8 DEF Progress, S, K, all
<1> QED BY <1>5, <1>9 DEF S, K, all

LEMMA MembersRead ==
    ASSUME NEW k \in 0..Nesting, \A y \in Trees(k) : Readable(k, y),
           NEW node \in Lists(Trees(k)), NEW s \in Reader, NEW g,
           TextRun(Write[k], node, Len(node.vec), g)
    PROVE  /\ g[Len(node.vec)] \in Seq(Symbol)
           /\ Progress(Trees(k), Kept(k), node, s, Len(node.vec),
                       Parse(Open(s, New(node.type), After(node, 0)), g[Len(node.vec)]))
<1> DEFINE S == Trees(k)
           K == Kept(k)
           v == node.vec
           u == Open(s, New(node.type), After(node, 0))
           Good(n) == g[n] \in Seq(Symbol) /\ Progress(S, K, node, s, n, Parse(u, g[n]))
           T == {n \in Nat : n <= Len(v) => Good(n)}
<1>1. Len(v) \in Nat
  <2>1. v \in Seq(S)
        BY ListIs DEF ListNode
  <2> QED BY <2>1
<1>2. g[0] = <<>> /\ \A n \in 1..Len(v) : g[n] = Member(Write[k], node, n, g[n - 1])
      BY DEF TextRun
<1>3. Good(0)
  <2>1. g[0] \in Seq(Symbol) /\ <<>> \in Seq(S)
        BY <1>2
  <2>2. Parse(u, g[0]) = u
        BY <1>2, ParseOne
  <2>3. Part(node, <<>>) = New(node.type)
        BY PartFirst
  <2>4. Len(<<>>) = 0 /\ Faithful(K, node, <<>>)
        BY DEF Faithful
  <2>5. u = Open(s, Part(node, <<>>), After(node, 0))
        BY <2>3
  <2> HIDE DEF S, K, u
  <2>6. Progress(S, K, node, s, 0, u)
        BY <2>1, <2>4, <2>5 DEF Progress
  <2> QED BY <2>1, <2>2, <2>6
<1>4. ASSUME NEW n \in Nat, n \in T PROVE n + 1 \in T
  <2> SUFFICES ASSUME n + 1 <= Len(v) PROVE Good(n + 1)
      OBVIOUS
  <2>1. n + 1 \in 1..Len(v) /\ (n + 1) - 1 = n /\ n <= Len(v)
        BY <1>1
  <2>2. g[n] \in Seq(Symbol) /\ Progress(S, K, node, s, (n + 1) - 1, Parse(u, g[n]))
        BY <1>4, <2>1
  <2>3. g[n + 1] = Member(Write[k], node, n + 1, g[n])
        BY <1>2, <2>1
  <2> DEFINE t == g[n]
             i == n + 1
  <2> HIDE DEF u, t, i, Good
  <2>4. i \in 1..Len(node.vec) /\ t \in Seq(Symbol) /\ Progress(Trees(k), Kept(k), node, s, i - 1, Parse(u, t))
        BY <2>1, <2>2 DEF i, t
  <2>5. /\ Member(Write[k], node, i, t) \in Seq(Symbol)
        /\ Progress(Trees(k), Kept(k), node, s, i, Parse(u, Member(Write[k], node, i, t)))
        BY <2>4, MemberRead
  <2> QED BY <2>3, <2>5 DEF i, t, Good
<1>5. Nat \subseteq T
  <2>1. 0 \in T
        BY <1>3
  <2> HIDE DEF T
  <2> QED BY <1>4, <2>1, Induction
<1>6. Good(Len(v))
  <2> HIDE DEF Good
  <2> QED BY <1>1, <1>5
<1> QED BY <1>6

Opening(node) == IF node.type = "object" THEN Tok("{") ELSE Tok("[")
Closing(node) == IF node.type = "object" THEN Tok("}") ELSE Tok("]")

LEMMA BracketIs ==
    \A node : \A body \in Seq(Symbol) :
               /\ Bracketed(node, body) = Joint(Joint(<<Opening(node)>>, body), <<Closing(node)>>)
               /\ <<Opening(node)>> \in Seq(Symbol) /\ <<Closing(node)>> \in Seq(Symbol)
               /\ Joint(<<Opening(node)>>, body) \in Seq(Symbol) /\ Bracketed(node, body) \in Seq(Symbol)
<1> SUFFICES ASSUME NEW node, NEW body \in Seq(Symbol)
             PROVE  /\ Bracketed(node, body) = Joint(Joint(<<Opening(node)>>, body), <<Closing(node)>>)
                    /\ <<Opening(node)>> \in Seq(Symbol) /\ <<Closing(node)>> \in Seq(Symbol)
                    /\ Joint(<<Opening(node)>>, body) \in Seq(Symbol) /\ Bracketed(node, body) \in Seq(Symbol)
    OBVIOUS
<1> DEFINE a == <<Opening(node)>>
           c == <<Closing(node)>>
<1>1. Bracketed(node, body) = Joint(Joint(a, body), c)
      BY DEF Bracketed, Joint, Opening, Closing
<1>2. a \in Seq(Symbol) /\ c \in Seq(Symbol)
  <2>1. Tok("{") \in Symbol /\ Tok("}") \in Symbol /\ Tok("[") \in Symbol /\ Tok("]") \in Symbol
        BY TokIs DEF Punctuation
  <2>2. Opening(node) \in Symbol /\ Closing(node) \in Symbol
        BY <2>1 DEF Opening, Closing
  <2> QED BY <2>2, TupleType
<1> HIDE DEF a, c
<1>3. Joint(a, body) \in Seq(Symbol)
      BY <1>2, JointLen
<1>4. Joint(Joint(a, body), c) \in Seq(Symbol)
      BY <1>2, <1>3, JointLen
<1> QED BY <1>1, <1>2, <1>3, <1>4 DEF a, c

LEMMA BracketFirst ==
    ASSUME NEW node, NEW body \in Seq(Symbol)
    PROVE  Bracketed(node, body)[1] = Opening(node)
<1> DEFINE a == <<Opening(node)>>
           b == Joint(a, body)
           c == <<Closing(node)>>
<1>1. /\ Bracketed(node, body) = Joint(b, c)
      /\ a \in Seq(Symbol) /\ b \in Seq(Symbol) /\ c \in Seq(Symbol)
      BY BracketIs
<1>2. Len(a) = 1 /\ a[1] = Opening(node) /\ Len(body) \in Nat
      OBVIOUS
<1> HIDE DEF a
<1>3. Len(b) = Len(a) + Len(body) /\ \A i \in 1..Len(a) : b[i] = a[i]
      BY <1>1, JointLen
<1> HIDE DEF b, c
<1>4. 1 \in 1..Len(a) /\ 1 \in 1..Len(b)
      BY <1>2, <1>3
<1>5. \A i \in 1..Len(b) : Joint(b, c)[i] = b[i]
      BY <1>1, JointLen
<1>6. Joint(b, c)[1] = b[1] /\ b[1] = a[1]
      BY <1>3, <1>4, <1>5
<1> QED BY <1>1, <1>2, <1>6

LEMMA BracketRead ==
    ASSUME NEW s, NEW node, NEW body \in Seq(Symbol)
    PROVE  /\ Parse(s, Joint(<<Opening(node)>>, body)) = Parse(ReadSymbol(s, Opening(node)), body)
           /\ Parse(s, Bracketed(node, body)) = ReadSymbol(Parse(ReadSymbol(s, Opening(node)), body), Closing(node))
<1> DEFINE a == <<Opening(node)>>
           c == <<Closing(node)>>
           b == Joint(a, body)
<1>1. /\ Bracketed(node, body) = Joint(b, c)
      /\ a \in Seq(Symbol) /\ c \in Seq(Symbol) /\ b \in Seq(Symbol)
      BY BracketIs
<1>2. Parse(s, a) = ReadSymbol(s, Opening(node))
      BY ParseOne
<1>3. Parse(Parse(s, b), c) = ReadSymbol(Parse(s, b), Closing(node))
  <2> HIDE DEF b
  <2> QED BY ParseOne
<1> HIDE DEF a, c
<1>4. Parse(s, b) = Parse(Parse(s, a), body)
      BY <1>1, ParseJoint
<1> HIDE DEF b
<1>5. Parse(s, Joint(b, c)) = Parse(Parse(s, b), c)
      BY <1>1, ParseJoint
<1> QED BY <1>1, <1>2, <1>3, <1>4, <1>5 DEF a, b

LEMMA BracketPlain ==
    \A node : Opening(node) # Mark /\ Closing(node) # Mark
BY TokIs DEF Opening, Closing, Punctuation

\* The last bracket gives the node to what is around it.
BodyOutcome(k, node, s, e) ==
    /\ ~Parsed(e)
    /\ \/ node \notin Kept(k) /\ Failed(e)
       \/ \E x \in Lists(Trees(k - 1)) :
              ReadSymbol(e, Closing(node)) = Closed(s, x) /\ (x = node <=> node \in Kept(k))

LEMMA BodyRead ==
    ASSUME NEW k \in 1..Nesting, \A y \in Trees(k - 1) : Readable(k - 1, y),
           NEW node \in Lists(Trees(k - 1))
    PROVE  \E body \in Seq(Symbol) :
               /\ Write[k][node] = Bracketed(node, body)
               /\ \A s \in Reader :
                      BodyOutcome(k, node, s, Parse(Open(s, New(node.type), After(node, 0)), body))
<1> DEFINE l == k - 1
           S == Trees(l)
           K == Kept(l)
           n == Len(node.vec)
<1>1. l \in 0..Nesting /\ n \in Nat /\ node.vec \in Seq(S) /\ node.type \in {"array", "object"}
  <2>1. node.vec \in Seq(S) /\ node.type \in {"array", "object"}
        BY ListIs DEF ListNode
  <2>2. l \in 0..Nesting
        BY NestingAssumption
  <2> HIDE DEF S
  <2> QED BY <2>1, <2>2
<1>2. Write[k][node] = WriteList(Write[l], node)
  <2>1. node \in Trees(k)
        BY KeptList
  <2> QED BY <1>1, <2>1, TextsAre DEF WriteNode
<1>3. PICK g : TextRun(Write[l], node, n, g) /\ WriteList(Write[l], node) = Bracketed(node, g[n])
  <2> HIDE DEF l
  <2> QED BY <1>1, TextIs DEF n
<1> DEFINE body == g[n]
<1>4. /\ body \in Seq(Symbol)
      /\ \A s \in Reader : Progress(S, K, node, s, n, Parse(Open(s, New(node.type), After(node, 0)), body))
  <2> HIDE DEF l, n
  <2>1. ASSUME NEW s \in Reader
        PROVE  /\ body \in Seq(Symbol)
               /\ Progress(S, K, node, s, n, Parse(Open(s, New(node.type), After(node, 0)), body))
        BY <1>1, <1>3, MembersRead DEF n, l
  <2>2. Reader # {}
    <3> DEFINE r == [stack |-> <<>>, names |-> <<>>, root |-> New("null"), next |-> "json", lexeme |-> <<>>]
    <3>1. New("null") \in OpenNode
          BY NewShape DEF Types, Atoms
    <3>2. <<>> \in Seq(OpenNode) /\ <<>> \in Seq(Plain)
          OBVIOUS
    <3>3. r \in Reader
          BY <3>1, <3>2 DEF Reader, Nexts
    <3> QED BY <3>3
  <2> QED BY <2>1, <2>2
<1>5. ASSUME NEW s \in Reader
      PROVE  BodyOutcome(k, node, s, Parse(Open(s, New(node.type), After(node, 0)), body))
  <2> DEFINE e == Parse(Open(s, New(node.type), After(node, 0)), body)
  <2>1. Progress(S, K, node, s, n, e)
        BY <1>4
  <2> HIDE DEF e
  <2>2. ASSUME Failed(e), \E j \in 1..n : node.vec[j] \notin K
        PROVE  BodyOutcome(k, node, s, e)
    <3>1. node \notin Kept(k)
          BY <2>2, KeptList
    <3>2. ~Parsed(e)
          BY <2>2 DEF Failed, Parsed
    <3> QED BY <2>2, <3>1, <3>2 DEF BodyOutcome
  <2>3. ASSUME NEW xs \in Seq(S), Len(xs) = n, e = Open(s, Part(node, xs), After(node, n)), Faithful(K, node, xs)
        PROVE  BodyOutcome(k, node, s, e)
    <3> DEFINE x == Part(node, xs)
               next == After(node, n)
    <3>1. x \in Lists(S) /\ (x = node <=> xs = node.vec)
          BY <2>3, PartLast
    <3>2. x \in OpenNode /\ x.type = node.type
      <4>1. xs \in Seq(AnyNode)
        <5>1. \A y \in S : y \in AnyNode
              BY <1>1 DEF AnyNode
        <5> HIDE DEF S
        <5> QED BY <2>3, <5>1
      <4>2. Len(xs) <= Len(node.vec)
            BY <1>1, <2>3
      <4> QED BY <4>1, <4>2, PartShape
    <3>3. next \in Nexts /\ next \notin {"end", "fail"} /\ (node.type = "object" => next \in {"members", "more"})
              /\ (node.type = "array" => next \in {"elements", "more"})
          BY DEF After, Nexts
    <3>4. xs = node.vec <=> node \in Kept(k)
      <4>1. node \in Kept(k) <=> \A j \in 1..n : node.vec[j] \in K
            BY KeptList
      <4>2. \A j \in 1..n : xs[j] = node.vec[j] <=> node.vec[j] \in K
            BY <2>3 DEF Faithful
      <4>3. (\A j \in 1..n : xs[j] = node.vec[j]) => xs = node.vec
        <5> DEFINE v == node.vec
        <5>1. xs \in Seq(S) /\ v \in Seq(S) /\ Len(xs) = Len(v)
              BY <1>1, <2>3
        <5> HIDE DEF v, S
        <5>2. (\A j \in 1..Len(xs) : xs[j] = v[j]) => xs = v
              BY <5>1, SeqEqual
        <5> QED BY <2>3, <5>2 DEF v
      <4> QED BY <4>1, <4>2, <4>3
    <3> HIDE DEF x, next
    <3>5. e = Open(s, x, next)
          BY <2>3 DEF x, next
    <3>6. ~Parsed(e)
      <4>1. Opened(s, x, next, Open(s, x, next))
            BY <3>2, <3>3, OpenIs
      <4> QED BY <3>3, <3>5, <4>1 DEF Opened, Parsed
    <3>7. ReadSymbol(e, Closing(node)) = Closed(s, x)
      <4>1. Opened(s, x, next, Open(s, x, next))
            BY <3>2, <3>3, OpenIs
      <4>2. e.lexeme = <<>> /\ e.next \notin {"end", "fail"}
            BY <3>3, <3>5, <4>1 DEF Opened, Reader
      <4>3. ReadSymbol(e, Closing(node)) = Step(e, Closing(node))
            BY <4>2, BracketPlain, ReadOutside
      <4> QED BY <1>1, <3>2, <3>3, <3>5, <4>3, StepClose DEF Closing
    <3> QED BY <3>1, <3>4, <3>6, <3>7 DEF BodyOutcome
  <2>4. BodyOutcome(k, node, s, e)
        BY <2>1, <2>2, <2>3 DEF Progress
  <2> QED BY <2>4 DEF e
<1> HIDE DEF body
<1> QED BY <1>2, <1>3, <1>4, <1>5 DEF body

LEMMA ListRead ==
    ASSUME NEW k \in 1..Nesting, \A y \in Trees(k - 1) : Readable(k - 1, y),
           NEW node \in Lists(Trees(k - 1))
    PROVE  Readable(k, node)
<1>1. PICK body \in Seq(Symbol) :
          /\ Write[k][node] = Bracketed(node, body)
          /\ \A s \in Reader :
                 BodyOutcome(k, node, s, Parse(Open(s, New(node.type), After(node, 0)), body))
      BY BodyRead
<1>2. Write[k][node] \in Seq(Symbol)
      BY <1>1, BracketIs
<1>3. ASSUME NEW s, Ready(s)
      PROVE  Outcome(Trees(k), Kept(k), node, s, Parse(s, Write[k][node]))
  <2> DEFINE u == Open(s, New(node.type), After(node, 0))
             e == Parse(u, body)
  <2>1. node.type \in {"array", "object"}
        BY ListIs DEF ListNode
  <2>2. s \in Reader /\ s.stack # <<>>
        BY <1>3 DEF Ready
  <2>3. ReadSymbol(s, Opening(node)) = u
    <3>3. ReadSymbol(s, Opening(node)) = Step(s, Opening(node))
          BY <1>3, BracketPlain, ReadOutside DEF Ready, Reader
    <3>1. CASE node.type = "object"
      <4>1. After(node, 0) = "members" /\ Opening(node) = Tok("{")
            BY <3>1 DEF After, Opening
      <4> QED BY <1>3, <3>1, <3>3, <4>1, StepOpen
    <3>2. CASE node.type = "array"
      <4>1. After(node, 0) = "elements" /\ Opening(node) = Tok("[")
            BY <3>2 DEF After, Opening
      <4> QED BY <1>3, <3>2, <3>3, <4>1, StepOpen
    <3> QED BY <2>1, <3>1, <3>2
  <2>4. Parse(s, Bracketed(node, body)) = ReadSymbol(e, Closing(node))
    <3> HIDE DEF u
    <3>1. Parse(s, Bracketed(node, body)) = ReadSymbol(Parse(ReadSymbol(s, Opening(node)), body), Closing(node))
          BY BracketRead
    <3> QED BY <2>3, <3>1
  <2>5. BodyOutcome(k, node, s, e)
        BY <1>1, <2>2
  <2> HIDE DEF e
  <2>6. CASE node \notin Kept(k) /\ Failed(e)
    <3>1. <<Closing(node)>> \in Seq(Symbol)
          BY <1>1, BracketIs
    <3>2. Parse(e, <<Closing(node)>>) = e
          BY <2>6, <3>1, Settled
    <3>3. ReadSymbol(e, Closing(node)) = e
          BY <3>2, ParseOne
    <3> QED BY <1>1, <2>4, <2>6, <3>3 DEF Outcome
  <2>7. ASSUME NEW x \in Lists(Trees(k - 1)), ReadSymbol(e, Closing(node)) = Closed(s, x),
               x = node <=> node \in Kept(k)
        PROVE  Outcome(Trees(k), Kept(k), node, s, Parse(s, Write[k][node]))
    <3>1. Closed(s, x) = SetData(s, x)
          BY <2>2 DEF Closed
    <3>2. x \in Trees(k)
          BY KeptList
    <3> QED BY <1>1, <2>4, <2>7, <3>1, <3>2 DEF Outcome
  <2> QED BY <2>5, <2>6, <2>7 DEF BodyOutcome
<1> QED BY <1>2, <1>3 DEF Readable

LEMMA LeafReadable ==
    ASSUME NEW k \in 0..Nesting, NEW node \in PlainLeaves
    PROVE  Readable(k, node)
<1>1. Write[k][node] = WriteLeaf(node)
  <2>1. CASE k = 0
        BY <2>1, TextsAre
  <2>2. CASE k # 0
    <3>1. k \in 1..Nesting
          BY <2>2, NestingAssumption
    <3>2. node \in Trees(k) /\ node.type \notin {"array", "object"}
          BY KeptLeaf, LeafType DEF PlainLeaves
    <3> QED BY <3>1, <3>2, TextsAre DEF WriteNode
  <2> QED BY <2>1, <2>2
<1>2. WriteLeaf(node) \in Seq(Symbol)
      BY LeafRead
<1>3. ASSUME NEW s, Ready(s)
      PROVE  Outcome(Trees(k), Kept(k), node, s, Parse(s, WriteLeaf(node)))
  <2> DEFINE u == Parse(s, WriteLeaf(node))
  <2>1. Outcome(PlainLeaves, CarriedLeaves, node, s, u)
        BY <1>3, LeafRead
  <2>2. (node \in Kept(k) <=> node \in CarriedLeaves) /\ \A x \in PlainLeaves : x \in Trees(k)
        BY KeptLeaf
  <2> HIDE DEF u
  <2>3. Outcome(Trees(k), Kept(k), node, s, u)
        BY <2>1, <2>2 DEF Outcome
  <2> QED BY <2>3 DEF u
<1> QED BY <1>1, <1>2, <1>3 DEF Readable

LEMMA AllReadable == \A k \in 0..Nesting : \A node \in Trees(k) : Readable(k, node)
<1> DEFINE All(k) == \A node \in Trees(k) : Readable(k, node)
           T == {k \in Nat : k <= Nesting => All(k)}
<1>1. Nesting \in Nat
      BY NestingAssumption
<1>2. 0 \in T
  <2>1. 0 \in 0..Nesting /\ Trees(0) = PlainLeaves
        BY <1>1, TreesAre
  <2> QED BY <2>1, LeafReadable
<1>3. ASSUME NEW l \in Nat, l \in T PROVE l + 1 \in T
  <2> SUFFICES ASSUME l + 1 <= Nesting PROVE All(l + 1)
      OBVIOUS
  <2> DEFINE k == l + 1
  <2>1. k \in 1..Nesting /\ k \in 0..Nesting /\ k - 1 = l /\ All(k - 1)
        BY <1>1, <1>3
  <2> HIDE DEF k
  <2>2. ASSUME NEW node \in Trees(k) PROVE Readable(k, node)
    <3>1. CASE node \in PlainLeaves
          BY <2>1, <3>1, LeafReadable
    <3>2. CASE node \in Lists(Trees(k - 1))
          BY <2>1, <3>2, ListRead
    <3> QED BY <2>1, <2>2, <3>1, <3>2, TreesAre
  <2> QED BY <2>2 DEF k
<1>4. Nat \subseteq T
  <2> HIDE DEF T
  <2> QED BY <1>2, <1>3, Induction
<1> QED BY <1>1, <1>4

\* A text is a part of it and the rest.
LEMMA SplitText ==
    ASSUME NEW S, NEW t \in Seq(S), NEW n \in 0..Len(t)
    PROVE  \E x, y \in Seq(S) : x = SubSeq(t, 1, n) /\ Len(x) = n /\ t = Joint(x, y)
<1> DEFINE x == SubSeq(t, 1, n)
           y == SubSeq(t, n + 1, Len(t))
<1>1. x \in Seq(S) /\ Len(x) = n /\ \A i \in 1..n : x[i] = t[i]
      OBVIOUS
<1>2. y \in Seq(S) /\ Len(y) = Len(t) - n /\ \A i \in 1..(Len(t) - n) : y[i] = t[n + i]
  <2>1. Len(t) \in Nat /\ n \in Nat /\ n + 1 \in 1..(Len(t) + 1)
        OBVIOUS
  <2> QED BY <2>1
<1> HIDE DEF x, y
<1>3. Joint(x, y) \in Seq(S) /\ Len(Joint(x, y)) = Len(t)
  <2>1. Joint(x, y) \in Seq(S) /\ Len(Joint(x, y)) = Len(x) + Len(y)
        BY <1>1, <1>2, JointLen
  <2> QED BY <1>1, <1>2, <2>1
<1>4. ASSUME NEW i \in 1..Len(t) PROVE t[i] = Joint(x, y)[i]
  <2>1. CASE i <= n
    <3>1. i \in 1..Len(x)
          BY <1>1, <2>1
    <3>2. Joint(x, y)[i] = x[i]
          BY <1>1, <1>2, <3>1, JointLen
    <3> QED BY <1>1, <3>1, <3>2
  <2>2. CASE i > n
    <3> DEFINE j == i - n
    <3>1. j \in 1..Len(y) /\ Len(x) + j = i /\ n + j = i
          BY <1>1, <1>2, <2>2
    <3> HIDE DEF j
    <3>2. Joint(x, y)[Len(x) + j] = y[j]
      <4>1. x \in Seq(S) /\ y \in Seq(S)
            BY <1>1, <1>2
      <4>2. \A m \in 1..Len(y) : Joint(x, y)[Len(x) + m] = y[m]
            BY <4>1, JointAt
      <4> QED BY <3>1, <4>2
    <3>3. y[j] = t[n + j]
          BY <1>2, <3>1
    <3> QED BY <3>1, <3>2, <3>3
  <2> QED BY <2>1, <2>2
<1>5. t = Joint(x, y)
  <2> DEFINE z == Joint(x, y)
  <2>1. z \in Seq(S) /\ Len(t) = Len(z) /\ \A i \in 1..Len(t) : t[i] = z[i]
        BY <1>3, <1>4
  <2> HIDE DEF z
  <2>2. t = z
        BY <2>1, SeqEqual
  <2> QED BY <2>2 DEF z
<1> QED BY <1>1, <1>2, <1>5 DEF x

\* A text that is not read to the end has no part that is.
LEMMA PartsUnread ==
    ASSUME NEW s, NEW t \in Seq(Symbol), ~Parsed(Parse(s, t)), NEW n \in 0..Len(t)
    PROVE  ~Parsed(Parse(s, SubSeq(t, 1, n)))
<1>1. PICK x \in Seq(Symbol), y \in Seq(Symbol) : x = SubSeq(t, 1, n) /\ Len(x) = n /\ t = Joint(x, y)
      BY SplitText
<1>2. Parse(s, t) = Parse(Parse(s, x), y)
  <2>1. Parse(s, Joint(x, y)) = Parse(Parse(s, x), y)
        BY ParseJoint
  <2> QED BY <1>1, <2>1
<1> DEFINE u == Parse(s, x)
<1> HIDE DEF u
<1>3. Parsed(u) => Parse(u, y) = u
      BY Settled
<1> QED BY <1>1, <1>2, <1>3 DEF u

\* The reader before the first bracket, and without the node of the caller.
Begun == [stack |-> <<New("null")>>, names |-> <<>>, root |-> New("null"), next |-> "json", lexeme |-> <<>>]
Empty == [stack |-> <<>>, names |-> <<>>, root |-> New("null"), next |-> "json", lexeme |-> <<>>]

LEMMA EmptyReader == Empty \in Reader
<1>1. New("null") \in OpenNode
      BY NewShape DEF Types, Atoms
<1>2. <<>> \in Seq(OpenNode) /\ <<>> \in Seq(Plain)
      OBVIOUS
<1> QED BY <1>1, <1>2 DEF Empty, Reader, Nexts

LEMMA StepFirst ==
    /\ Step(Begun, Tok("{")) = Open(Empty, New("object"), "members")
    /\ Failed(Step(Open(Empty, New("object"), "members"), Tok("[")))
    /\ \A x : x.t \in Atoms \cup {"string"} => Failed(Step(Begun, x))
<1> DEFINE null == New("null")
           o == New("object")
<1>1. Last(<<null>>) = null /\ Front(<<null>>) = <<>> /\ Append(<<>>, o) = <<o>> /\ null.type = "null"
  <2>1. null.type = "null"
        BY DEF New
  <2> HIDE DEF null, o
  <2>2. Len(<<null>>) = 1
        OBVIOUS
  <2>3. Last(<<null>>) = null
        BY <2>2 DEF Last
  <2>4. Front(<<null>>) = <<>>
        BY <2>2 DEF Front
  <2>5. Append(<<>>, o) = <<o>>
        OBVIOUS
  <2> QED BY <2>1, <2>3, <2>4, <2>5
<1>2. Begun.next = "json" /\ Begun.stack = <<null>>
      BY DEF Begun
<1>3. Step(Begun, Tok("{")) = Open(Empty, o, "members")
  <2>1. Step(Begun, Tok("{")) = Begin(Begun, "object", "members")
        BY <1>2 DEF Step, Tok, Token, Atoms
  <2> HIDE DEF null
  <2>2. Begin(Begun, "object", "members") = [Begun EXCEPT !.stack = Append(<<>>, o), !.next = "members"]
    <3> HIDE DEF o
    <3> QED BY <1>1, <1>2 DEF Begin, o
  <2> HIDE DEF o
  <2>3. ASSUME NEW w, w = [Begun EXCEPT !.stack = Append(<<>>, o), !.next = "members"]
        PROVE  w = [stack |-> Append(<<>>, o), names |-> <<>>, root |-> New("null"), next |-> "members",
             lexeme |-> <<>>]
        BY <2>3 DEF Begun
  <2>4. ASSUME NEW w, w = Open(Empty, o, "members")
        PROVE  w = [stack |-> Append(<<>>, o), names |-> <<>>, root |-> New("null"), next |-> "members",
             lexeme |-> <<>>]
        BY <2>4 DEF Open, Empty
  <2>5. Begin(Begun, "object", "members")
            = [stack |-> Append(<<>>, o), names |-> <<>>, root |-> New("null"), next |-> "members",
             lexeme |-> <<>>]
        BY <2>2, <2>3
  <2>6. Open(Empty, o, "members")
            = [stack |-> Append(<<>>, o), names |-> <<>>, root |-> New("null"), next |-> "members",
             lexeme |-> <<>>]
        BY <2>4
  <2> QED BY <2>1, <2>5, <2>6
<1>4. Failed(Step(Open(Empty, o, "members"), Tok("[")))
  <2> DEFINE u == Open(Empty, o, "members")
  <2>1. o \in OpenNode
        BY NewShape DEF Types
  <2> HIDE DEF o
  <2>2. u.next = "members" /\ u \in Reader
    <3>1. Opened(Empty, o, "members", u)
          BY <2>1, EmptyReader, OpenIs DEF Nexts
    <3> QED BY <3>1 DEF Opened
  <2> HIDE DEF u
  <2>3. Step(u, Tok("[")) = [u EXCEPT !.next = "fail"]
        BY <2>2 DEF Step, Tok, Token, Atoms
  <2>4. ASSUME NEW w, w = [u EXCEPT !.next = "fail"] PROVE w.next = "fail"
        BY <2>2, <2>4 DEF Reader
  <2>5. Failed(Step(u, Tok("[")))
        BY <2>3, <2>4 DEF Failed
  <2> QED BY <2>5 DEF u, o
<1>5. ASSUME NEW x, x.t \in Atoms \cup {"string"} PROVE Failed(Step(Begun, x))
  <2>1. Step(Begun, x) = [Begun EXCEPT !.next = "fail"]
        BY <1>2, <1>5 DEF Step, Atoms
  <2>2. ASSUME NEW w, w = [Begun EXCEPT !.next = "fail"] PROVE w.next = "fail"
        BY <2>2 DEF Begun
  <2> QED BY <2>1, <2>2 DEF Failed
<1> QED BY <1>3, <1>4, <1>5

LEMMA ReadFirst ==
    /\ Begun \in Reader
    /\ ReadSymbol(Begun, Tok("{")) = Open(Empty, New("object"), "members")
    /\ Failed(ReadSymbol(Open(Empty, New("object"), "members"), Tok("[")))
    /\ \A t \in Atoms, a \in Int : Failed(ReadSymbol(Begun, Token(t, a)))
    /\ \A c : Failed(Step(Begun, Token("string", c)))
<1> DEFINE null == New("null")
           u == Open(Empty, New("object"), "members")
<1>1. Begun \in Reader /\ Begun.lexeme = <<>> /\ Begun.next = "json"
  <2>1. null \in OpenNode
        BY NewShape DEF Types, Atoms
  <2>2. <<null>> \in Seq(OpenNode) /\ <<>> \in Seq(Plain)
    <3> HIDE DEF null
    <3> QED BY <2>1
  <2> QED BY <2>1, <2>2 DEF Begun, Reader, Nexts
<1>2. u.lexeme = <<>> /\ u.next = "members"
  <2>1. New("object") \in OpenNode
        BY NewShape DEF Types
  <2>2. Opened(Empty, New("object"), "members", u)
        BY <2>1, EmptyReader, OpenIs DEF Nexts
  <2> QED BY <2>2 DEF Opened, Reader
<1> HIDE DEF u
<1>3. Tok("{") # Mark /\ Tok("[") # Mark
      BY TokIs DEF Punctuation
<1>4. ReadSymbol(Begun, Tok("{")) = Step(Begun, Tok("{")) /\ ReadSymbol(u, Tok("[")) = Step(u, Tok("["))
      BY <1>1, <1>2, <1>3, ReadOutside
<1>5. ASSUME NEW t \in Atoms, NEW a \in Int PROVE Failed(ReadSymbol(Begun, Token(t, a)))
  <2>1. Token(t, a) # Mark /\ Token(t, a).t = t
        BY TokIs DEF Token
  <2>2. ReadSymbol(Begun, Token(t, a)) = Step(Begun, Token(t, a))
        BY <1>1, <2>1, ReadOutside
  <2> QED BY <2>1, <2>2, StepFirst
<1>6. ASSUME NEW c PROVE Failed(Step(Begun, Token("string", c)))
  <2>1. Token("string", c).t = "string"
        BY DEF Token
  <2> QED BY <2>1, StepFirst
<1> QED BY <1>1, <1>4, <1>5, <1>6, StepFirst DEF u

\* An array, or a value of its own, is no text that FromString reads.
LEMMA FailedUnread ==
    ASSUME NEW u, Failed(u)
    PROVE  ~Parsed(u)
BY DEF Failed, Parsed

LEMMA WrappedUnread ==
    ASSUME NEW node, node.type # "object", NEW body \in Seq(Symbol)
    PROVE  /\ Bracketed(New("object"), Bracketed(node, body)) \in Seq(Symbol)
           /\ ~Parsed(Parse(Begun, Bracketed(New("object"), Bracketed(node, body))))
<1> DEFINE w == Bracketed(node, body)
           t == Bracketed(New("object"), w)
           u == Open(Empty, New("object"), "members")
<1>1. /\ Opening(New("object")) = Tok("{") /\ Opening(node) = Tok("[")
      BY DEF Opening, New
<1>2. w \in Seq(Symbol) /\ <<Closing(node)>> \in Seq(Symbol) /\ <<Closing(New("object"))>> \in Seq(Symbol)
      BY BracketIs
<1>3. t \in Seq(Symbol)
  <2> HIDE DEF w
  <2> QED BY <1>2, BracketIs
<1>4. Parse(Begun, t) = ReadSymbol(Parse(u, w), Closing(New("object")))
  <2> HIDE DEF w
  <2>1. Parse(Begun, t) = ReadSymbol(Parse(ReadSymbol(Begun, Opening(New("object"))), w), Closing(New("object")))
        BY <1>2, BracketRead
  <2> HIDE DEF t
  <2> QED BY <1>1, <2>1, ReadFirst
<1> DEFINE f == ReadSymbol(u, Tok("["))
<1>5. Failed(f)
      BY ReadFirst
<1>6. Parse(u, w) = ReadSymbol(Parse(f, body), Closing(node))
  <2>1. Parse(u, w) = ReadSymbol(Parse(ReadSymbol(u, Opening(node)), body), Closing(node))
    <3> HIDE DEF u
    <3> QED BY BracketRead
  <2> HIDE DEF u, w
  <2> QED BY <1>1, <2>1
<1> HIDE DEF u, w, t, f
<1>7. Parse(f, body) = f /\ Parse(f, <<Closing(node)>>) = f /\ Parse(f, <<Closing(New("object"))>>) = f
      BY <1>2, <1>5, Settled
<1>8. ReadSymbol(f, Closing(node)) = f /\ ReadSymbol(f, Closing(New("object"))) = f
      BY <1>7, ParseOne
<1>9. Parse(Begun, t) = f
      BY <1>4, <1>6, <1>7, <1>8
<1> QED BY <1>3, <1>5, <1>9, FailedUnread DEF t, w

LEMMA LeafText ==
    ASSUME NEW node \in PlainLeaves
    PROVE  \/ \E e \in Plain : WriteLeaf(node) = Quoted(e)
           \/ \E t \in Atoms, a \in Int : \E y \in Seq(Symbol) : WriteLeaf(node) = Joint(<<Token(t, a)>>, y)
<1> DEFINE v == node.val
           Begins(text) == \E t \in Atoms, a \in Int : \E y \in Seq(Symbol) : text = Joint(<<Token(t, a)>>, y)
<1>1. /\ node.type \in Atoms \cup {"string"}
      /\ node.type \in {"null", "bool", "int"} => v \in Int
      /\ node.type = "double" => v \in Doubles
      /\ node.type = "string" => node.str \in Plain
      BY LeafType DEF PlainLeaves
<1>2. ASSUME NEW t \in Atoms, NEW a \in Int PROVE Begins(<<Token(t, a)>>)
  <2> DEFINE x == <<Token(t, a)>>
  <2>1. Joint(x, <<>>) = x
        BY DEF Joint
  <2>2. <<>> \in Seq(Symbol)
        OBVIOUS
  <2> QED BY <2>1, <2>2
<1>3. CASE node.type = "string"
  <2>1. WriteLeaf(node) = Quoted(EscapeString(node.str))
        BY <1>3 DEF WriteLeaf
  <2>2. EscapeString(node.str) \in Plain
        BY <1>1, <1>3, EscapePlain
  <2> QED BY <2>1, <2>2
<1>4. CASE node.type \in {"null", "bool", "int"}
  <2>1. WriteLeaf(node) = <<Token(node.type, v)>>
        BY <1>4 DEF WriteLeaf
  <2>2. node.type \in Atoms /\ v \in Int
        BY <1>1, <1>4
  <2> HIDE DEF Begins
  <2>3. Begins(WriteLeaf(node))
        BY <1>2, <2>1, <2>2
  <2> QED BY <2>3 DEF Begins
<1>5. CASE node.type = "double"
  <2> DEFINE r == Rounded(v)
             w == r \div One
  <2>1. WriteLeaf(node) = WriteDouble(v)
        BY <1>5 DEF WriteLeaf
  <2>2. r \in Nat
        BY <1>1, <1>5, RoundedIs
  <2>3. w \in Int /\ r \in Int
    <3> HIDE DEF r
    <3> QED BY <2>2, DoubleAssumption
  <2>4. "int" \in Atoms /\ "double" \in Atoms /\ 1 \in Int
        BY DEF Atoms
  <2>5. \/ WriteDouble(v) = <<Token("int", w)>>
        \/ WriteDouble(v) = <<Token("int", 1), Tok("letter")>>
        \/ WriteDouble(v) = <<Token("double", r)>>
        BY DEF WriteDouble
  <2>6. Begins(<<Token("int", 1), Tok("letter")>>)
    <3>1. <<Token("int", 1), Tok("letter")>> = Joint(<<Token("int", 1)>>, <<Tok("letter")>>)
          BY DEF Joint
    <3>2. <<Tok("letter")>> \in Seq(Symbol)
      <4>1. Tok("letter") \in Symbol
            BY TokIs
      <4> QED BY <4>1
    <3> QED BY <2>4, <3>1, <3>2
  <2> HIDE DEF Begins, r, w
  <2>7. Begins(WriteLeaf(node))
        BY <1>2, <2>1, <2>3, <2>4, <2>5, <2>6
  <2> QED BY <2>7 DEF Begins
<1> QED BY <1>1, <1>3, <1>4, <1>5 DEF Atoms

LEMMA LeafUnread ==
    ASSUME NEW node \in PlainLeaves
    PROVE  /\ WriteLeaf(node) \in Seq(Symbol) /\ WriteLeaf(node)[1].t # "["
           /\ ~Parsed(Parse(Begun, WriteLeaf(node)))
<1>1. WriteLeaf(node) \in Seq(Symbol)
      BY LeafRead
<1>2. ASSUME NEW e \in Plain, WriteLeaf(node) = Quoted(e)
      PROVE  WriteLeaf(node)[1].t # "[" /\ ~Parsed(Parse(Begun, WriteLeaf(node)))
  <2> DEFINE m == <<Mark>>
             q == Joint(m, e)
  <2>1. e \in Seq(Symbol) /\ m \in Seq(Symbol) /\ q \in Seq(Symbol) /\ Quoted(e) = Joint(q, m)
        BY QuotedIs
  <2>2. Len(m) = 1 /\ m[1] = Mark
        OBVIOUS
  <2> HIDE DEF m
  <2>3. q[1] = m[1] /\ 1 \in 1..Len(q)
    <3>1. Len(q) = Len(m) + Len(e) /\ \A i \in 1..Len(m) : q[i] = m[i]
          BY <2>1, JointLen
    <3>2. Len(e) \in Nat /\ 1 \in 1..Len(m)
          BY <2>1, <2>2
    <3> QED BY <2>2, <3>1, <3>2
  <2> HIDE DEF q
  <2>4. Joint(q, m)[1] = Mark
    <3>1. \A i \in 1..Len(q) : Joint(q, m)[i] = q[i]
          BY <2>1, JointLen
    <3> QED BY <2>2, <2>3, <3>1
  <2>5. Mark.t # "["
        BY DEF Mark, Tok, Token
  <2>6. Parse(Begun, Quoted(e)) = Step(Begun, Token("string", e))
        BY ReadFirst, ReadQuoted DEF Begun
  <2>7. Failed(Step(Begun, Token("string", e)))
        BY ReadFirst
  <2> QED BY <1>2, <2>1, <2>4, <2>5, <2>6, <2>7, FailedUnread
<1>3. ASSUME NEW t \in Atoms, NEW a \in Int, NEW y \in Seq(Symbol), WriteLeaf(node) = Joint(<<Token(t, a)>>, y)
      PROVE  WriteLeaf(node)[1].t # "[" /\ ~Parsed(Parse(Begun, WriteLeaf(node)))
  <2> DEFINE x == <<Token(t, a)>>
             f == ReadSymbol(Begun, Token(t, a))
  <2>1. Token(t, a).t = t /\ Token(t, a) \in Symbol /\ t # "["
        BY TokIs DEF Token, Atoms
  <2>2. Len(x) = 1 /\ x[1] = Token(t, a) /\ x \in Seq(Symbol)
    <3> DEFINE z == Token(t, a)
    <3> HIDE DEF z
    <3> QED BY <2>1 DEF z
  <2>3. Parse(Begun, x) = f
        BY ParseOne
  <2>4. Failed(f)
        BY ReadFirst
  <2> HIDE DEF x, f
  <2>5. Joint(x, y)[1] = x[1]
    <3>1. \A i \in 1..Len(x) : Joint(x, y)[i] = x[i]
          BY <2>2, JointLen
    <3> QED BY <2>2, <3>1
  <2>6. Parse(Begun, Joint(x, y)) = Parse(f, y)
        BY <2>2, <2>3, ParseJoint
  <2>7. Parse(f, y) = f
        BY <2>4, Settled
  <2>8. WriteLeaf(node) = Joint(x, y)
        BY <1>3 DEF x
  <2> QED BY <2>1, <2>2, <2>4, <2>5, <2>6, <2>7, <2>8, FailedUnread
<1> QED BY <1>1, <1>2, <1>3, LeafText

\* An object at the top: only the last bracket ends it.
LEMMA ObjectRead ==
    ASSUME NEW node \in Trees(Nesting), node.type = "object", NEW t, t = JSONToString(node),
           NEW w, w = Parse(Begun, t)
    PROVE  /\ t \in Seq(Symbol)
           /\ Parsed(w) /\ w.root = node <=> node \in Kept(Nesting)
           /\ Parsed(w) => w.stack = <<>> /\ w.names = <<>>
           /\ \A n \in 0..(Len(t) - 1) : ~Parsed(Parse(Begun, SubSeq(t, 1, n)))
<1> DEFINE k == Nesting
<1>1. k \in 1..Nesting /\ node \in Lists(Trees(k - 1))
  <2>1. node \notin PlainLeaves
        BY LeafType DEF PlainLeaves
  <2>2. Nesting # 0
        BY <2>1, TreesAre
  <2>3. k \in 1..Nesting
        BY <2>2, NestingAssumption
  <2> QED BY <2>1, <2>3, TreesAre
<1>2. \A y \in Trees(k - 1) : Readable(k - 1, y)
  <2>1. k - 1 \in 0..Nesting
        BY <1>1, NestingAssumption
  <2> HIDE DEF k
  <2> QED BY <2>1, AllReadable
<1> HIDE DEF k
<1>3. PICK body \in Seq(Symbol) :
          /\ Write[k][node] = Bracketed(node, body)
          /\ \A s \in Reader :
                 BodyOutcome(k, node, s, Parse(Open(s, New(node.type), After(node, 0)), body))
      BY <1>1, <1>2, BodyRead
<1> DEFINE a == <<Opening(node)>>
           b == Joint(a, body)
           c == <<Closing(node)>>
           u == Open(Empty, New("object"), "members")
           e == Parse(u, body)
<1>4. Opening(node) = Tok("{") /\ Closing(node) = Tok("}") /\ After(node, 0) = "members"
      BY DEF Opening, Closing, After
<1>5. /\ Bracketed(node, body) = Joint(b, c)
      /\ a \in Seq(Symbol) /\ b \in Seq(Symbol) /\ c \in Seq(Symbol) /\ Bracketed(node, body) \in Seq(Symbol)
      BY BracketIs
<1>6. Len(b) \in Nat /\ Len(Joint(b, c)) = Len(b) + 1 /\ \A i \in 1..Len(b) : Joint(b, c)[i] = b[i]
  <2>1. Len(c) = 1
        OBVIOUS
  <2> HIDE DEF b, c
  <2>2. Len(Joint(b, c)) = Len(b) + Len(c) /\ \A i \in 1..Len(b) : Joint(b, c)[i] = b[i]
        BY <1>5, JointLen
  <2> QED BY <1>5, <2>1, <2>2
<1>7. t = Joint(b, c)
  <2>1. Bracketed(node, body)[1] = Tok("{")
        BY <1>4, BracketFirst
  <2>2. t = Write[k][node]
    <3>1. Tok("{").t # "["
          BY DEF Tok, Token
    <3> QED BY <1>3, <2>1, <3>1 DEF JSONToString, k
  <2> QED BY <1>3, <1>5, <2>2
<1>8. BodyOutcome(k, node, Empty, e)
      BY <1>3, <1>4, EmptyReader
<1>9. Parse(Begun, b) = e /\ w = ReadSymbol(e, Closing(node))
  <2> HIDE DEF u
  <2>1. /\ Parse(Begun, Joint(<<Opening(node)>>, body)) = Parse(ReadSymbol(Begun, Opening(node)), body)
        /\ Parse(Begun, Bracketed(node, body)) = ReadSymbol(Parse(ReadSymbol(Begun, Opening(node)), body), Closing(node))
        BY BracketRead
  <2>2. ReadSymbol(Begun, Opening(node)) = u
        BY <1>4, ReadFirst DEF u
  <2> QED BY <1>5, <1>7, <2>1, <2>2
<1> HIDE DEF b, c, e
<1>10. ASSUME NEW n \in 0..(Len(t) - 1) PROVE ~Parsed(Parse(Begun, SubSeq(t, 1, n)))
  <2>1. n \in 0..Len(b)
        BY <1>6, <1>7
  <2>2. ~Parsed(Parse(Begun, b))
        BY <1>8, <1>9 DEF BodyOutcome
  <2>3. ~Parsed(Parse(Begun, SubSeq(b, 1, n)))
        BY <1>5, <2>1, <2>2, PartsUnread
  <2>4. SubSeq(t, 1, n) = SubSeq(b, 1, n)
    <3>1. t \in Seq(Symbol) /\ Len(t) = Len(b) + 1 /\ \A i \in 1..Len(b) : t[i] = b[i]
          BY <1>5, <1>6, <1>7
    <3> DEFINE x == SubSeq(t, 1, n)
               y == SubSeq(b, 1, n)
    <3>2. x \in Seq(Symbol) /\ Len(x) = n /\ \A i \in 1..n : x[i] = t[i]
          BY <2>1, <3>1, <1>6
    <3>3. y \in Seq(Symbol) /\ Len(y) = n /\ \A i \in 1..n : y[i] = b[i]
          BY <1>5, <2>1
    <3> HIDE DEF x, y
    <3>4. Len(x) = Len(y) /\ \A i \in 1..Len(x) : x[i] = y[i]
      <4>1. ASSUME NEW i \in 1..n PROVE x[i] = y[i]
        <5>1. i \in 1..Len(b)
              BY <1>6, <2>1
        <5> QED BY <3>1, <3>2, <3>3, <5>1
      <4> QED BY <3>2, <3>3, <4>1
    <3>5. x = y
          BY <3>2, <3>3, <3>4, SeqEqual
    <3> QED BY <3>5 DEF x, y
  <2> QED BY <2>3, <2>4
<1>11. /\ Parsed(w) /\ w.root = node <=> node \in Kept(k)
       /\ Parsed(w) => w.stack = <<>> /\ w.names = <<>>
  <2>1. CASE node \notin Kept(k) /\ Failed(e)
    <3>1. Parse(e, <<Closing(node)>>) = e
          BY <1>5, <2>1, Settled DEF c
    <3>2. w = e
          BY <1>9, <3>1, ParseOne
    <3> QED BY <2>1, <3>2, FailedUnread
  <2>2. ASSUME NEW x, ReadSymbol(e, Closing(node)) = Closed(Empty, x), x = node <=> node \in Kept(k)
        PROVE  /\ Parsed(w) /\ w.root = node <=> node \in Kept(k)
               /\ Parsed(w) => w.stack = <<>> /\ w.names = <<>>
    <3>1. Closed(Empty, x) = [Empty EXCEPT !.root = x, !.next = "end"]
          BY DEF Closed, Empty
    <3>2. w = [Empty EXCEPT !.root = x, !.next = "end"]
          BY <1>9, <2>2, <3>1
    <3>3. w.next = "end" /\ w.root = x /\ w.stack = <<>> /\ w.names = <<>>
          BY <3>2 DEF Empty
    <3> QED BY <2>2, <3>3 DEF Parsed
  <2> QED BY <1>8, <2>1, <2>2 DEF BodyOutcome
<1>12. t \in Seq(Symbol)
      BY <1>5, <1>7
<1> QED BY <1>10, <1>11, <1>12 DEF k

\* What the text of a node is read back as.
JSONResult(node) ==
    LET t == JSONToString(node) IN [whole |-> FromString(t), more |-> FromString(t \o t)]

ReadAs(node, t, w, more) ==
    /\ Parsed(w) /\ w.root = node <=> node \in Kept(Nesting) /\ node.type = "object"
    /\ Parsed(w) => w.stack = <<>> /\ w.names = <<>> /\ more = w
    /\ \A n \in 0..(Len(t) - 1) : ~Parsed(FromString(SubSeq(t, 1, n)))

LEMMA FromStringIs ==
    ASSUME NEW t
    PROVE  FromString(t) = Parse(Begun, t)
BY DEF FromString, Begun

LEMMA JSONRead ==
    ASSUME NEW node \in Trees(Nesting)
    PROVE  ReadAs(node, JSONToString(node), JSONResult(node).whole, JSONResult(node).more)
<1> DEFINE t == JSONToString(node)
           w == Parse(Begun, t)
           more == Parse(Begun, Joint(t, t))
<1>1. JSONResult(node).whole = w /\ JSONResult(node).more = more
  <2>1. JSONResult(node).whole = FromString(t) /\ JSONResult(node).more = FromString(Joint(t, t))
        BY DEF JSONResult, Joint
  <2> HIDE DEF t
  <2> QED BY <2>1, FromStringIs
<1>2. Nesting \in Nat /\ Nesting \in 0..Nesting
      BY NestingAssumption
<1>3. /\ t \in Seq(Symbol)
      /\ Parsed(w) /\ w.root = node <=> node \in Kept(Nesting) /\ node.type = "object"
      /\ Parsed(w) => w.stack = <<>> /\ w.names = <<>>
      /\ \A n \in 0..(Len(t) - 1) : ~Parsed(Parse(Begun, SubSeq(t, 1, n)))
  <2>1. CASE node.type = "object"
    <3> HIDE DEF t, w
    <3>1. t = JSONToString(node) /\ w = Parse(Begun, t)
          BY DEF t, w
    <3> QED BY <2>1, <3>1, ObjectRead
  <2>2. ASSUME node.type # "object", t \in Seq(Symbol), ~Parsed(w)
        PROVE  /\ t \in Seq(Symbol)
               /\ Parsed(w) /\ w.root = node <=> node \in Kept(Nesting) /\ node.type = "object"
               /\ Parsed(w) => w.stack = <<>> /\ w.names = <<>>
               /\ \A n \in 0..(Len(t) - 1) : ~Parsed(Parse(Begun, SubSeq(t, 1, n)))
    <3> HIDE DEF t
    <3>1. ASSUME NEW n \in 0..(Len(t) - 1) PROVE ~Parsed(Parse(Begun, SubSeq(t, 1, n)))
      <4>1. n \in 0..Len(t)
            BY <2>2
      <4> QED BY <2>2, <4>1, PartsUnread
    <3> HIDE DEF w
    <3> QED BY <2>2, <3>1
  <2>3. CASE node \in PlainLeaves
    <3>1. Write[Nesting][node] = WriteLeaf(node)
      <4>1. CASE Nesting = 0
            BY <2>3, <4>1, TextsAre
      <4>2. CASE Nesting # 0
        <5>1. Nesting \in 1..Nesting /\ node.type \notin {"array", "object"}
              BY <1>2, <2>3, <4>2, LeafType DEF PlainLeaves
        <5> QED BY <5>1, TextsAre DEF WriteNode
      <4> QED BY <4>1, <4>2
    <3>2. /\ WriteLeaf(node) \in Seq(Symbol) /\ WriteLeaf(node)[1].t # "["
          /\ ~Parsed(Parse(Begun, WriteLeaf(node)))
          BY <2>3, LeafUnread
    <3>3. t = WriteLeaf(node)
          BY <3>1, <3>2 DEF JSONToString
    <3>4. node.type # "object"
          BY <2>3, LeafType DEF PlainLeaves
    <3> HIDE DEF t
    <3>5. t \in Seq(Symbol) /\ ~Parsed(w)
          BY <3>2, <3>3
    <3> QED BY <2>2, <3>4, <3>5
  <2>4. CASE node.type # "object" /\ node \notin PlainLeaves
    <3> DEFINE k == Nesting
    <3>1. k \in 1..Nesting /\ node \in Lists(Trees(k - 1))
      <4>1. Nesting # 0
            BY <2>4, TreesAre
      <4>2. k \in 1..Nesting
            BY <1>2, <4>1
      <4> QED BY <2>4, <4>2, TreesAre
    <3>2. \A y \in Trees(k - 1) : Readable(k - 1, y)
      <4>1. k - 1 \in 0..Nesting
            BY <1>2, <3>1
      <4> HIDE DEF k
      <4> QED BY <4>1, AllReadable
    <3> HIDE DEF k
    <3>3. PICK body \in Seq(Symbol) : Write[k][node] = Bracketed(node, body)
          BY <3>1, <3>2, BodyRead
    <3>4. Bracketed(node, body)[1] = Tok("[")
          BY <2>4, BracketFirst DEF Opening
    <3>5. t = Bracketed(New("object"), Bracketed(node, body))
      <4>1. Tok("[").t = "[" /\ New("object").type = "object"
            BY DEF Tok, Token, New
      <4> QED BY <3>3, <3>4, <4>1 DEF JSONToString, k, Bracketed
    <3>6. t \in Seq(Symbol) /\ ~Parsed(w)
      <4> HIDE DEF t
      <4> QED BY <2>4, <3>5, WrappedUnread
    <3> HIDE DEF t, w
    <3> QED BY <2>2, <2>4, <3>6
  <2> HIDE DEF t, w
  <2> QED BY <2>1, <2>3, <2>4
<1>4. Parsed(w) => more = w
  <2> HIDE DEF t
  <2>1. more = Parse(w, t)
        BY <1>3, ParseJoint
  <2> HIDE DEF w
  <2> QED BY <1>3, <2>1, Settled
<1>5. \A n \in 0..(Len(t) - 1) : ~Parsed(FromString(SubSeq(t, 1, n)))
  <2> HIDE DEF t
  <2> QED BY <1>3, FromStringIs
<1>6. ReadAs(node, t, w, more)
  <2> HIDE DEF t, w, more
  <2> QED BY <1>3, <1>4, <1>5 DEF ReadAs
<1> QED BY <1>1, <1>6

-----------------------------------------------------------------------------
(***************************************************************************)
(* The reader on any text: an open object has the name of the member that  *)
(* is read for it, and no value holds a quotation mark.  C is what the     *)
(* nodes that are read consist of.                                         *)
(***************************************************************************)
NodeOver(C) == [type : Types, val : Int, str : Plain, mapOrder : Seq(Plain), vec : Seq(C)]
Family(C) == C \subseteq NodeOver(C)

LEMMA SeqGrows ==
    ASSUME NEW A, NEW B, A \subseteq B
    PROVE  Seq(A) \subseteq Seq(B)
<1>1. \A x \in A : x \in B
      OBVIOUS
<1>2. \A q \in Seq(A) : q \in Seq(B)
      BY <1>1
<1> QED BY <1>2

LEMMA NodeGrows ==
    ASSUME NEW A, NEW B, A \subseteq B
    PROVE  NodeOver(A) \subseteq NodeOver(B)
<1>1. Seq(A) \subseteq Seq(B)
      BY SeqGrows
<1> QED BY <1>1 DEF NodeOver

LEMMA FamilyGrows ==
    ASSUME NEW C, Family(C), NEW y \in NodeOver(C)
    PROVE  Family(C \cup {y})
<1>1. NodeOver(C) \subseteq NodeOver(C \cup {y})
      BY NodeGrows
<1> QED BY <1>1 DEF Family

LEMMA NewIn ==
    ASSUME NEW C
    PROVE  /\ \A type \in Types : New(type) \in NodeOver(C) /\ New(type).type = type
           /\ \A t \in Atoms, v \in Int : Leaf(t, v) \in NodeOver(C)
           /\ \A c \in Plain : Str(c) \in NodeOver(C)
<1>1. <<>> \in Plain /\ <<>> \in Seq(Plain) /\ <<>> \in Seq(C)
      BY DEF Plain
<1>2. ASSUME NEW type \in Types PROVE New(type) \in NodeOver(C) /\ New(type).type = type
      BY <1>1 DEF New, NodeOver
<1>3. ASSUME NEW t \in Atoms, NEW v \in Int PROVE Leaf(t, v) \in NodeOver(C)
  <2>1. Leaf(t, v) = [type |-> t, val |-> v, str |-> <<>>, mapOrder |-> <<>>, vec |-> <<>>]
        BY DEF Leaf, New
  <2>2. t \in Types
        BY DEF Types
  <2> QED BY <1>1, <2>1, <2>2 DEF NodeOver
<1>4. ASSUME NEW c \in Plain PROVE Str(c) \in NodeOver(C)
  <2>1. Str(c) = [type |-> "string", val |-> 0, str |-> c, mapOrder |-> <<>>, vec |-> <<>>]
        BY DEF Str, New
  <2>2. "string" \in Types
        BY DEF Types
  <2> QED BY <1>1, <2>1, <2>2 DEF NodeOver
<1> QED BY <1>2, <1>3, <1>4

LEMMA AddIn ==
    ASSUME NEW C, NEW m \in NodeOver(C), NEW x \in C
    PROVE  /\ Add(m, x) \in NodeOver(C) /\ Add(m, x).type = "array"
           /\ \A key \in Plain : Set(m, key, x) \in NodeOver(C) /\ Set(m, key, x).type = "object"
<1>1. /\ m.type \in Types /\ m.val \in Int /\ m.str \in Plain /\ m.mapOrder \in Seq(Plain) /\ m.vec \in Seq(C)
      /\ m = [type |-> m.type, val |-> m.val, str |-> m.str, mapOrder |-> m.mapOrder, vec |-> m.vec]
      BY DEF NodeOver
<1>2. "array" \in Types /\ "object" \in Types
      BY DEF Types
<1>3. ASSUME NEW type \in Types, NEW v \in Seq(C), NEW w, w = [m EXCEPT !.type = type, !.vec = v]
      PROVE  w \in NodeOver(C) /\ w.type = type
  <2>1. w = [type |-> type, val |-> m.val, str |-> m.str, mapOrder |-> m.mapOrder, vec |-> v]
        BY <1>1, <1>3
  <2> QED BY <1>1, <2>1 DEF NodeOver
<1>6. ASSUME NEW type \in Types, NEW o \in Seq(Plain), NEW v \in Seq(C), NEW w,
             w = [m EXCEPT !.type = type, !.mapOrder = o, !.vec = v]
      PROVE  w \in NodeOver(C) /\ w.type = type
  <2>1. w = [type |-> type, val |-> m.val, str |-> m.str, mapOrder |-> o, vec |-> v]
        BY <1>1, <1>6
  <2> QED BY <1>1, <2>1 DEF NodeOver
<1>4. Add(m, x) \in NodeOver(C) /\ Add(m, x).type = "array"
  <2> DEFINE v == Append(m.vec, x)
  <2>1. v \in Seq(C)
        BY <1>1
  <2>2. Add(m, x) = [m EXCEPT !.type = "array", !.vec = v]
        BY DEF Add
  <2> HIDE DEF v
  <2> QED BY <1>1, <1>2, <1>3, <2>1, <2>2
<1>5. ASSUME NEW key \in Plain PROVE Set(m, key, x) \in NodeOver(C) /\ Set(m, key, x).type = "object"
  <2>1. CASE Has(m, key)
    <3> DEFINE v == Replaced(m, key, x)
    <3>1. v \in Seq(C)
      <4> DEFINE q == m.vec
      <4>1. q \in Seq(C) /\ DOMAIN q = 1..Len(q) /\ Len(q) \in Nat
        <5>1. q \in Seq(C)
              BY <1>1
        <5> HIDE DEF q
        <5> QED BY <5>1
      <4> HIDE DEF q
      <4>2. [i \in 1..Len(q) |-> IF m.mapOrder[i] = key THEN x ELSE q[i]] \in [1..Len(q) -> C]
            BY <4>1
      <4>3. [i \in 1..Len(q) |-> IF m.mapOrder[i] = key THEN x ELSE q[i]] \in Seq(C)
            BY <4>1, <4>2
      <4> QED BY <4>1, <4>3 DEF Replaced, q
    <3>2. Set(m, key, x) = [m EXCEPT !.type = "object", !.vec = v]
      <4> HIDE DEF v
      <4>1. Replaced(m, key, x) = v
            BY DEF v
      <4> QED BY <2>1, <4>1 DEF Set
    <3> HIDE DEF v
    <3> QED BY <1>1, <1>2, <1>3, <3>1, <3>2
  <2>2. CASE ~Has(m, key)
    <3> DEFINE o == Append(m.mapOrder, key)
               v == Append(m.vec, x)
    <3>1. o \in Seq(Plain) /\ v \in Seq(C)
          BY <1>1
    <3>2. Set(m, key, x) = [m EXCEPT !.type = "object", !.mapOrder = o, !.vec = v]
          BY <2>2 DEF Set
    <3> HIDE DEF o, v
    <3> QED BY <1>2, <1>6, <3>1, <3>2
  <2> QED BY <2>1, <2>2
<1> QED BY <1>4, <1>5

\* h counts the objects among the first nodes of the stack.
Objects(stack, h) ==
    /\ h[0] = 0 /\ \A i \in 0..Len(stack) : h[i] \in Nat
    /\ \A i \in 1..Len(stack) : h[i] = h[i - 1] + (IF stack[i].type = "object" THEN 1 ELSE 0)

Lexemes == {<<>>} \cup {Joint(<<Mark>>, c) : c \in Plain}
State(C) == [stack : Seq(C), names : Seq(Plain), root : C, next : Nexts, lexeme : Lexemes]

\* The names that are kept, and the nodes that are open where something is expected.
NamesDue(stack, next, h) ==
    IF stack = <<>> THEN 0
    ELSE IF next \in {"colon", "value"} THEN h[Len(stack)] ELSE h[Len(stack) - 1]
TopFits(stack, next) ==
    /\ next = "end" <=> stack = <<>>
    /\ next = "json" => Len(stack) = 1 /\ stack[1].type = "null"
    /\ next # "json" => \A i \in 1..Len(stack) : stack[i].type \in {"array", "object"}
    /\ next \in {"members", "pair", "colon"} => stack[Len(stack)].type = "object"
    /\ next = "elements" => stack[Len(stack)].type = "array"

SoundIn(C, h, s) ==
    /\ Family(C) /\ s \in State(C)
    /\ Objects(s.stack, h) /\ TopFits(s.stack, s.next) /\ Len(s.names) = NamesDue(s.stack, s.next, h)
Sound(s) == Failed(s) \/ \E C, h : SoundIn(C, h, s)

\* The last element of a sequence, what is before it, and another in its place.
LEMMA SwapLast ==
    ASSUME NEW C, NEW q \in Seq(C), q # <<>>, NEW y \in C
    PROVE  /\ Len(q) \in Nat \ {0} /\ Last(q) = q[Len(q)] /\ q[Len(q)] \in C
           /\ Front(q) \in Seq(C) /\ Len(Front(q)) = Len(q) - 1
           /\ \A i \in 1..(Len(q) - 1) : Front(q)[i] = q[i]
           /\ Append(Front(q), y) \in Seq(C) /\ Len(Append(Front(q), y)) = Len(q)
           /\ Append(Front(q), y)[Len(q)] = y
           /\ \A i \in 1..(Len(q) - 1) : Append(Front(q), y)[i] = q[i]
<1> DEFINE f == Front(q)
           n == Len(q)
           a == Append(f, y)
<1>1. n \in Nat \ {0} /\ q[n] \in C
      OBVIOUS
<1>2. Last(q) = q[n]
      BY DEF Last
<1>3. f \in Seq(C) /\ Len(f) = n - 1 /\ \A i \in 1..(n - 1) : f[i] = q[i]
  <2>1. f = SubSeq(q, 1, n - 1)
        BY DEF Front
  <2>2. SubSeq(q, 1, n - 1) = [i \in 1..(n - 1) |-> q[i]]
        OBVIOUS
  <2> HIDE DEF f
  <2>3. n - 1 \in Nat /\ \A i \in 1..(n - 1) : q[i] \in C
        BY <1>1
  <2> HIDE DEF n
  <2>4. f = [i \in 1..(n - 1) |-> q[i]]
        BY <2>1, <2>2
  <2>5. f \in [1..(n - 1) -> C]
        BY <2>3, <2>4
  <2> QED BY <2>3, <2>4, <2>5
<1> HIDE DEF f, n
<1>4. a \in Seq(C) /\ Len(a) = n /\ a[n] = y /\ \A i \in 1..(n - 1) : a[i] = f[i]
      BY <1>1, <1>3
<1> HIDE DEF a
<1>5. \A i \in 1..(n - 1) : a[i] = q[i]
      BY <1>3, <1>4
<1> QED BY <1>1, <1>2, <1>3, <1>4, <1>5 DEF a, f, n

LEMMA SetDataSound ==
    ASSUME NEW C, NEW h, NEW s \in State(C), Family(C), s.stack # <<>>, Objects(s.stack, h),
           \A i \in 1..Len(s.stack) : s.stack[i].type \in {"array", "object"}, Len(s.names) = h[Len(s.stack)],
           NEW x \in NodeOver(C)
    PROVE  Sound(SetData(s, x))
<1> DEFINE q == s.stack
           n == Len(q)
           top == q[n]
           B == C \cup {x}
<1>1. /\ q \in Seq(C) /\ s.names \in Seq(Plain) /\ s.root \in C /\ s.lexeme \in Lexemes
      /\ s = [stack |-> q, names |-> s.names, root |-> s.root, next |-> s.next, lexeme |-> s.lexeme]
      BY DEF State
<1>2. Family(B) /\ C \subseteq B /\ x \in B
      BY FamilyGrows
<1>3. n \in Nat \ {0} /\ Last(q) = top /\ top \in C /\ top \in NodeOver(B)
  <2>1. n \in Nat \ {0} /\ Last(q) = top /\ top \in C
    <3>1. x \in B /\ q \in Seq(B) /\ q # <<>>
          BY <1>1, <1>2, SeqGrows
    <3>2. q[Len(q)] \in C
          BY <1>1
    <3> HIDE DEF q, B
    <3> QED BY <3>1, <3>2, SwapLast
  <2> QED BY <1>2, <2>1 DEF Family
<1>4. /\ h[0] = 0 /\ \A i \in 0..n : h[i] \in Nat
      /\ \A i \in 1..n : h[i] = h[i - 1] + (IF q[i].type = "object" THEN 1 ELSE 0)
      BY DEF Objects
<1>5. ASSUME NEW y \in NodeOver(B), y.type = top.type, NEW names \in Seq(Plain), Len(names) = h[n - 1],
             NEW w, w = [stack |-> Append(Front(q), y), names |-> names, root |-> s.root, next |-> "more",
                         lexeme |-> s.lexeme]
      PROVE  Sound(w)
  <2> DEFINE D == B \cup {y}
             p == Append(Front(q), y)
  <2>1. Family(D) /\ C \subseteq D /\ y \in D
        BY <1>2, FamilyGrows
  <2>2. q \in Seq(D) /\ s.root \in D
        BY <1>1, <2>1, SeqGrows
  <2>3. p \in Seq(D) /\ Len(p) = n /\ p[n] = y /\ \A i \in 1..(n - 1) : p[i] = q[i]
    <3> HIDE DEF q, D, p
    <3> QED BY <2>1, <2>2, SwapLast DEF n, p, q
  <2> HIDE DEF p, D, q, top
  <2>4. w.stack = p /\ w.names = names /\ w.next = "more"
        BY <1>5 DEF p
  <2>5. w \in State(D)
    <3>1. "more" \in Nexts
          BY DEF Nexts
    <3> QED BY <1>1, <1>5, <2>2, <2>3, <3>1 DEF State, p
  <2>11. \A i \in 1..Len(p) : p[i].type = q[i].type
    <3> SUFFICES ASSUME NEW i \in 1..n PROVE p[i].type = q[i].type
        BY <2>3
    <3>1. CASE i = n
          BY <1>5, <2>3, <3>1 DEF top
    <3>2. CASE i # n
      <4>1. i \in 1..(n - 1)
            BY <1>3, <3>2
      <4> QED BY <2>3, <4>1
    <3> QED BY <3>1, <3>2
  <2>6. Objects(p, h)
    <3>1. ASSUME NEW i \in 1..n PROVE h[i] = h[i - 1] + (IF p[i].type = "object" THEN 1 ELSE 0)
      <4>1. p[i].type = q[i].type
            BY <2>3, <2>11
      <4> QED BY <1>4, <4>1
    <3> QED BY <1>4, <2>3, <3>1 DEF Objects
  <2>7. p # <<>>
        BY <1>3, <2>3
  <2>8. TopFits(p, "more")
    <3>1. \A i \in 1..Len(p) : p[i].type \in {"array", "object"}
          BY <2>3, <2>11 DEF q
    <3> QED BY <2>7, <3>1 DEF TopFits
  <2>9. NamesDue(p, "more", h) = h[n - 1]
        BY <2>3, <2>7 DEF NamesDue
  <2>10. SoundIn(D, h, w)
        BY <1>5, <2>1, <2>4, <2>5, <2>6, <2>8, <2>9 DEF SoundIn
  <2> QED BY <2>10 DEF Sound
<1>6. CASE top.type = "object"
  <2> DEFINE key == Last(s.names)
             names == Front(s.names)
             y == Set(top, key, x)
  <2>1. h[n] = h[n - 1] + 1 /\ h[n - 1] \in Nat
    <3>1. n \in 1..n /\ n - 1 \in 0..n
          BY <1>3
    <3> HIDE DEF q, n
    <3> QED BY <1>4, <1>6, <3>1
  <2>2. Len(s.names) = h[n - 1] + 1
        BY <2>1
  <2>3. s.names # <<>>
    <3> DEFINE o == s.names
    <3>1. o \in Seq(Plain) /\ Len(o) # 0
          BY <1>1, <2>1, <2>2
    <3> HIDE DEF o
    <3>2. o # <<>>
          BY <3>1
    <3> QED BY <3>2 DEF o
  <2>4. key \in Plain /\ names \in Seq(Plain) /\ Len(names) = h[n - 1]
    <3> DEFINE o == s.names
    <3>1. <<>> \in Plain
          BY DEF Plain
    <3>2. Len(o) \in Nat \ {0} /\ Last(o) = o[Len(o)] /\ o[Len(o)] \in Plain
          /\ Front(o) \in Seq(Plain) /\ Len(Front(o)) = Len(o) - 1
      <4>1. o \in Seq(Plain) /\ o # <<>>
            BY <1>1, <2>3
      <4> HIDE DEF o
      <4> QED BY <3>1, <4>1, SwapLast
    <3> HIDE DEF n
    <3> QED BY <2>1, <2>2, <3>2
  <2>5. y \in NodeOver(B) /\ y.type = "object"
    <3> HIDE DEF top, key, B
    <3> QED BY <1>2, <1>3, <2>4, AddIn
  <2>6. SetData(s, x) = [s EXCEPT !.stack = Append(Front(q), y), !.names = names, !.next = "more"]
        BY <1>3, <1>6 DEF SetData
  <2> HIDE DEF y, names, q, n, top, B
  <2>7. SetData(s, x) = [stack |-> Append(Front(q), y), names |-> names, root |-> s.root, next |-> "more",
                         lexeme |-> s.lexeme]
    <3>1. ASSUME NEW w, w = [s EXCEPT !.stack = Append(Front(q), y), !.names = names, !.next = "more"]
          PROVE  w = [stack |-> Append(Front(q), y), names |-> names, root |-> s.root, next |-> "more",
                      lexeme |-> s.lexeme]
          BY <1>1, <3>1
    <3> QED BY <2>6, <3>1
  <2> QED BY <1>5, <1>6, <2>4, <2>5, <2>7
<1>7. CASE top.type = "array"
  <2> DEFINE y == Add(top, x)
  <2>1. Len(s.names) = h[n - 1]
    <3>1. n \in 1..n /\ n - 1 \in 0..n
          BY <1>3
    <3>2. Len(s.names) = h[n]
          OBVIOUS
    <3> HIDE DEF q, n
    <3>3. h[n - 1] \in Nat /\ h[n] = h[n - 1]
          BY <1>4, <1>7, <3>1
    <3> QED BY <3>2, <3>3
  <2>2. y \in NodeOver(B) /\ y.type = "array"
    <3> HIDE DEF top, B
    <3> QED BY <1>2, <1>3, AddIn
  <2>3. SetData(s, x) = [s EXCEPT !.stack = Append(Front(q), y), !.next = "more"]
        BY <1>3, <1>7 DEF SetData
  <2> HIDE DEF y, q, n, top, B
  <2>4. SetData(s, x) = [stack |-> Append(Front(q), y), names |-> s.names, root |-> s.root, next |-> "more",
                         lexeme |-> s.lexeme]
    <3>1. ASSUME NEW w, w = [s EXCEPT !.stack = Append(Front(q), y), !.next = "more"]
          PROVE  w = [stack |-> Append(Front(q), y), names |-> s.names, root |-> s.root, next |-> "more",
                      lexeme |-> s.lexeme]
          BY <1>1, <3>1
    <3> QED BY <2>3, <3>1
  <2> QED BY <1>1, <1>5, <1>7, <2>1, <2>2, <2>4
<1>8. top.type \in {"array", "object"}
  <2>1. n \in 1..n
        BY <1>3
  <2> QED BY <2>1
<1> QED BY <1>6, <1>7, <1>8


\* What a state of the reader is made of.
LEMMA SoundRecord ==
    ASSUME NEW C, NEW h, Family(C), NEW q \in Seq(C), NEW names \in Seq(Plain), NEW root \in C,
           NEW next \in Nexts, NEW lexeme \in Lexemes,
           Objects(q, h), TopFits(q, next), Len(names) = NamesDue(q, next, h)
    PROVE  Sound([stack |-> q, names |-> names, root |-> root, next |-> next, lexeme |-> lexeme])
<1> DEFINE w == [stack |-> q, names |-> names, root |-> root, next |-> next, lexeme |-> lexeme]
<1>1. w \in State(C) /\ w.stack = q /\ w.names = names /\ w.next = next
      BY DEF State
<1> HIDE DEF w
<1>2. SoundIn(C, h, w)
      BY <1>1 DEF SoundIn
<1> QED BY <1>2 DEF Sound, w

LEMMA StateRecord ==
    ASSUME NEW C, NEW s \in State(C)
    PROVE  /\ s.stack \in Seq(C) /\ s.names \in Seq(Plain) /\ s.root \in C /\ s.next \in Nexts
           /\ s.lexeme \in Lexemes
           /\ s = [stack |-> s.stack, names |-> s.names, root |-> s.root, next |-> s.next,
                   lexeme |-> s.lexeme]
BY DEF State

\* A new node is opened in what is around it.
LEMMA OpensSound ==
    ASSUME NEW C, NEW h, NEW s \in State(C), Family(C), NEW q \in Seq(C), Objects(q, h),
           Len(s.names) = h[Len(q)], \A i \in 1..Len(q) : q[i].type \in {"array", "object"},
           NEW type \in {"array", "object"}, NEW next, next = IF type = "object" THEN "members" ELSE "elements"
    PROVE  Sound([s EXCEPT !.stack = Append(q, New(type)), !.next = next])
<1> DEFINE m == New(type)
           D == C \cup {m}
           n == Len(q)
           p == Append(q, m)
           g == [i \in 0..(n + 1) |-> IF i <= n THEN h[i] ELSE h[n] + (IF type = "object" THEN 1 ELSE 0)]
<1>1. m \in NodeOver(C) /\ m.type = type
  <2>1. type \in Types
        BY DEF Types
  <2> QED BY <2>1, NewIn
<1> HIDE DEF m
<1>2. Family(D) /\ C \subseteq D /\ m \in D
      BY <1>1, FamilyGrows
<1>3. q \in Seq(D) /\ s.root \in D /\ s.names \in Seq(Plain) /\ s.lexeme \in Lexemes
      BY <1>2, SeqGrows, StateRecord
<1>4. n \in Nat /\ p \in Seq(D) /\ Len(p) = n + 1 /\ p[n + 1] = m /\ \A i \in 1..n : p[i] = q[i]
  <2> HIDE DEF D
  <2> QED BY <1>2, <1>3
<1>5. /\ h[0] = 0 /\ \A i \in 0..n : h[i] \in Nat
      /\ \A i \in 1..n : h[i] = h[i - 1] + (IF q[i].type = "object" THEN 1 ELSE 0)
      BY DEF Objects
<1> HIDE DEF n, D, p
<1>6. Objects(p, g)
  <2>1. \A i \in 0..n : g[i] = h[i]
        BY <1>4
  <2>2. n + 1 \in 0..(n + 1) /\ n \in 0..n /\ 0 \in 0..n
        BY <1>4
  <2>3. g[n + 1] = h[n] + (IF type = "object" THEN 1 ELSE 0)
        BY <1>4, <2>2
  <2> HIDE DEF g
  <2>4. g[0] = 0 /\ \A i \in 0..(n + 1) : g[i] \in Nat
    <3>1. g[0] = 0
          BY <1>5, <2>1, <2>2
    <3>2. ASSUME NEW i \in 0..(n + 1) PROVE g[i] \in Nat
      <4>1. CASE i \in 0..n
            BY <1>5, <2>1, <4>1
      <4>2. CASE i = n + 1
            BY <1>5, <2>2, <2>3, <4>2
      <4>3. i \in 0..n \/ i = n + 1
            BY <1>4
      <4> QED BY <4>1, <4>2, <4>3
    <3> QED BY <3>1, <3>2
  <2>5. ASSUME NEW i \in 1..(n + 1) PROVE g[i] = g[i - 1] + (IF p[i].type = "object" THEN 1 ELSE 0)
    <3>1. CASE i \in 1..n
      <4>1. g[i] = h[i] /\ g[i - 1] = h[i - 1] /\ p[i] = q[i]
        <5>1. i \in 0..n /\ i - 1 \in 0..n
              BY <1>4, <3>1
        <5> QED BY <1>4, <2>1, <3>1, <5>1
      <4> QED BY <1>5, <3>1, <4>1
    <3>2. CASE i = n + 1
      <4>1. g[i - 1] = h[n] /\ p[i].type = type
        <5>1. i - 1 = n
              BY <1>4, <3>2
        <5> QED BY <1>1, <1>4, <2>1, <2>2, <3>2, <5>1
      <4> QED BY <2>3, <3>2, <4>1
    <3>3. i \in 1..n \/ i = n + 1
          BY <1>4
    <3> QED BY <3>1, <3>2, <3>3
  <2> QED BY <1>4, <2>4, <2>5 DEF Objects
<1>7. next \in {"members", "elements"} /\ next \in Nexts
      BY DEF Nexts
<1>8. p # <<>>
      BY <1>4
<1>9. TopFits(p, next)
  <2>1. ASSUME NEW i \in 1..(n + 1) PROVE p[i].type \in {"array", "object"}
    <3>1. CASE i \in 1..n
      <4>1. q[i].type \in {"array", "object"}
            BY <3>1 DEF n
      <4> QED BY <1>4, <3>1, <4>1
    <3>2. CASE i = n + 1
          BY <1>1, <1>4, <3>2
    <3>3. i \in 1..n \/ i = n + 1
          BY <1>4
    <3> QED BY <3>1, <3>2, <3>3
  <2>2. p[Len(p)].type = type
        BY <1>1, <1>4
  <2> QED BY <1>4, <1>7, <1>8, <2>1, <2>2 DEF TopFits
<1>10. Len(s.names) = NamesDue(p, next, g)
  <2>1. g[n] = h[n] /\ Len(s.names) = h[n]
    <3>1. n \in 0..(n + 1) /\ n <= n
          BY <1>4
    <3> QED BY <3>1 DEF n
  <2>2. n + 1 - 1 = n
        BY <1>4
  <2> HIDE DEF g
  <2>3. NamesDue(p, next, g) = g[n]
        BY <1>4, <1>7, <1>8, <2>2 DEF NamesDue
  <2> QED BY <2>1, <2>3
<1> HIDE DEF g
<1>11. ASSUME NEW w, w = [s EXCEPT !.stack = p, !.next = next]
       PROVE  w = [stack |-> p, names |-> s.names, root |-> s.root, next |-> next, lexeme |-> s.lexeme]
  <2>1. s = [stack |-> s.stack, names |-> s.names, root |-> s.root, next |-> s.next, lexeme |-> s.lexeme]
        BY StateRecord
  <2> QED BY <1>11, <2>1
<1>12. Sound([stack |-> p, names |-> s.names, root |-> s.root, next |-> next, lexeme |-> s.lexeme])
       BY <1>2, <1>3, <1>4, <1>6, <1>7, <1>9, <1>10, SoundRecord
<1> QED BY <1>11, <1>12 DEF p, m

\* What one token can do.
LEMMA StepForms ==
    ASSUME NEW s, NEW x
    PROVE  \/ /\ s.next \in {"json", "value", "elements"}
              /\ \/ Step(s, x) = Begin(s, "object", "members")
                 \/ Step(s, x) = Begin(s, "array", "elements")
           \/ /\ s.next \in {"value", "elements"}
              /\ \/ x.t \in Atoms /\ Step(s, x) = SetData(s, Leaf(x.t, x.v))
                 \/ x.t = "string" /\ Step(s, x) = SetData(s, Str(x.v))
           \/ s.next \in {"members", "pair"} /\ x.t = "string" /\ Step(s, x) = ObjectKey(s, x.v)
           \/ s.next = "colon" /\ Step(s, x) = [s EXCEPT !.next = "value"]
           \/ /\ s.next = "more"
              /\ Step(s, x) = [s EXCEPT !.next = IF Last(s.stack).type = "object" THEN "pair" ELSE "value"]
           \/ s.next \in {"members", "more"} /\ Last(s.stack).type = "object" /\ Step(s, x) = End(s)
           \/ s.next \in {"elements", "more"} /\ Last(s.stack).type = "array" /\ Step(s, x) = End(s)
           \/ Step(s, x) = [s EXCEPT !.next = "fail"]
<1> DEFINE failed == [s EXCEPT !.next = "fail"]
           member == [s EXCEPT !.next = "value"]
           other == [s EXCEPT !.next = IF Last(s.stack).type = "object" THEN "pair" ELSE "value"]
<1>1. Step(s, x) =
        CASE x.t = "{" /\ s.next \in {"json", "value", "elements"} -> Begin(s, "object", "members")
          [] x.t = "[" /\ s.next \in {"json", "value", "elements"} -> Begin(s, "array", "elements")
          [] x.t \in Atoms /\ s.next \in {"value", "elements"} -> SetData(s, Leaf(x.t, x.v))
          [] x.t = "string" /\ s.next \in {"value", "elements"} -> SetData(s, Str(x.v))
          [] x.t = "string" /\ s.next \in {"members", "pair"} -> ObjectKey(s, x.v)
          [] x.t = ":" /\ s.next = "colon" -> member
          [] x.t = "," /\ s.next = "more" -> other
          [] x.t = "}" /\ s.next \in {"members", "more"} /\ Last(s.stack).type = "object" -> End(s)
          [] x.t = "]" /\ s.next \in {"elements", "more"} /\ Last(s.stack).type = "array" -> End(s)
          [] OTHER -> failed
      BY DEF Step
<1> HIDE DEF failed, member, other
<1>2. \/ /\ s.next \in {"json", "value", "elements"}
         /\ \/ Step(s, x) = Begin(s, "object", "members")
            \/ Step(s, x) = Begin(s, "array", "elements")
      \/ /\ s.next \in {"value", "elements"}
         /\ \/ x.t \in Atoms /\ Step(s, x) = SetData(s, Leaf(x.t, x.v))
            \/ x.t = "string" /\ Step(s, x) = SetData(s, Str(x.v))
      \/ s.next \in {"members", "pair"} /\ x.t = "string" /\ Step(s, x) = ObjectKey(s, x.v)
      \/ s.next = "colon" /\ Step(s, x) = member
      \/ s.next = "more" /\ Step(s, x) = other
      \/ s.next \in {"members", "more"} /\ Last(s.stack).type = "object" /\ Step(s, x) = End(s)
      \/ s.next \in {"elements", "more"} /\ Last(s.stack).type = "array" /\ Step(s, x) = End(s)
      \/ Step(s, x) = failed
  <2>1. CASE x.t = "{" /\ s.next \in {"json", "value", "elements"}
        BY <1>1, <2>1 DEF Atoms
  <2>2. CASE x.t = "[" /\ s.next \in {"json", "value", "elements"}
        BY <1>1, <2>2 DEF Atoms
  <2>3. CASE x.t \in Atoms /\ s.next \in {"value", "elements"}
        BY <1>1, <2>3 DEF Atoms
  <2>4. CASE x.t = "string" /\ s.next \in {"value", "elements"}
        BY <1>1, <2>4 DEF Atoms
  <2>5. CASE x.t = "string" /\ s.next \in {"members", "pair"}
        BY <1>1, <2>5 DEF Atoms
  <2>6. CASE x.t = ":" /\ s.next = "colon"
        BY <1>1, <2>6 DEF Atoms
  <2>7. CASE x.t = "," /\ s.next = "more"
        BY <1>1, <2>7 DEF Atoms
  <2>8. CASE x.t = "}" /\ s.next \in {"members", "more"} /\ Last(s.stack).type = "object"
        BY <1>1, <2>8 DEF Atoms
  <2>9. CASE x.t = "]" /\ s.next \in {"elements", "more"} /\ Last(s.stack).type = "array"
        BY <1>1, <2>9 DEF Atoms
  <2>10. CASE ~(\/ x.t = "{" /\ s.next \in {"json", "value", "elements"}
                \/ x.t = "[" /\ s.next \in {"json", "value", "elements"}
                \/ x.t \in Atoms /\ s.next \in {"value", "elements"}
                \/ x.t = "string" /\ s.next \in {"value", "elements"}
                \/ x.t = "string" /\ s.next \in {"members", "pair"}
                \/ x.t = ":" /\ s.next = "colon"
                \/ x.t = "," /\ s.next = "more"
                \/ x.t = "}" /\ s.next \in {"members", "more"} /\ Last(s.stack).type = "object"
                \/ x.t = "]" /\ s.next \in {"elements", "more"} /\ Last(s.stack).type = "array")
        BY <1>1, <2>10
  <2> QED BY <2>1, <2>2, <2>3, <2>4, <2>5, <2>6, <2>7, <2>8, <2>9, <2>10
<1> QED BY <1>2 DEF failed, member, other

\* The names that are due, by what is open.
LEMMA DueNames ==
    ASSUME NEW q, q # <<>>, Len(q) \in Nat \ {0}, NEW h, Objects(q, h), NEW next, TopFits(q, next)
    PROVE  /\ h[Len(q) - 1] \in Nat
           /\ q[Len(q)].type = "object" => h[Len(q)] = h[Len(q) - 1] + 1
           /\ q[Len(q)].type # "object" => h[Len(q)] = h[Len(q) - 1]
           /\ next \in {"value", "elements", "colon"} => NamesDue(q, next, h) = h[Len(q)]
           /\ next \in {"members", "pair", "more"} => NamesDue(q, next, h) = h[Len(q) - 1]
           /\ next = "json" => NamesDue(q, next, h) = 0 /\ h[0] = 0 /\ Len(q) = 1
<1> DEFINE n == Len(q)
<1>1. n \in 1..n /\ n - 1 \in 0..n /\ n \in Nat
      OBVIOUS
<1>2. h[n - 1] \in Nat /\ h[n] = h[n - 1] + (IF q[n].type = "object" THEN 1 ELSE 0) /\ h[0] = 0
      BY <1>1 DEF Objects
<1> HIDE DEF n
<1>3. /\ q[n].type = "object" => h[n] = h[n - 1] + 1
      /\ q[n].type # "object" => h[n] = h[n - 1]
      BY <1>2
<1>4. ASSUME next \in {"value", "elements", "colon"} PROVE NamesDue(q, next, h) = h[n]
  <2>1. CASE next = "elements"
    <3>1. q[n].type # "object"
          BY <2>1 DEF TopFits, n
    <3> QED BY <1>3, <2>1, <3>1 DEF NamesDue, n
  <2>2. CASE next # "elements"
        BY <1>4, <2>2 DEF NamesDue, n
  <2> QED BY <2>1, <2>2
<1>5. ASSUME next \in {"members", "pair", "more"} PROVE NamesDue(q, next, h) = h[n - 1]
      BY <1>5 DEF NamesDue, n
<1>6. ASSUME next = "json" PROVE NamesDue(q, next, h) = 0 /\ n = 1
  <2>1. n = 1
        BY <1>6 DEF TopFits, n
  <2>2. NamesDue(q, next, h) = h[n - 1] /\ n - 1 = 0
        BY <1>6, <2>1 DEF NamesDue, n
  <2> QED BY <1>2, <2>1, <2>2
<1> QED BY <1>2, <1>3, <1>4, <1>5, <1>6 DEF n

LEMMA BeginSound ==
    ASSUME NEW C, NEW h, NEW s, SoundIn(C, h, s), s.next \in {"json", "value", "elements"},
           NEW type \in {"array", "object"}, NEW next, next = IF type = "object" THEN "members" ELSE "elements"
    PROVE  Sound(Begin(s, type, next))
<1> DEFINE q == s.stack
           n == Len(q)
           around == IF Last(q).type = "null" THEN Front(q) ELSE q
<1>1. /\ Family(C) /\ s \in State(C) /\ Objects(q, h) /\ TopFits(q, s.next)
      /\ Len(s.names) = NamesDue(q, s.next, h)
      BY DEF SoundIn
<1>2. q \in Seq(C)
      BY <1>1 DEF State
<1>3. q # <<>> /\ Len(q) \in Nat \ {0}
  <2>1. q # <<>>
        BY <1>1 DEF TopFits
  <2> HIDE DEF q
  <2> QED BY <1>2, <2>1
<1>4. Last(q) = q[n] /\ n \in 1..n
      BY <1>3 DEF Last
<1>5. /\ s.next # "json" => Len(s.names) = h[n]
      /\ s.next = "json" => Len(s.names) = 0 /\ h[0] = 0 /\ n = 1
      BY <1>1, <1>3, DueNames
<1>6. /\ around \in Seq(C) /\ Objects(around, h) /\ Len(s.names) = h[Len(around)]
      /\ \A i \in 1..Len(around) : around[i].type \in {"array", "object"}
  <2>1. CASE s.next = "json"
    <3>1. q[n].type = "null"
          BY <1>1, <2>1 DEF TopFits
    <3>2. around = Front(q)
          BY <1>4, <3>1
    <3>3. Front(q) = <<>>
      <4>3. Front(q) = SubSeq(q, 1, n - 1)
            BY DEF Front
      <4>4. n - 1 = 0
            BY <1>5, <2>1
      <4>1. Front(q) = SubSeq(q, 1, 0)
            BY <4>3, <4>4
      <4>2. SubSeq(q, 1, 0) = <<>>
            OBVIOUS
      <4> QED BY <4>1, <4>2
    <3>4. Len(around) = 0
          BY <3>2, <3>3
    <3> HIDE DEF around, n
    <3>5. around \in Seq(C)
          BY <3>2, <3>3
    <3>6. Objects(around, h)
          BY <1>5, <2>1, <3>4 DEF Objects
    <3> QED BY <1>5, <2>1, <3>4, <3>5, <3>6
  <2>2. CASE s.next # "json"
    <3>1. \A i \in 1..n : q[i].type \in {"array", "object"}
          BY <1>1, <2>2 DEF TopFits
    <3>2. q[n].type # "null"
          BY <1>4, <3>1
    <3>3. around = q
          BY <1>4, <3>2
    <3> QED BY <1>1, <1>2, <1>5, <2>2, <3>1, <3>3
  <2> QED BY <2>1, <2>2
<1>7. Begin(s, type, next) = [s EXCEPT !.stack = Append(around, New(type)), !.next = next]
      BY DEF Begin
<1> HIDE DEF around, q
<1>8. Sound([s EXCEPT !.stack = Append(around, New(type)), !.next = next])
      BY <1>1, <1>6, OpensSound
<1> QED BY <1>7, <1>8

LEMMA EndSound ==
    ASSUME NEW C, NEW h, NEW s, SoundIn(C, h, s), s.next \in {"members", "elements", "more"}
    PROVE  Sound(End(s))
<1> DEFINE q == s.stack
           n == Len(q)
           node == Last(q)
           f == Front(q)
           rest == [s EXCEPT !.stack = f]
<1>1. /\ Family(C) /\ s \in State(C) /\ Objects(q, h) /\ TopFits(q, s.next)
      /\ Len(s.names) = NamesDue(q, s.next, h)
      BY DEF SoundIn
<1>2. /\ q \in Seq(C) /\ s.names \in Seq(Plain) /\ s.root \in C /\ s.lexeme \in Lexemes /\ s.next \in Nexts
      /\ s = [stack |-> q, names |-> s.names, root |-> s.root, next |-> s.next, lexeme |-> s.lexeme]
      BY <1>1 DEF State
<1>3. q # <<>> /\ n \in Nat \ {0} /\ n \in 1..n
  <2>1. q # <<>>
        BY <1>1 DEF TopFits
  <2> HIDE DEF q
  <2> QED BY <1>2, <2>1
<1>4. /\ node = q[n] /\ node \in C
      /\ f \in Seq(C) /\ Len(f) = n - 1 /\ \A i \in 1..(n - 1) : f[i] = q[i]
  <2> HIDE DEF q
  <2>1. q[Len(q)] \in C
        BY <1>2, <1>3
  <2> QED BY <1>2, <1>3, <2>1, SwapLast
<1>5. Len(s.names) = h[n - 1]
  <2>1. CASE s.next = "elements"
    <3>1. q[n].type # "object"
          BY <1>1, <2>1 DEF TopFits
    <3> QED BY <1>1, <1>3, <2>1, <3>1, DueNames
  <2>2. CASE s.next # "elements"
        BY <1>1, <1>3, <2>2, DueNames
  <2> QED BY <2>1, <2>2
<1>6. /\ h[0] = 0 /\ \A i \in 0..n : h[i] \in Nat
      /\ \A i \in 1..n : h[i] = h[i - 1] + (IF q[i].type = "object" THEN 1 ELSE 0)
      /\ \A i \in 1..n : q[i].type \in {"array", "object"}
      BY <1>1 DEF Objects, TopFits
<1>7. End(s) = IF rest.stack = <<>> THEN [rest EXCEPT !.root = node, !.next = "end"] ELSE SetData(rest, node)
      BY DEF End
<1>8. rest = [stack |-> f, names |-> s.names, root |-> s.root, next |-> s.next, lexeme |-> s.lexeme]
  <2> HIDE DEF f
  <2> QED BY <1>2
<1> HIDE DEF rest, f, node, q, n
<1>9. rest.stack = f /\ rest.names = s.names /\ rest \in State(C)
      BY <1>2, <1>4, <1>8 DEF State
<1>10. \A i \in 1..(n - 1) : i \in 1..n
       BY <1>3
<1>11. Objects(f, h)
  <2>1. \A i \in 0..(n - 1) : i \in 0..n
        BY <1>3
  <2> QED BY <1>4, <1>6, <1>10, <2>1 DEF Objects
<1>12. \A i \in 1..(n - 1) : f[i].type \in {"array", "object"}
       BY <1>4, <1>6, <1>10
<1>13. CASE f = <<>>
  <2>1. n - 1 = 0
        BY <1>4, <1>13
  <2>2. [rest EXCEPT !.root = node, !.next = "end"]
            = [stack |-> f, names |-> s.names, root |-> node, next |-> "end", lexeme |-> s.lexeme]
    <3>1. ASSUME NEW w, w = [rest EXCEPT !.root = node, !.next = "end"]
          PROVE  w = [stack |-> f, names |-> s.names, root |-> node, next |-> "end", lexeme |-> s.lexeme]
          BY <1>8, <3>1
    <3> QED BY <3>1
  <2>3. TopFits(f, "end") /\ NamesDue(f, "end", h) = 0 /\ "end" \in Nexts
    <3>1. Len(f) = 0
          BY <1>4, <2>1
    <3> QED BY <1>13, <3>1 DEF TopFits, NamesDue, Nexts
  <2>4. Sound([stack |-> f, names |-> s.names, root |-> node, next |-> "end", lexeme |-> s.lexeme])
    <3>1. Len(s.names) = 0
          BY <1>5, <1>6, <2>1
    <3> QED BY <1>1, <1>2, <1>4, <1>11, <2>3, <3>1, SoundRecord
  <2> QED BY <1>7, <1>9, <1>13, <2>2, <2>4
<1>14. CASE f # <<>>
  <2>1. node \in NodeOver(C)
        BY <1>1, <1>4 DEF Family
  <2>2. Sound(SetData(rest, node))
        BY <1>1, <1>4, <1>5, <1>9, <1>11, <1>12, <1>14, <2>1, SetDataSound
  <2> QED BY <1>7, <1>9, <1>14, <2>2
<1> QED BY <1>13, <1>14

\* A token that opens or closes nothing: the names grow by the one that is read.
LEMMA GoesOn ==
    ASSUME NEW C, NEW h, NEW s, SoundIn(C, h, s), NEW names \in Seq(Plain), NEW next,
           \/ s.next \in {"members", "pair"} /\ next = "colon" /\ Len(names) = Len(s.names) + 1
           \/ s.next = "colon" /\ next = "value" /\ names = s.names
           \/ /\ s.next = "more" /\ names = s.names
              /\ next = IF Last(s.stack).type = "object" THEN "pair" ELSE "value"
    PROVE  Sound([stack |-> s.stack, names |-> names, root |-> s.root, next |-> next, lexeme |-> s.lexeme])
<1> DEFINE q == s.stack
           n == Len(q)
<1>1. /\ Family(C) /\ s \in State(C) /\ Objects(q, h) /\ TopFits(q, s.next)
      /\ Len(s.names) = NamesDue(q, s.next, h)
      BY DEF SoundIn
<1>2. q \in Seq(C) /\ s.root \in C /\ s.lexeme \in Lexemes
      BY <1>1 DEF State
<1>3. s.next \in {"members", "pair", "colon", "more"} /\ next \in {"colon", "value", "pair"} /\ next \in Nexts
      BY DEF Nexts
<1>4. q # <<>> /\ n \in Nat \ {0}
  <2>1. q # <<>>
        BY <1>1, <1>3 DEF TopFits
  <2> HIDE DEF q
  <2> QED BY <1>2, <2>1
<1>5. Last(q) = q[n]
      BY DEF Last
<1>6. /\ \A i \in 1..n : q[i].type \in {"array", "object"}
      /\ s.next \in {"members", "pair", "colon"} => q[n].type = "object"
      BY <1>1, <1>3 DEF TopFits
<1>7. TopFits(q, next)
  <2>1. next \in {"pair", "colon"} => q[n].type = "object"
        BY <1>3, <1>5, <1>6
  <2> QED BY <1>3, <1>4, <1>6, <2>1 DEF TopFits
<1>8. /\ h[n - 1] \in Nat
      /\ q[n].type = "object" => h[n] = h[n - 1] + 1
      /\ q[n].type # "object" => h[n] = h[n - 1]
      BY <1>1, <1>4, DueNames
<1>9. /\ next \in {"value", "colon"} => NamesDue(q, next, h) = h[n]
      /\ next = "pair" => NamesDue(q, next, h) = h[n - 1]
      BY <1>1, <1>4, <1>7, DueNames
<1>10. /\ s.next = "colon" => Len(s.names) = h[n]
       /\ s.next \in {"members", "pair", "more"} => Len(s.names) = h[n - 1]
       BY <1>1, <1>4, DueNames
<1> HIDE DEF n, q
<1>11. Len(names) = NamesDue(q, next, h)
  <2>1. CASE s.next \in {"members", "pair"}
        BY <1>6, <1>8, <1>9, <1>10, <2>1
  <2>2. CASE s.next = "colon"
        BY <1>9, <1>10, <2>2
  <2>3. CASE s.next = "more"
        BY <1>5, <1>8, <1>9, <1>10, <2>3 DEF q
  <2> QED BY <1>3, <2>1, <2>2, <2>3
<1>12. Sound([stack |-> q, names |-> names, root |-> s.root, next |-> next, lexeme |-> s.lexeme])
       BY <1>1, <1>2, <1>3, <1>7, <1>11, SoundRecord
<1> QED BY <1>12 DEF q

LEMMA StepSound ==
    ASSUME NEW C, NEW h, NEW s, SoundIn(C, h, s), s.next \notin {"end", "fail"},
           NEW x, x.t \in Atoms => x.v \in Int, x.t = "string" => x.v \in Plain
    PROVE  Sound(Step(s, x))
<1>1. Family(C) /\ s \in State(C) /\ Objects(s.stack, h) /\ TopFits(s.stack, s.next)
      /\ Len(s.names) = NamesDue(s.stack, s.next, h)
      BY DEF SoundIn
<1>2. /\ s.stack \in Seq(C) /\ s.names \in Seq(Plain)
      /\ s = [stack |-> s.stack, names |-> s.names, root |-> s.root, next |-> s.next, lexeme |-> s.lexeme]
      BY <1>1, StateRecord
<1>3. s.stack # <<>> /\ Len(s.stack) \in Nat \ {0}
  <2>1. s.stack # <<>>
        BY <1>1 DEF TopFits
  <2> DEFINE q == s.stack
  <2>2. q \in Seq(C) /\ q # <<>>
        BY <1>2, <2>1
  <2> HIDE DEF q
  <2>3. Len(q) \in Nat \ {0}
        BY <2>2
  <2> QED BY <2>1, <2>3 DEF q
<1>4. /\ Sound(Begin(s, "object", "members")) \/ s.next \notin {"json", "value", "elements"}
      /\ Sound(Begin(s, "array", "elements")) \/ s.next \notin {"json", "value", "elements"}
      BY BeginSound
<1>5. ASSUME s.next \in {"value", "elements"}, NEW y \in NodeOver(C) PROVE Sound(SetData(s, y))
  <2>1. Len(s.names) = h[Len(s.stack)]
        BY <1>1, <1>3, <1>5, DueNames
  <2>2. \A i \in 1..Len(s.stack) : s.stack[i].type \in {"array", "object"}
        BY <1>1, <1>5 DEF TopFits
  <2> QED BY <1>1, <1>3, <2>1, <2>2, SetDataSound
<1>6. ASSUME s.next \in {"members", "pair"}, NEW key \in Plain PROVE Sound(ObjectKey(s, key))
  <2> DEFINE names == Append(s.names, key)
  <2>1. names \in Seq(Plain) /\ Len(names) = Len(s.names) + 1
    <3> DEFINE o == s.names
    <3>1. o \in Seq(Plain)
          BY <1>2
    <3> HIDE DEF o
    <3>2. Append(o, key) \in Seq(Plain) /\ Len(Append(o, key)) = Len(o) + 1
          BY <3>1
    <3> QED BY <3>2 DEF o
  <2> HIDE DEF names
  <2>2. ObjectKey(s, key) = [stack |-> s.stack, names |-> names, root |-> s.root, next |-> "colon",
                             lexeme |-> s.lexeme]
    <3>1. ASSUME NEW w, w = [s EXCEPT !.names = names, !.next = "colon"]
          PROVE  w = [stack |-> s.stack, names |-> names, root |-> s.root, next |-> "colon", lexeme |-> s.lexeme]
          BY <1>2, <3>1
    <3>2. ObjectKey(s, key) = [s EXCEPT !.names = names, !.next = "colon"]
          BY DEF ObjectKey, names
    <3> QED BY <3>1, <3>2
  <2> QED BY <1>6, <2>1, <2>2, GoesOn
<1>7. ASSUME NEW next
      PROVE  [s EXCEPT !.next = next]
                 = [stack |-> s.stack, names |-> s.names, root |-> s.root, next |-> next, lexeme |-> s.lexeme]
      BY <1>2
<1>8. ASSUME s.next = "colon" PROVE Sound([s EXCEPT !.next = "value"])
      BY <1>2, <1>7, <1>8, GoesOn
<1>9. ASSUME s.next = "more"
      PROVE  Sound([s EXCEPT !.next = IF Last(s.stack).type = "object" THEN "pair" ELSE "value"])
  <2> DEFINE next == IF Last(s.stack).type = "object" THEN "pair" ELSE "value"
  <2>1. Sound([stack |-> s.stack, names |-> s.names, root |-> s.root, next |-> next, lexeme |-> s.lexeme])
        BY <1>2, <1>9, GoesOn
  <2> HIDE DEF next
  <2>2. Sound([s EXCEPT !.next = next])
        BY <1>7, <2>1
  <2> QED BY <2>2 DEF next
<1>10. s.next \in {"members", "elements", "more"} => Sound(End(s))
       BY EndSound
<1>11. Sound([s EXCEPT !.next = "fail"])
       BY <1>7 DEF Sound, Failed
<1>12. x.t \in Atoms => Leaf(x.t, x.v) \in NodeOver(C)
       BY NewIn
<1>13. x.t = "string" => Str(x.v) \in NodeOver(C)
       BY NewIn
<1> QED BY <1>4, <1>5, <1>6, <1>8, <1>9, <1>10, <1>11, <1>12, <1>13, StepForms

LEMMA MarkedText ==
    ASSUME NEW c \in Plain
    PROVE  /\ Joint(<<Mark>>, c) # <<>> /\ Tail(Joint(<<Mark>>, c)) = c
           /\ \A x \in Symbol : x # Mark => /\ Append(c, x) \in Plain
                                            /\ Append(Joint(<<Mark>>, c), x) = Joint(<<Mark>>, Append(c, x))
<1> DEFINE m == <<Mark>>
           j == Joint(m, c)
<1>1. c \in Seq(Symbol) /\ m \in Seq(Symbol) /\ Len(m) = 1 /\ Len(c) \in Nat
      BY QuotedIs
<1>2. j \in Seq(Symbol) /\ Len(j) = 1 + Len(c) /\ \A i \in 1..Len(c) : j[1 + i] = c[i]
  <2> HIDE DEF m
  <2>1. j \in Seq(Symbol) /\ Len(j) = Len(m) + Len(c)
        BY <1>1, JointLen
  <2>2. \A i \in 1..Len(c) : j[Len(m) + i] = c[i]
        BY <1>1, JointAt
  <2> QED BY <1>1, <2>1, <2>2
<1> HIDE DEF j
<1>3. j # <<>>
      BY <1>1, <1>2
<1>4. Tail(j) = c
  <2> DEFINE tail == Tail(j)
  <2>1. tail \in Seq(Symbol) /\ Len(tail) = Len(c) /\ \A i \in 1..Len(c) : tail[i] = j[1 + i]
        BY <1>1, <1>2, <1>3
  <2> HIDE DEF tail
  <2>2. \A i \in 1..Len(tail) : tail[i] = c[i]
        BY <1>2, <2>1
  <2>3. tail = c
        BY <1>1, <2>1, <2>2, SeqEqual
  <2> QED BY <2>3 DEF tail
<1>5. ASSUME NEW x \in Symbol, x # Mark
      PROVE  Append(c, x) \in Plain /\ Append(j, x) = Joint(m, Append(c, x))
  <2> DEFINE e == <<x>>
             S == Symbol \ {Mark}
  <2>1. e \in Seq(Symbol)
        OBVIOUS
  <2>2. Append(c, x) \in Plain
    <3>1. c \in Seq(S) /\ x \in S
          BY <1>5 DEF Plain
    <3> HIDE DEF S
    <3>2. Append(c, x) \in Seq(S)
          BY <3>1
    <3> QED BY <3>2 DEF S, Plain
  <2>3. Append(j, x) = Joint(j, e) /\ Append(c, x) = Joint(c, e)
        BY <1>1, <1>2 DEF Joint
  <2> HIDE DEF e, m
  <2>4. Joint(Joint(m, c), e) = Joint(m, Joint(c, e))
        BY <1>1, <2>1, JointIs
  <2> QED BY <2>2, <2>3, <2>4 DEF j
<1> QED BY <1>3, <1>4, <1>5 DEF j

LEMMA ReadSymbolSound ==
    ASSUME NEW s, Sound(s), NEW x \in Symbol
    PROVE  Sound(ReadSymbol(s, x))
<1>1. CASE s.next \in {"end", "fail"}
      BY <1>1 DEF ReadSymbol
<1>2. CASE s.next \notin {"end", "fail"}
  <2>1. PICK C, h : SoundIn(C, h, s)
        BY <1>2 DEF Sound, Failed
  <2>2. /\ Family(C) /\ s \in State(C) /\ Objects(s.stack, h) /\ TopFits(s.stack, s.next)
        /\ Len(s.names) = NamesDue(s.stack, s.next, h)
        BY <2>1 DEF SoundIn
  <2>3. /\ s.stack \in Seq(C) /\ s.names \in Seq(Plain) /\ s.root \in C /\ s.next \in Nexts
        /\ s.lexeme \in Lexemes
        /\ s = [stack |-> s.stack, names |-> s.names, root |-> s.root, next |-> s.next, lexeme |-> s.lexeme]
        BY <2>2, StateRecord
  <2>4. ASSUME NEW l \in Lexemes
        PROVE  SoundIn(C, h, [s EXCEPT !.lexeme = l]) /\ [s EXCEPT !.lexeme = l].next = s.next
    <3> DEFINE w == [s EXCEPT !.lexeme = l]
    <3>1. w = [stack |-> s.stack, names |-> s.names, root |-> s.root, next |-> s.next, lexeme |-> l]
          BY <2>3
    <3>2. w \in State(C) /\ w.stack = s.stack /\ w.names = s.names /\ w.next = s.next
          BY <2>3, <3>1 DEF State
    <3> HIDE DEF w
    <3>3. SoundIn(C, h, w) /\ w.next = s.next
          BY <2>2, <3>2 DEF SoundIn
    <3> QED BY <3>3 DEF w
  <2>5. CASE s.lexeme # <<>> /\ x = Mark
    <3>1. PICK c \in Plain : s.lexeme = Joint(<<Mark>>, c)
          BY <2>3, <2>5 DEF Lexemes
    <3>2. Tail(s.lexeme) = c
          BY <3>1, MarkedText
    <3> DEFINE w == [s EXCEPT !.lexeme = <<>>]
               y == Token("string", c)
    <3>3. ReadSymbol(s, x) = Step(w, y)
          BY <1>2, <2>5, <3>2 DEF ReadSymbol
    <3>4. <<>> \in Lexemes
          BY DEF Lexemes
    <3>5. SoundIn(C, h, w) /\ w.next \notin {"end", "fail"}
          BY <1>2, <2>4, <3>4
    <3>6. y.t \notin Atoms /\ y.v \in Plain
          BY DEF Token, Atoms
    <3> HIDE DEF w, y
    <3>7. Sound(Step(w, y))
          BY <3>5, <3>6, StepSound
    <3> QED BY <3>3, <3>7
  <2>6. CASE s.lexeme # <<>> /\ x # Mark
    <3>1. PICK c \in Plain : s.lexeme = Joint(<<Mark>>, c)
          BY <2>3, <2>6 DEF Lexemes
    <3> DEFINE d == Append(c, x)
    <3>4. d \in Plain /\ Append(Joint(<<Mark>>, c), x) = Joint(<<Mark>>, d)
          BY <2>6, MarkedText
    <3> HIDE DEF d
    <3>2. Append(s.lexeme, x) \in Lexemes
          BY <3>1, <3>4 DEF Lexemes
    <3>3. ReadSymbol(s, x) = [s EXCEPT !.lexeme = Append(s.lexeme, x)]
          BY <1>2, <2>6 DEF ReadSymbol
    <3> QED BY <2>4, <3>2, <3>3 DEF Sound
  <2>7. CASE s.lexeme = <<>> /\ x = Mark
    <3>1. <<Mark>> = Joint(<<Mark>>, <<>>) /\ <<>> \in Plain
          BY DEF Joint, Plain
    <3>2. <<Mark>> \in Lexemes
          BY <3>1 DEF Lexemes
    <3>3. ReadSymbol(s, x) = [s EXCEPT !.lexeme = <<Mark>>]
          BY <1>2, <2>7 DEF ReadSymbol
    <3> QED BY <2>4, <3>2, <3>3 DEF Sound
  <2>8. CASE s.lexeme = <<>> /\ x # Mark
    <3>1. ReadSymbol(s, x) = Step(s, x)
          BY <1>2, <2>8, ReadOutside
    <3>2. x.v \in Int /\ x.t # "string"
          BY DEF Symbol, Kinds, Atoms
    <3> QED BY <1>2, <2>1, <3>1, <3>2, StepSound
  <2> QED BY <2>5, <2>6, <2>7, <2>8
<1> QED BY <1>1, <1>2

\* Whatever the text is: when it is read, no open node and no name is left, and
\* no quotation mark is in the root.
LEMMA ParseSound ==
    ASSUME NEW t \in Seq(Symbol)
    PROVE  LET w == Parse(Begun, t)
           IN  Parsed(w) => w.stack = <<>> /\ w.names = <<>> /\ \E C : Family(C) /\ w.root \in C
<1> DEFINE w == Parse(Begun, t)
           n == Len(t)
<1>1. n \in Nat /\ \A i \in 1..n : t[i] \in Symbol
      OBVIOUS
<1>2. PICK g : ReadRun(Begun, t, n, g)
  <2> HIDE DEF n
  <2> QED BY <1>1, ReadRunExists
<1>3. w = g[n]
      BY <1>1, <1>2, ParseIs
<1> DEFINE T == {i \in Nat : i <= n => Sound(g[i])}
<1>4. Sound(Begun)
  <2> DEFINE m == New("null")
             C == {m}
             h == [i \in 0..1 |-> 0]
             q == <<m>>
  <2>1. m \in NodeOver(C) /\ m.type = "null"
    <3>1. "null" \in Types
          BY DEF Types, Atoms
    <3> QED BY <3>1, NewIn
  <2> HIDE DEF m
  <2>2. Family(C) /\ m \in C /\ q \in Seq(C) /\ Len(q) = 1 /\ q[1] = m /\ q # <<>>
        BY <2>1 DEF Family
  <2>3. h[0] = 0 /\ h[1] = 0
        OBVIOUS
  <2> HIDE DEF C, h, q
  <2>4. Objects(q, h)
    <3>1. \A i \in 0..1 : i = 0 \/ i = 1
          OBVIOUS
    <3>2. \A i \in 1..1 : i = 1 /\ i - 1 = 0
          OBVIOUS
    <3>3. q[1].type # "object"
          BY <2>1, <2>2
    <3> QED BY <2>2, <2>3, <3>1, <3>2, <3>3 DEF Objects
  <2>5. TopFits(q, "json")
        BY <2>1, <2>2 DEF TopFits
  <2>6. NamesDue(q, "json", h) = 0
    <3>1. 1 - 1 = 0
          OBVIOUS
    <3> QED BY <2>2, <2>3, <3>1 DEF NamesDue
  <2>7. <<>> \in Seq(Plain) /\ Len(<<>>) = 0 /\ <<>> \in Lexemes /\ "json" \in Nexts
        BY DEF Lexemes, Nexts
  <2>8. Sound([stack |-> q, names |-> <<>>, root |-> m, next |-> "json", lexeme |-> <<>>])
        BY <2>2, <2>4, <2>5, <2>6, <2>7, SoundRecord
  <2> QED BY <2>8 DEF Begun, q, m
<1>5. 0 \in T
      BY <1>2, <1>4 DEF ReadRun
<1>6. ASSUME NEW l \in Nat, l \in T PROVE l + 1 \in T
  <2> SUFFICES ASSUME l + 1 <= n PROVE Sound(g[l + 1])
      OBVIOUS
  <2>1. l + 1 \in 1..n /\ (l + 1) - 1 = l /\ Sound(g[l])
        BY <1>1, <1>6
  <2>2. g[l + 1] = ReadSymbol(g[l], t[l + 1])
        BY <1>2, <2>1 DEF ReadRun, NextToken
  <2> QED BY <1>1, <2>1, <2>2, ReadSymbolSound
<1>7. Nat \subseteq T
  <2> HIDE DEF T
  <2> QED BY <1>5, <1>6, Induction
<1>8. Sound(w)
      BY <1>1, <1>3, <1>7
<1> HIDE DEF w
<1>9. ASSUME Parsed(w) PROVE w.stack = <<>> /\ w.names = <<>> /\ \E C : Family(C) /\ w.root \in C
  <2>1. w.next = "end"
        BY <1>9 DEF Parsed
  <2>2. PICK C, h : SoundIn(C, h, w)
        BY <1>8, <2>1 DEF Sound, Failed
  <2>3. w.stack = <<>> /\ Len(w.names) = 0
        BY <2>1, <2>2 DEF SoundIn, TopFits, NamesDue
  <2>4. w.names = <<>>
    <3> DEFINE o == w.names
    <3>1. o \in Seq(Plain) /\ Len(o) = 0
          BY <2>2, <2>3 DEF SoundIn, State
    <3> HIDE DEF o
    <3>2. o = <<>>
          BY <3>1
    <3> QED BY <3>2 DEF o
  <2> QED BY <2>2, <2>3, <2>4 DEF SoundIn, State
<1> QED BY <1>9 DEF w

-----------------------------------------------------------------------------
(***************************************************************************)
(* Values with quotation marks.                                            *)
(***************************************************************************)
LEMMA KeptAre ==
    \A k \in 0..Nesting : Kept(k) \subseteq Trees(k)
<1> DEFINE T == {k \in Nat : k <= Nesting => Kept(k) \subseteq Trees(k)}
<1>1. Nesting \in Nat
      BY NestingAssumption
<1>2. CarriedLeaves \subseteq PlainLeaves
  <2>1. \A c \in CarriedStrings : c \in Plain
    <3> DEFINE A == {x \in Symbol : x.t \notin {"mark", "apostrophe"}}
               B == Symbol \ {Mark}
    <3>1. A \subseteq B
          BY DEF Mark, Tok, Token
    <3> HIDE DEF A, B
    <3>2. Seq(A) \subseteq Seq(B)
          BY <3>1, SeqGrows
    <3> QED BY <3>2 DEF CarriedStrings, Plain, A, B
  <2>2. \A v \in CarriedDoubles : v \in Doubles
        BY DEF CarriedDoubles
  <2> QED BY <2>1, <2>2 DEF CarriedLeaves, PlainLeaves, LeavesOf
<1>3. 0 \in T
      BY <1>2, TreesAre
<1>4. ASSUME NEW l \in Nat, l \in T PROVE l + 1 \in T
  <2> SUFFICES ASSUME l + 1 <= Nesting PROVE Kept(l + 1) \subseteq Trees(l + 1)
      OBVIOUS
  <2> DEFINE k == l + 1
  <2>1. k \in 1..Nesting /\ k - 1 = l /\ Kept(l) \subseteq Trees(l)
        BY <1>1, <1>4
  <2> HIDE DEF k
  <2>2. Trees(k) = PlainLeaves \cup Lists(Trees(l)) /\ Kept(k) = CarriedLeaves \cup Lists(Kept(l))
        BY <2>1, TreesAre
  <2>3. Lists(Kept(l)) \subseteq Lists(Trees(l))
    <3>1. Seq(Kept(l)) \subseteq Seq(Trees(l))
          BY <2>1, SeqGrows
    <3> QED BY <3>1 DEF Lists, ListsOf
  <2> QED BY <1>2, <2>2, <2>3 DEF k
<1>5. Nat \subseteq T
  <2> HIDE DEF T
  <2> QED BY <1>3, <1>4, Induction
<1> QED BY <1>5

\* A node that was read holds no quotation mark, however deep.
LEMMA CleanTree ==
    ASSUME NEW C, Family(C)
    PROVE  \A k \in 0..Nesting : C \cap Nodes[k] \subseteq Trees(k)
<1> DEFINE T == {k \in Nat : k <= Nesting => C \cap Nodes[k] \subseteq Trees(k)}
<1>1. Nesting \in Nat
      BY NestingAssumption
<1>2. \A node \in C : node.str \in Plain /\ node.mapOrder \in Seq(Plain) /\ node.vec \in Seq(C)
      BY DEF Family, NodeOver
<1>3. ASSUME NEW node \in C, node \in Leaves PROVE node \in PlainLeaves
  <2>1. node.str \in Plain
        BY <1>2
  <2> QED BY <1>3, <2>1 DEF Leaves, PlainLeaves, LeavesOf
<1>4. 0 \in T
      BY <1>3, TreesAre, AllAre
<1>5. ASSUME NEW l \in Nat, l \in T PROVE l + 1 \in T
  <2> SUFFICES ASSUME l + 1 <= Nesting PROVE C \cap Nodes[l + 1] \subseteq Trees(l + 1)
      OBVIOUS
  <2> DEFINE k == l + 1
  <2>1. k \in 1..Nesting /\ k - 1 = l /\ C \cap Nodes[l] \subseteq Trees(l)
        BY <1>1, <1>5
  <2> HIDE DEF k
  <2>2. Trees(k) = PlainLeaves \cup ListsOf(Trees(l), Plain) /\ Nodes[k] = Leaves \cup ListsOf(Nodes[l], Seq(Symbol))
        BY <2>1, TreesAre, AllAre DEF Lists
  <2>3. ASSUME NEW q \in Seq(C), q \in Seq(Nodes[l]) PROVE q \in Seq(Trees(l))
    <3> DEFINE A == Nodes[l]
               B == Trees(l)
    <3>1. q \in Seq(A) /\ \A x \in C : x \in A => x \in B
          BY <2>1, <2>3
    <3> HIDE DEF A, B
    <3>2. q \in Seq(B)
          BY <3>1
    <3> QED BY <3>2 DEF B
  <2>4. ASSUME NEW node \in C, node \in ListsOf(Nodes[l], Seq(Symbol)) PROVE node \in ListsOf(Trees(l), Plain)
    <3>1. node.vec \in Seq(Nodes[l])
          BY <2>4 DEF ListsOf
    <3>2. node.vec \in Seq(Trees(l)) /\ node.mapOrder \in Seq(Plain)
          BY <1>2, <2>3, <3>1
    <3> QED BY <2>4, <3>2 DEF ListsOf
  <2> QED BY <1>3, <2>2, <2>4 DEF k
<1>6. Nat \subseteq T
  <2> HIDE DEF T
  <2> QED BY <1>4, <1>5, Induction
<1> QED BY <1>6

\* Every text is made of symbols.
LEMMA LeafSymbols ==
    ASSUME NEW node \in Leaves
    PROVE  WriteLeaf(node) \in Seq(Symbol)
<1>1. CASE node.type = "string"
  <2> DEFINE e == EscapeString(node.str)
             m == <<Mark>>
  <2>1. node.str \in Seq(Symbol)
        BY <1>1 DEF Leaves, LeavesOf
  <2>2. Tok("backslash") \in Symbol /\ Mark \in Symbol
        BY DEF Tok, Token, Symbol, Kinds, Mark
  <2>3. e \in Seq(Symbol) /\ m \in Seq(Symbol)
        BY <2>1, <2>2, EscapeKept
  <2> HIDE DEF e, m
  <2>4. Joint(m, e) \in Seq(Symbol)
        BY <2>3, JointLen
  <2>5. Joint(Joint(m, e), m) \in Seq(Symbol)
        BY <2>3, <2>4, JointLen
  <2>6. WriteLeaf(node) = Joint(Joint(m, e), m)
        BY <1>1 DEF WriteLeaf, Quoted, Joint, m, e
  <2> QED BY <2>5, <2>6
<1>2. CASE node.type # "string"
  <2>1. node \in PlainLeaves
        BY <1>2 DEF Leaves, PlainLeaves, LeavesOf
  <2> QED BY <2>1, LeafRead
<1> QED BY <1>1, <1>2

LEMMA ListSymbols ==
    ASSUME NEW N, NEW write, \A y \in N : write[y] \in Seq(Symbol), NEW node \in ListsOf(N, Seq(Symbol))
    PROVE  WriteList(write, node) \in Seq(Symbol)
<1> DEFINE vec == node.vec
           order == node.mapOrder
           n == Len(vec)
<1>1. vec \in Seq(N) /\ (node.type = "object" => order \in Seq(Seq(Symbol)) /\ Len(order) = Len(vec))
      BY DEF ListsOf
<1>2. /\ n \in Nat /\ \A i \in 1..n : vec[i] \in N
      /\ node.type = "object" => \A i \in 1..n : order[i] \in Seq(Symbol)
  <2> HIDE DEF vec, order
  <2>1. n \in Nat /\ \A i \in 1..n : vec[i] \in N
        BY <1>1
  <2>2. ASSUME node.type = "object", NEW i \in 1..n PROVE order[i] \in Seq(Symbol)
    <3> DEFINE S == Seq(Symbol)
    <3>1. order \in Seq(S) /\ i \in 1..Len(order)
          BY <1>1, <2>2
    <3> HIDE DEF S
    <3>2. order[i] \in S
          BY <3>1
    <3> QED BY <3>2 DEF S
  <2> QED BY <2>1, <2>2
<1>3. PICK g : TextRun(write, node, n, g) /\ WriteList(write, node) = Bracketed(node, g[n])
      BY <1>2, TextIs
<1>4. ASSUME NEW i \in 1..n, NEW text \in Seq(Symbol) PROVE Member(write, node, i, text) \in Seq(Symbol)
  <2> DEFINE c == Comma(i)
             name == Name(node, i)
             y == write[vec[i]]
  <2>1. c \in Seq(Symbol)
    <3>1. Tok(",") \in Symbol
          BY TokIs DEF Punctuation
    <3>2. <<Tok(",")>> \in Seq(Symbol) /\ <<>> \in Seq(Symbol)
          BY <3>1, TupleType
    <3> QED BY <3>2 DEF Comma
  <2>2. name \in Seq(Symbol)
    <3>1. CASE node.type = "object"
      <4> DEFINE key == order[i]
                 m == <<Mark>>
                 colon == <<Tok(":")>>
      <4>1. key \in Seq(Symbol)
            BY <1>2, <3>1
      <4>7. Mark \in Symbol /\ Tok(":") \in Symbol
            BY TokIs DEF Punctuation
      <4>2. m \in Seq(Symbol) /\ colon \in Seq(Symbol)
            BY <4>7, TupleType
      <4> HIDE DEF key, m, colon
      <4>3. Joint(m, key) \in Seq(Symbol)
            BY <4>1, <4>2, JointLen
      <4>4. Joint(Joint(m, key), m) \in Seq(Symbol)
            BY <4>2, <4>3, JointLen
      <4>5. Joint(Joint(Joint(m, key), m), colon) \in Seq(Symbol)
            BY <4>2, <4>4, JointLen
      <4>6. name = Joint(Joint(Joint(m, key), m), colon)
            BY <3>1 DEF Name, Quoted, Joint, m, key, colon
      <4> QED BY <4>5, <4>6
    <3>2. CASE node.type # "object"
          BY <3>2 DEF Name
    <3> QED BY <3>1, <3>2
  <2>3. y \in Seq(Symbol)
    <3>1. vec[i] \in N
          BY <1>2
    <3> QED BY <3>1
  <2>4. Member(write, node, i, text) = Joint(Joint(Joint(text, c), name), y)
        BY DEF Member, Joint
  <2> HIDE DEF c, name, y
  <2>5. Joint(text, c) \in Seq(Symbol)
        BY <2>1, JointLen
  <2>6. Joint(Joint(text, c), name) \in Seq(Symbol)
        BY <2>2, <2>5, JointLen
  <2>7. Joint(Joint(Joint(text, c), name), y) \in Seq(Symbol)
        BY <2>3, <2>6, JointLen
  <2> QED BY <2>4, <2>7
<1> HIDE DEF n
<1> DEFINE T == {i \in Nat : i <= n => g[i] \in Seq(Symbol)}
<1>5. 0 \in T
  <2>1. <<>> \in Seq(Symbol)
        OBVIOUS
  <2> QED BY <1>3, <2>1 DEF TextRun
<1>6. ASSUME NEW l \in Nat, l \in T PROVE l + 1 \in T
  <2> SUFFICES ASSUME l + 1 <= n PROVE g[l + 1] \in Seq(Symbol)
      OBVIOUS
  <2>1. l + 1 \in 1..n /\ (l + 1) - 1 = l /\ g[l] \in Seq(Symbol)
        BY <1>2, <1>6
  <2>2. g[l + 1] = Member(write, node, l + 1, g[l])
        BY <1>3, <2>1 DEF TextRun
  <2> QED BY <1>4, <2>1, <2>2
<1>7. Nat \subseteq T
  <2> HIDE DEF T
  <2> QED BY <1>5, <1>6, Induction
<1>8. g[n] \in Seq(Symbol)
      BY <1>2, <1>7
<1>9. Bracketed(node, g[n]) \in Seq(Symbol)
      BY <1>8, BracketIs
<1> QED BY <1>3, <1>9

LEMMA WriteSymbols ==
    \A k \in 0..Nesting : \A node \in Nodes[k] : Write[k][node] \in Seq(Symbol)
<1> DEFINE T == {k \in Nat : k <= Nesting => \A node \in Nodes[k] : Write[k][node] \in Seq(Symbol)}
<1>1. Nesting \in Nat
      BY NestingAssumption
<1>2. WriteRun(Nesting, Write)
      BY WriteIs
<1>3. 0 \in T
  <2>1. Write[0] = [node \in Leaves |-> WriteLeaf(node)] /\ Nodes[0] = Leaves
        BY <1>2, AllAre DEF WriteRun
  <2>2. \A node \in Nodes[0] : Write[0][node] \in Seq(Symbol)
        BY <2>1, LeafSymbols
  <2> QED BY <2>2
<1>4. ASSUME NEW l \in Nat, l \in T PROVE l + 1 \in T
  <2> SUFFICES ASSUME l + 1 <= Nesting, NEW node \in Nodes[l + 1] PROVE Write[l + 1][node] \in Seq(Symbol)
      OBVIOUS
  <2> DEFINE k == l + 1
             write == Write[l]
             N == Nodes[l]
  <2>1. k \in 1..Nesting /\ k - 1 = l /\ \A y \in N : write[y] \in Seq(Symbol)
        BY <1>1, <1>4
  <2> HIDE DEF k
  <2>2. Write[k] = [y \in Nodes[k] |-> WriteNode(Write[k - 1], y)]
        BY <1>2, <2>1 DEF WriteRun
  <2>3. Write[k][node] = WriteNode(write, node)
        BY <2>1, <2>2 DEF k
  <2>4. Nodes[k] = Leaves \cup ListsOf(N, Seq(Symbol))
        BY <2>1, AllAre
  <2> HIDE DEF write, N
  <2>5. CASE node \in Leaves
    <3>1. node.type \notin {"array", "object"}
          BY <2>5, LeafType DEF Leaves
    <3>2. WriteNode(write, node) = WriteLeaf(node)
          BY <3>1 DEF WriteNode
    <3> QED BY <2>3, <2>5, <3>2, LeafSymbols DEF k
  <2>6. CASE node \in ListsOf(N, Seq(Symbol))
    <3>1. node.type \in {"array", "object"}
          BY <2>6 DEF ListsOf
    <3>2. WriteNode(write, node) = WriteList(write, node)
          BY <3>1 DEF WriteNode
    <3> QED BY <2>1, <2>3, <2>6, <3>2, ListSymbols DEF k
  <2> QED BY <2>4, <2>5, <2>6 DEF k
<1>5. Nat \subseteq T
  <2> HIDE DEF T
  <2> QED BY <1>3, <1>4, Induction
<1> QED BY <1>5

LEMMA JSONSymbols ==
    ASSUME NEW node \in Nodes[Nesting]
    PROVE  JSONToString(node) \in Seq(Symbol)
<1> DEFINE text == Write[Nesting][node]
<1>1. text \in Seq(Symbol)
  <2>1. Nesting \in 0..Nesting
        BY NestingAssumption
  <2> QED BY <2>1, WriteSymbols
<1> HIDE DEF text
<1>2. Bracketed(New("object"), text) \in Seq(Symbol)
      BY <1>1, BracketIs
<1>3. Bracketed(New("object"), text) = <<Tok("{")>> \o text \o <<Tok("}")>>
      BY DEF Bracketed, New
<1>4. JSONToString(node) = IF text[1].t = "[" THEN <<Tok("{")>> \o text \o <<Tok("}")>> ELSE text
      BY DEF JSONToString, text
<1> QED BY <1>1, <1>2, <1>3, <1>4

\* What the reader makes of the text of any value.
LEMMA AnyRead ==
    ASSUME NEW node \in Nodes[Nesting]
    PROVE  LET w == JSONResult(node).whole
               more == JSONResult(node).more
           IN  /\ Parsed(w) /\ w.root = node <=> node \in Kept(Nesting) /\ node.type = "object"
               /\ Parsed(w) => w.stack = <<>> /\ w.names = <<>> /\ more = w
<1> DEFINE t == JSONToString(node)
           w == Parse(Begun, t)
           more == Parse(Begun, Joint(t, t))
<1>1. JSONResult(node).whole = w /\ JSONResult(node).more = more
  <2>1. JSONResult(node).whole = FromString(t) /\ JSONResult(node).more = FromString(Joint(t, t))
        BY DEF JSONResult, Joint
  <2> HIDE DEF t
  <2> QED BY <2>1, FromStringIs
<1>2. t \in Seq(Symbol) /\ Nesting \in 0..Nesting
      BY JSONSymbols, NestingAssumption
<1> HIDE DEF t
<1>3. Parsed(w) => w.stack = <<>> /\ w.names = <<>> /\ \E C : Family(C) /\ w.root \in C
      BY <1>2, ParseSound
<1>4. Parsed(w) => more = w
  <2>1. more = Parse(w, t)
        BY <1>2, ParseJoint
  <2> HIDE DEF w
  <2> QED BY <1>2, <2>1, Settled
<1>5. Parsed(w) /\ w.root = node <=> node \in Kept(Nesting) /\ node.type = "object"
  <2>1. CASE node \in Trees(Nesting)
        BY <1>1, <2>1, JSONRead DEF ReadAs
  <2>2. CASE node \notin Trees(Nesting)
    <3>1. node \notin Kept(Nesting)
          BY <1>2, <2>2, KeptAre
    <3>2. ASSUME Parsed(w), w.root = node PROVE FALSE
      <4>1. PICK C : Family(C) /\ node \in C
            BY <1>3, <3>2
      <4>2. C \cap Nodes[Nesting] \subseteq Trees(Nesting)
            BY <1>2, <4>1, CleanTree
      <4> QED BY <2>2, <4>1, <4>2
    <3> QED BY <3>1, <3>2
  <2> QED BY <2>1, <2>2
<1> HIDE DEF w, more
<1> QED BY <1>1, <1>3, <1>4, <1>5

-----------------------------------------------------------------------------
(***************************************************************************)
(* What comes out is the conversion of what went in.                       *)
(***************************************************************************)
VarIntResult(v) == ReadVarInt(Buffer(WriteVarInt(v) \o <<1, 2>>))
BlockResult(v) == ReadBlock(Buffer(ASCIIToBin(BinToASCII(WriteBlock(v)))))
TargetResult(v) ==
    [target |-> TargetFromBits(v.bits), diff |-> TargetToDiff(TargetFromBits(v.bits)),
     job |-> DiffToTarget(v.diff)]

ConvertInv ==
    /\ in \in Inputs
    /\ Came("varint") => out = VarIntResult(in.v)
    /\ Came("block") => out = BlockResult(in.v)
    /\ Came("share") => out = ShareResult(in.v)
    /\ Came("pair") => out = PairResult(in.v)
    /\ Came("bits") => out = TargetResult(in.v)
    /\ Came("json") => out = JSONResult(in.v)

LEMMA ConvertStep == ConvertInv /\ [Next]_vars => ConvertInv'
<1> SUFFICES ASSUME ConvertInv, [Next]_vars PROVE ConvertInv'
    OBVIOUS
<1> USE DEF ConvertInv, Came, Convert
<1>1. CASE SendVarInt
      BY <1>1 DEF SendVarInt, VarIntResult
<1>2. CASE SubmitBlock
      BY <1>2 DEF SubmitBlock, BlockResult
<1>3. CASE SetTargets
      BY <1>3 DEF SetTargets, TargetResult
<1>4. CASE MineShare
  <2>1. in.kind = "share" /\ in' = in /\ out' = ShareResult(in.v)
        BY <1>4 DEF MineShare, ShareResult
  <2> QED BY <2>1
<1>5. CASE TwoShares
  <2>1. in.kind = "pair" /\ in' = in /\ out' = PairResult(in.v)
        BY <1>5 DEF TwoShares, PairResult
  <2> QED BY <2>1
<1>6. CASE SendJSON
  <2>1. in.kind = "json" /\ in' = in /\ out' = JSONResult(in.v)
        BY <1>6 DEF SendJSON, JSONResult
  <2> QED BY <2>1
<1>7. CASE Done
      BY <1>7 DEF Done, vars
<1>8. CASE UNCHANGED vars
      BY <1>8 DEF vars
<1> QED BY <1>1, <1>2, <1>3, <1>4, <1>5, <1>6, <1>7, <1>8 DEF Next

LEMMA VarIntKept ==
    ASSUME NEW n \in Uint(U64), NEW r, r = VarIntResult(n)
    PROVE  r.val = n /\ r.buf.pointer = Len(r.buf.vec) - 2
<1> DEFINE d == WriteVarInt(n)
           e == <<1, 2>>
           a == Buffer(d \o e)
<1>1. d \in Seq(Byte) /\ e \in Seq(Byte) /\ Len(e) = 2
      BY VarIntType, BaseNat DEF Byte
<1>2. r = Found(a, d, n)
  <2>1. Written(a, d)
    <3> HIDE DEF d, e
    <3> QED BY <1>1, BufferWritten
  <2> QED BY <2>1, VarIntBack DEF VarIntResult
<1>3. Len(d \o e) = Len(d) + 2
      BY <1>1
<1> HIDE DEF d, e
<1>4. r.val = n /\ r.buf.pointer = 0 + Len(d) /\ r.buf.vec = d \o e
      BY <1>2 DEF Found, Skip, Buffer
<1> QED BY <1>1, <1>3, <1>4

LEMMA BlockKept ==
    ASSUME NEW b \in Block, NEW r, r = BlockResult(b)
    PROVE  r.val = b /\ r.buf.pointer = Len(r.buf.vec)
<1> DEFINE d == WriteBlock(b)
           a == Buffer(d)
<1>1. d \in Seq(Byte)
      BY BlockType
<1>2. ASCIIToBin(BinToASCII(d)) = d
  <2> HIDE DEF d
  <2> QED BY <1>1, HexBack
<1>3. r = Found(a, d, b)
  <2>1. Written(a, d)
    <3> HIDE DEF d
    <3> QED BY <1>1, BufferWritten
  <2> QED BY <1>2, <2>1, BlockBack DEF BlockResult
<1> HIDE DEF d
<1>4. r.val = b /\ r.buf.pointer = 0 + Len(d) /\ r.buf.vec = d
      BY <1>3 DEF Found, Skip, Buffer
<1> QED BY <1>1, <1>4

\* A product of two numbers is within DiffOne exactly when each is within the
\* quotient by the other: a target and a difficulty are judged alike.
LEMMA QuotientsAgree ==
    ASSUME NEW t \in Nat, NEW d \in Nat, t > 0, d > 0
    PROVE  d <= DiffOne \div t <=> DiffOne \div d >= t
<1>1. DiffOne \in Nat
      BY WidthAssumption
<1>2. DiffOne \div t \in Nat /\ (t * d <= DiffOne <=> d <= DiffOne \div t)
      BY <1>1, DivFacts
<1>3. DiffOne \div d \in Nat /\ (d * t <= DiffOne <=> t <= DiffOne \div d)
      BY <1>1, DivFacts
<1>4. t * d = d * t
      OBVIOUS
<1> QED BY <1>2, <1>3, <1>4

LEMMA TargetPositive ==
    ASSUME NEW bits \in Bits
    PROVE  TargetFromBits(bits) \in Nat /\ TargetFromBits(bits) > 0
<1> DEFINE lead == Pow[U32 - 1]
           m == bits % lead
           k == (bits \div lead) - (U32 - 1)
           p == Pow[k]
<1>1. U32 - 1 \in Nat /\ lead \in Nat /\ lead > 0 /\ bits \in Nat
      BY WidthAssumption, PowDef, Widths DEF Bits
<1>2. m \in Nat /\ m > 0 /\ bits \div lead \in Nat /\ bits \div lead >= U32 - 1
  <2>1. m > 0 /\ bits \div lead >= U32 - 1
        BY DEF Bits
  <2> HIDE DEF lead
  <2>2. m \in 0..(lead - 1) /\ bits \div lead \in Nat
        BY <1>1, DivFacts
  <2> QED BY <1>1, <2>1, <2>2
<1>3. k \in Nat
  <2> HIDE DEF lead
  <2> QED BY <1>1, <1>2
<1>4. p \in Nat /\ p >= 1
  <2> HIDE DEF k
  <2> QED BY <1>3, PowDef
<1>5. TargetFromBits(bits) = m * p
      BY DEF TargetFromBits
<1> HIDE DEF m, p
<1>6. m * p \in Nat /\ m * p > 0
      BY <1>2, <1>4
<1> QED BY <1>5, <1>6

LEMMA TargetsAgree ==
    ASSUME NEW v, v.bits \in Bits, v.diff \in Nat \ {0}, NEW r, r = TargetResult(v)
    PROVE  v.diff <= r.diff <=> r.job >= r.target
<1> DEFINE t == TargetFromBits(v.bits)
           d == v.diff
<1>1. t \in Nat /\ t > 0 /\ d \in Nat /\ d > 0
      BY TargetPositive
<1>2. r.target = t /\ r.diff = DiffOne \div t /\ r.job = DiffOne \div d
      BY DEF TargetResult, TargetToDiff, DiffToTarget
<1> HIDE DEF t
<1> QED BY <1>1, <1>2, QuotientsAgree

LEMMA ConvertKept == ConvertInv => BytesKept /\ ShareIsBlock /\ KeyIsWork /\ BlockIsShare
<1> SUFFICES ASSUME ConvertInv PROVE BytesKept /\ ShareIsBlock /\ KeyIsWork /\ BlockIsShare
    OBVIOUS
<1>1. in \in Inputs
      BY DEF ConvertInv
<1>2. ASSUME Came("varint") PROVE out.val = in.v /\ out.buf.pointer = Len(out.buf.vec) - 2
  <2>1. in.v \in Uint(U64) /\ out = VarIntResult(in.v)
        BY <1>1, <1>2, InputAssumption DEF ConvertInv, Came
  <2> QED BY <2>1, VarIntKept
<1>3. ASSUME Came("block") PROVE out.val = in.v /\ out.buf.pointer = Len(out.buf.vec)
  <2>1. in.v \in Block /\ out = BlockResult(in.v)
        BY <1>1, <1>3, InputAssumption DEF ConvertInv, Came
  <2> QED BY <2>1, BlockKept
<1>4. ASSUME Came("bits") PROVE in.v.diff <= out.diff <=> out.job >= out.target
  <2>1. in.v.bits \in Bits /\ in.v.diff \in Nat \ {0} /\ out = TargetResult(in.v)
        BY <1>1, <1>4, InputAssumption DEF ConvertInv, Came
  <2> QED BY <2>1, TargetsAgree
<1>5. ShareIsBlock
  <2> SUFFICES ASSUME Came("share") PROVE out.miner = BlockHash(out.block) /\ CoinbaseFilled /\ TreeRebuilt
      BY DEF ShareIsBlock
  <2>1. out = ShareResult(in.v)
        BY DEF ConvertInv
  <2>2. /\ IsTemplate(in.v.template) /\ in.v.height \in Nat /\ in.v.extranonce \in Uint(U32)
        /\ Append(in.v.pubkey, OP_CHECKSIG) \in List(Byte) /\ in.v.share \in Submission
        BY <1>1, InputAssumption DEF Came
  <2> QED BY <2>1, <2>2, ShareKept
<1>6. KeyIsWork
  <2> SUFFICES ASSUME Came("pair")
               PROVE  out.one.key = out.other.key <=> Timeless(out.one.block) = Timeless(out.other.block)
      BY DEF KeyIsWork, Timeless
  <2>1. out = PairResult(in.v)
        BY DEF ConvertInv
  <2>2. IsTemplate(in.v.template) /\ in.v.one \in Submission /\ in.v.other \in Submission
        BY <1>1, InputAssumption DEF Came
  <2> QED BY <2>1, <2>2, PairKept
<1> QED BY <1>2, <1>3, <1>4, <1>5, <1>6 DEF BytesKept, BlockIsShare

LEMMA JSONConverted == ConvertInv => JSONKept /\ PartRefused
<1> SUFFICES ASSUME ConvertInv, Came("json")
             PROVE  /\ Parsed(out.whole) /\ out.whole.root = in.v
                           <=> in.v \in CarriedNodes[Nesting] /\ in.v.type = "object"
                    /\ Parsed(out.whole) =>
                           out.whole.stack = <<>> /\ out.whole.names = <<>> /\ out.more = out.whole
                    /\ in.v \in PlainNodes[Nesting] =>
                           \A n \in 0..(Len(JSONToString(in.v)) - 1) :
                               ~Parsed(FromString(SubSeq(JSONToString(in.v), 1, n)))
    BY DEF JSONKept, PartRefused
<1>1. in.v \in Nodes[Nesting] /\ out = JSONResult(in.v)
      BY InputAssumption DEF ConvertInv, Came
<1>2. /\ Parsed(out.whole) /\ out.whole.root = in.v <=> in.v \in CarriedNodes[Nesting] /\ in.v.type = "object"
      /\ Parsed(out.whole) => out.whole.stack = <<>> /\ out.whole.names = <<>> /\ out.more = out.whole
      BY <1>1, AnyRead DEF Kept
<1>3. ASSUME in.v \in PlainNodes[Nesting], NEW n \in 0..(Len(JSONToString(in.v)) - 1)
      PROVE  ~Parsed(FromString(SubSeq(JSONToString(in.v), 1, n)))
  <2>1. ReadAs(in.v, JSONToString(in.v), JSONResult(in.v).whole, JSONResult(in.v).more)
        BY <1>3, JSONRead DEF Trees
  <2> QED BY <1>3, <2>1 DEF ReadAs
<1> QED BY <1>2, <1>3

LEMMA ConvertAlways == Spec => []ConvertInv
<1>1. Init => ConvertInv
      BY DEF Init, ConvertInv, Came
<1> QED BY <1>1, ConvertStep, PTL DEF Spec

\* Whatever WriteVarInt and SubmitBlock write is read back whole and to the last
\* byte: every number below 2^64, every block with any transactions, inputs,
\* outputs and scripts; for any width of bytes and integers.
THEOREM BytesReadBack == Spec => []BytesKept
BY ConvertAlways, ConvertKept, PTL

\* The block that OnMiningSubmit rebuilds from a share is the one the miner
\* hashed: for every template, any number of transactions and every submission,
\* the cut of the coinbase in GetJob, the branch and the words that SendJob sends
\* and RebuildMerkleTree agree, and the tree is that of a full build.
THEOREM SharesAreBlocks == Spec => []ShareIsBlock
BY ConvertAlways, ConvertKept, PTL

\* The key that Job::SubmitShare keeps is the work of a share: two submissions of
\* one job have the same key exactly when their headers differ in the time only,
\* for every template and all extranonces and nonces.
THEOREM KeysAreWork == Spec => []KeyIsWork
BY ConvertAlways, ConvertKept, PTL

\* The test of a share and that of a block agree (OnMiningSubmit, GetJob), for
\* every target and every difficulty, whatever the divisions round off.
THEOREM BlocksAreShares == Spec => []BlockIsShare
BY ConvertAlways, ConvertKept, PTL

\* What Writer writes of a value, FromString reads back as it was, members in their
\* order, exactly when it is an object whose values can all be carried: no quotation
\* mark, no apostrophe in a string, and no double that loses a digit, its point or
\* its exponent.  This is for every value, whatever its members, to any depth; and
\* a read that succeeds leaves neither an open node nor a name, and ends before what
\* follows the text.
THEOREM JSONReadBack == Spec => []JSONKept
BY ConvertAlways, JSONConverted, PTL

\* No proper part of the text of a value without quotation marks in its strings and
\* names is read as an answer: JSONRPC::Query, which reads what has arrived, never
\* takes a part of such an object for the whole.
THEOREM PartsRefused == Spec => []PartRefused
BY ConvertAlways, JSONConverted, PTL

=============================================================================

-------------------------- MODULE WriteBatchProofs --------------------------
(***************************************************************************)
(* Proofs about the batch and its variable-length integers: the types, that*)
(* decoding gives back what was encoded, and that the buffer alone gives   *)
(* back every put - for every size of a byte, all lengths and any number of*)
(* puts that the count has room for.                                       *)
(***************************************************************************)
EXTENDS WriteBatch, WellFoundedInduction, SequenceTheorems, TLAPS

-----------------------------------------------------------------------------
(* Arithmetic                                                               *)

(* Quotient and remainder.                                                  *)
LEMMA DivMod ==
  ASSUME NEW n \in Nat, NEW a \in Nat \ {0}
  PROVE  /\ n \div a \in Nat
         /\ n % a \in 0 .. a - 1
         /\ n = a * (n \div a) + (n % a)
  OBVIOUS

(* A number below a product has a quotient below the other factor.          *)
LEMMA DivLess ==
  ASSUME NEW n \in Nat, NEW a \in Nat \ {0}, NEW c \in Nat, n < a * c
  PROVE  n \div a < c
<1> DEFINE q == n \div a
<1>1. q \in Nat /\ a * q <= n
  BY DivMod
<1> HIDE DEF q
<1>2. SUFFICES ASSUME c <= q PROVE FALSE
  BY <1>1
<1>3. a * c <= a * q
  BY <1>1, <1>2
<1> QED BY <1>1, <1>3

(* What is below the divisor is its own remainder; so it is when the        *)
(* divisor is added, as the MSB is to a group.                              *)
LEMMA ModSmall ==
  ASSUME NEW a \in Nat \ {0}, NEW n \in 0 .. a - 1
  PROVE  n % a = n /\ (n + a) % a = n
  OBVIOUS

(* A byte has twice as many values as a group, and a group at least two.    *)
LEMMA MsbFacts == Msb \in Nat /\ Msb >= 2 /\ Radix = 2 * Msb /\ Radix \in Nat \ {0}
  BY RadixAssumption DEF Msb

(* A set of numbers that is not empty has a least member.                   *)
LEMMA LeastNat ==
  ASSUME NEW T \in SUBSET Nat, T # {}
  PROVE  \E m \in T : \A k \in T : m <= k
<1>1. PICK x \in T : \A y \in T : ~(<<y, x>> \in OpToRel(<, Nat))
  BY WFMin, NatLessThanWellFounded
<1>2. ASSUME NEW k \in T PROVE x <= k
  <2>1. <<k, x>> \in Nat \X Nat
    OBVIOUS
  <2>2. <<k, x>> \in OpToRel(<, Nat) <=> k < x
    BY <2>1 DEF OpToRel
  <2>3. ~(<<k, x>> \in OpToRel(<, Nat))
    BY <1>1, Zenon
  <2>4. k \in Nat /\ x \in Nat
    OBVIOUS
  <2>5. ~(k < x)
    BY <2>2, <2>3, Zenon
  <2> QED
    BY <2>4, <2>5
<1> QED
  BY <1>2

-----------------------------------------------------------------------------
(* VarInt is well defined                                                   *)

(* One turn of the loop of VarInt::new, with f for what is left.            *)
OneGroup(f, v) ==
  IF v < Msb THEN <<v>> ELSE <<(v % Msb) + Msb>> \o f[v \div Msb]

(* f encodes the numbers up to n.                                           *)
EncodesUpTo(f, n) == f = [v \in 0 .. n |-> OneGroup(f, v)]

(* A shift makes a number smaller.                                          *)
LEMMA ShiftIsLess ==
  ASSUME NEW v \in Nat, v >= Msb
  PROVE  v \div Msb \in Nat /\ v \div Msb < v
<1>1. v \div Msb \in Nat /\ v = Msb * (v \div Msb) + (v % Msb) /\ v % Msb \in Nat
  BY DivMod, MsbFacts
<1> DEFINE q == v \div Msb
<1>2. q \in Nat /\ Msb * q <= v
  BY <1>1, MsbFacts
<1> HIDE DEF q
<1>3. q < v
  <2>1. CASE q = 0
    BY <2>1, MsbFacts
  <2>2. CASE q # 0
    <3>1. Msb * q >= 2 * q
      BY <1>2, MsbFacts
    <3> QED BY <1>2, <2>2, <3>1, MsbFacts
  <2> QED BY <2>1, <2>2
<1> QED BY <1>2, <1>3 DEF q

(* Two encoders agree where both encode.                                    *)
LEMMA EncodersAgree ==
  ASSUME NEW f, NEW m \in Nat, EncodesUpTo(f, m),
         NEW g, NEW n \in Nat, EncodesUpTo(g, n),
         NEW u \in Nat, u <= m, u <= n
  PROVE  f[u] = g[u]
<1> DEFINE T == {v \in Nat : v <= m /\ v <= n /\ f[v] # g[v]}
<1>1. SUFFICES ASSUME T # {} PROVE FALSE
  OBVIOUS
<1>2. PICK v \in T : \A k \in T : v <= k
  BY <1>1, LeastNat
<1>3. f[v] = OneGroup(f, v) /\ g[v] = OneGroup(g, v)
  <2>1. v \in 0 .. m /\ v \in 0 .. n
    OBVIOUS
  <2> QED BY <2>1, Zenon DEF EncodesUpTo
<1>4. CASE v < Msb
  BY <1>3, <1>4 DEF OneGroup
<1>5. CASE ~(v < Msb)
  <2>1. v \div Msb \in Nat /\ v \div Msb < v
    BY <1>5, ShiftIsLess, MsbFacts
  <2>2. f[v \div Msb] = g[v \div Msb]
    BY <1>2, <2>1
  <2> QED BY <1>3, <1>5, <2>2 DEF OneGroup
<1> QED BY <1>4, <1>5

(* There is an encoder up to every number.                                  *)
LEMMA EncodersExist == ASSUME NEW n \in Nat PROVE \E f : EncodesUpTo(f, n)
<1> DEFINE T == {k \in Nat : ~ \E f : EncodesUpTo(f, k)}
<1>1. SUFFICES ASSUME T # {} PROVE FALSE
  OBVIOUS
<1>2. PICK m \in T : \A k \in T : m <= k
  BY <1>1, LeastNat
<1>3. \E g : m > 0 => EncodesUpTo(g, m - 1)
  <2>1. CASE m = 0
    BY <2>1
  <2>2. CASE m # 0
    <3>1. m - 1 \in Nat /\ m - 1 \notin T
      BY <1>2, <2>2
    <3> QED BY <3>1
  <2> QED BY <2>1, <2>2
<1>4. PICK g : m > 0 => EncodesUpTo(g, m - 1)
  BY <1>3
<1> DEFINE h == [v \in 0 .. m |-> IF v < m THEN g[v] ELSE OneGroup(g, v)]
<1>5. ASSUME NEW v \in 0 .. m PROVE h[v] = OneGroup(h, v)
  <2>1. h[v] = OneGroup(g, v)
    BY <1>4 DEF EncodesUpTo
  <2>2. CASE v < Msb
    BY <2>1, <2>2 DEF OneGroup
  <2>3. CASE ~(v < Msb)
    <3>1. v \div Msb \in Nat /\ v \div Msb < v
      BY <2>3, ShiftIsLess, MsbFacts
    <3>2. h[v \div Msb] = g[v \div Msb]
      BY <3>1
    <3> HIDE DEF h
    <3> QED BY <2>1, <2>3, <3>2 DEF OneGroup
  <2> QED BY <2>2, <2>3
<1>6. EncodesUpTo(h, m)
  <2>1. h = [v \in 0 .. m |-> h[v]]
    OBVIOUS
  <2> HIDE DEF h
  <2> QED BY <1>5, <2>1 DEF EncodesUpTo
<1> HIDE DEF h
<1> QED BY <1>6

(* So VarInt is what its definition says.                                   *)
LEMMA VarIntDef ==
  VarInt = [v \in Nat |->
              IF v < Msb THEN <<v>> ELSE <<(v % Msb) + Msb>> \o VarInt[v \div Msb]]
<1> DEFINE G(n) == CHOOSE f : EncodesUpTo(f, n)
           h == [v \in Nat |-> G(v)[v]]
<1>1. ASSUME NEW n \in Nat PROVE EncodesUpTo(G(n), n)
  BY EncodersExist, Zenon
<1> HIDE DEF G
<1>2. ASSUME NEW v \in Nat PROVE h[v] = OneGroup(h, v)
  <2>1. h[v] = OneGroup(G(v), v)
    BY <1>1 DEF EncodesUpTo
  <2>2. CASE v < Msb
    BY <2>1, <2>2 DEF OneGroup
  <2>3. CASE ~(v < Msb)
    <3>1. v \div Msb \in Nat /\ v \div Msb < v
      BY <2>3, ShiftIsLess, MsbFacts
    <3>2. h[v \div Msb] = G(v)[v \div Msb]
      BY <1>1, <3>1, EncodersAgree
    <3> HIDE DEF h
    <3> QED BY <2>1, <2>3, <3>2 DEF OneGroup
  <2> QED BY <2>2, <2>3
<1>3. h = [v \in Nat |-> h[v]]
  OBVIOUS
<1> HIDE DEF h
<1>4. h = [v \in Nat |-> OneGroup(h, v)]
  BY <1>2, <1>3
<1>5. \E f : f = [v \in Nat |->
                    IF v < Msb THEN <<v>> ELSE <<(v % Msb) + Msb>> \o f[v \div Msb]]
  BY <1>4 DEF OneGroup
<1> QED BY <1>5, Zenon DEF VarInt

LEMMA VarIntUnfold ==
  ASSUME NEW v \in Nat
  PROVE  /\ v < Msb => VarInt[v] = <<v>>
         /\ v >= Msb => /\ v \div Msb \in Nat
                        /\ VarInt[v] = <<(v % Msb) + Msb>> \o VarInt[v \div Msb]
<1> DEFINE e(w) == IF w < Msb THEN <<w>>
                   ELSE <<(w % Msb) + Msb>> \o VarInt[w \div Msb]
<1>1. VarInt = [w \in Nat |-> e(w)]
  BY VarIntDef
<1>2. VarInt[v] = e(v)
  BY <1>1, Zenon
<1>3. v < Msb => VarInt[v] = <<v>>
  BY <1>2
<1>4. ASSUME v >= Msb
      PROVE  VarInt[v] = <<(v % Msb) + Msb>> \o VarInt[v \div Msb]
  <2>1. ~(v < Msb)
    BY <1>4, MsbFacts
  <2> QED BY <1>2, <2>1
<1> QED BY <1>3, <1>4, ShiftIsLess

-----------------------------------------------------------------------------
(* What VarInt::new writes                                                  *)

ByteValues == 0 .. Radix - 1

(* The elements of a sequence with one put in front.                        *)
LEMMA ConsFacts ==
  ASSUME NEW S, NEW s \in Seq(S), NEW x \in S
  PROVE  /\ <<x>> \o s \in Seq(S)
         /\ Len(<<x>> \o s) = Len(s) + 1
         /\ (<<x>> \o s)[1] = x
         /\ \A k \in 1 .. Len(s) : (<<x>> \o s)[k + 1] = s[k]
  OBVIOUS

(* Bytes; all but the last have the MSB.                                    *)
WellFormed(bytes) ==
  /\ bytes \in Seq(ByteValues)
  /\ Len(bytes) >= 1
  /\ \A k \in 1 .. Len(bytes) : bytes[k] < Msb <=> k = Len(bytes)

LEMMA VarIntIsWellFormed ==
  ASSUME NEW n \in Nat
  PROVE  WellFormed(VarInt[n])
<1> DEFINE T == {v \in Nat : ~WellFormed(VarInt[v])}
<1>1. SUFFICES ASSUME T # {} PROVE FALSE
  OBVIOUS
<1>2. PICK v \in T : \A k \in T : v <= k
  BY <1>1, LeastNat
<1>3. CASE v < Msb
  <2>1. v \in Nat
    OBVIOUS
  <2>2. VarInt[v] = <<v>>
    BY <1>3, <2>1, VarIntUnfold, Zenon
  <2>3. v \in ByteValues
    BY <1>3, <2>1, MsbFacts DEF ByteValues
  <2> DEFINE t == <<v>>
  <2>4. t \in Seq(ByteValues) /\ Len(t) = 1 /\ t[1] = v
    BY <2>3
  <2> HIDE DEF t
  <2>5. WellFormed(t)
    BY <1>3, <2>4 DEF WellFormed
  <2> QED BY <2>2, <2>5 DEF t
<1>4. CASE v >= Msb
  <2> DEFINE q == v \div Msb
             b == (v % Msb) + Msb
  <2>1. q \in Nat /\ q < v /\ VarInt[v] = <<b>> \o VarInt[q]
    BY <1>4, VarIntUnfold, ShiftIsLess
  <2>2. v % Msb \in 0 .. Msb - 1
    BY DivMod, MsbFacts
  <2>3. b \in ByteValues /\ ~(b < Msb)
    BY <2>2, MsbFacts DEF ByteValues
  <2> HIDE DEF q, b
  <2>4. WellFormed(VarInt[q])
    BY <1>2, <2>1
  <2> DEFINE s == VarInt[q]
             t == VarInt[v]
  <2>5. s \in Seq(ByteValues) /\ Len(s) \in Nat /\ Len(s) >= 1
    BY <2>4 DEF WellFormed
  <2>6. /\ t \in Seq(ByteValues) /\ Len(t) = Len(s) + 1 /\ t[1] = b
        /\ \A k \in 1 .. Len(s) : t[k + 1] = s[k]
    BY <2>1, <2>3, <2>5, ConsFacts
  <2>7. \A k \in 1 .. Len(s) : s[k] < Msb <=> k = Len(s)
    BY <2>4 DEF WellFormed
  <2> HIDE DEF s, t
  <2>8. ASSUME NEW k \in 1 .. Len(t) PROVE t[k] < Msb <=> k = Len(t)
    <3>1. CASE k = 1
      BY <2>3, <2>5, <2>6, <3>1
    <3>2. CASE k # 1
      <4>1. k - 1 \in 1 .. Len(s) /\ (k - 1) + 1 = k
        BY <2>5, <2>6, <3>2
      <4>2. t[k] = s[k - 1]
        BY <2>6, <4>1
      <4> QED BY <2>5, <2>6, <2>7, <4>1, <4>2
    <3> QED BY <3>1, <3>2
  <2>9. WellFormed(t)
    BY <2>5, <2>6, <2>8 DEF WellFormed
  <2> QED BY <2>9 DEF t
<1> QED BY <1>3, <1>4, MsbFacts

(* A number with room in g groups has g bytes at most.                      *)
LEMMA VarIntIsShort ==
  ASSUME NEW v \in Nat, NEW g \in 1 .. 4, v < Room[g]
  PROVE  Len(VarInt[v]) <= g
<1> DEFINE Short(r, k) == \A n \in Nat : n < r => Len(VarInt[n]) <= k
<1>1. Short(Msb, 1)
  <2> SUFFICES ASSUME NEW n \in Nat, n < Msb PROVE Len(VarInt[n]) <= 1
    OBVIOUS
  <2>1. VarInt[n] = <<n>>
    BY VarIntUnfold, Zenon
  <2> QED BY <2>1
<1>2. ASSUME NEW r \in Nat, NEW k \in Nat \ {0}, Short(r, k)
      PROVE  Short(Msb * r, k + 1)
  <2> SUFFICES ASSUME NEW n \in Nat, n < Msb * r PROVE Len(VarInt[n]) <= k + 1
    OBVIOUS
  <2>1. CASE n < Msb
    BY <1>1, <2>1
  <2>2. CASE ~(n < Msb)
    <3> DEFINE q == n \div Msb
               b == (n % Msb) + Msb
    <3> n >= Msb
      BY <2>2, MsbFacts
    <3>1. q \in Nat /\ VarInt[n] = <<b>> \o VarInt[q]
      BY VarIntUnfold, Zenon
    <3>2. q < r
      BY DivLess, MsbFacts
    <3>3. n % Msb \in 0 .. Msb - 1
      BY DivMod, MsbFacts
    <3>4. b \in ByteValues
      BY <3>3, MsbFacts DEF ByteValues
    <3> HIDE DEF q, b
    <3>5. Len(VarInt[q]) <= k
      BY <1>2, <3>1, <3>2
    <3>6. VarInt[q] \in Seq(ByteValues)
      BY <3>1, VarIntIsWellFormed DEF WellFormed
    <3>7. Len(VarInt[n]) = Len(VarInt[q]) + 1
      BY <3>1, <3>4, <3>6, ConsFacts
    <3> QED BY <3>5, <3>6, <3>7
  <2> QED BY <2>1, <2>2
<1> HIDE DEF Short
<1> DEFINE r2 == Msb * Msb
           r3 == Msb * r2
           r4 == Msb * r3
<1>3. r2 \in Nat /\ r3 \in Nat /\ r4 \in Nat
  BY MsbFacts
<1>4. Short(r2, 2)
  BY <1>1, <1>2, MsbFacts
<1>5. Room[1] = Msb /\ Room[2] = r2 /\ Room[3] = r3 /\ Room[4] = r4
  BY MsbFacts DEF Room
<1> HIDE DEF r2
<1>6. Short(r3, 3)
  BY <1>2, <1>3, <1>4
<1> HIDE DEF r3
<1>7. Short(r4, 4)
  BY <1>2, <1>3, <1>6
<1> HIDE DEF r4
<1>8. Short(Room[g], g)
  BY <1>1, <1>4, <1>5, <1>6, <1>7
<1> QED BY <1>8 DEF Short

-----------------------------------------------------------------------------
(* What decode reads                                                        *)

(* g sums the groups of the bytes k .. read, for k from j on.               *)
SumsFrom(bytes, read, j, g) ==
  g = [k \in j .. read + 1 |->
         IF k > read THEN 0 ELSE (bytes[k] % Msb) + Msb * g[k + 1]]

LEMMA GroupsDef ==
  ASSUME NEW bytes, NEW read \in Nat
  PROVE  SumsFrom(bytes, read, 1, Groups(bytes, read))
<1> DEFINE T == {d \in Nat : d <= read /\ ~ \E g : SumsFrom(bytes, read, read + 1 - d, g)}
<1>1. ASSUME T # {} PROVE FALSE
  <2>1. PICK d \in T : \A k \in T : d <= k
    BY <1>1, LeastNat
  <2> DEFINE j == read + 1 - d
  <2>2. j \in 1 .. read + 1
    BY <2>1
  <2>3. PICK g : d > 0 => SumsFrom(bytes, read, j + 1, g)
    <3>1. CASE d = 0
      BY <3>1
    <3>2. CASE d # 0
      <4>1. d - 1 \in Nat /\ d - 1 <= read /\ d - 1 \notin T /\ read + 1 - (d - 1) = j + 1
        BY <2>1, <3>2
      <4> QED BY <4>1
    <3> QED BY <3>1, <3>2
  <2> DEFINE h == [k \in j .. read + 1 |->
                     IF k > read THEN 0
                     ELSE IF k = j THEN (bytes[k] % Msb) + Msb * g[k + 1] ELSE g[k]]
  <2>4. j = read + 1 - d
    OBVIOUS
  <2> HIDE DEF j
  <2>5. ASSUME NEW k \in j + 1 .. read + 1
        PROVE  h[k] = g[k] \/ d = 0
    <3>1. CASE d = 0
      BY <3>1
    <3>2. CASE d # 0
      <4>1. k \in j .. read + 1 /\ k # j
        BY <2>2
      <4>2. k > read => g[k] = 0
        BY <2>3, <2>4, <3>2 DEF SumsFrom
      <4> QED BY <4>1, <4>2
    <3> QED BY <3>1, <3>2
  <2>6. ASSUME NEW k \in j .. read + 1
        PROVE  h[k] = IF k > read THEN 0 ELSE (bytes[k] % Msb) + Msb * h[k + 1]
    <3>1. CASE k > read
      BY <3>1
    <3>2. CASE ~(k > read)
      <4>1. k + 1 \in j + 1 .. read + 1 /\ d # 0
        BY <2>2, <2>4, <3>2
      <4>2. h[k + 1] = g[k + 1]
        BY <2>5, <4>1
      <4>3. CASE k = j
        <5>1. h[k] = (bytes[k] % Msb) + Msb * g[k + 1]
          BY <3>2, <4>3
        <5> HIDE DEF h
        <5> QED BY <3>2, <4>2, <5>1
      <4>4. CASE k # j
        <5>1. h[k] = g[k] /\ k \in j + 1 .. read + 1
          BY <2>2, <3>2, <4>4
        <5>2. g[k] = (bytes[k] % Msb) + Msb * g[k + 1]
          BY <2>3, <2>4, <3>2, <4>1, <5>1 DEF SumsFrom
        <5> HIDE DEF h
        <5> QED BY <3>2, <4>2, <5>1, <5>2
      <4> QED BY <4>3, <4>4
    <3> QED BY <3>1, <3>2
  <2>7. h = [k \in j .. read + 1 |-> h[k]]
    OBVIOUS
  <2> HIDE DEF h
  <2>8. SumsFrom(bytes, read, j, h)
    BY <2>6, <2>7 DEF SumsFrom
  <2> QED BY <2>1, <2>8 DEF j
<1>2. \E g : SumsFrom(bytes, read, 1, g)
  <2>1. read \notin T
    BY <1>1
  <2>2. read + 1 - read = 1
    OBVIOUS
  <2> QED BY <2>1, <2>2
<1> QED BY <1>2, Zenon DEF SumsFrom, Groups

(* The bytes up to `read` end with an encoding.                             *)
EndsWith(bytes, read, encoding) ==
  /\ Len(encoding) <= read
  /\ \A k \in 1 .. Len(encoding) : bytes[read - Len(encoding) + k] = encoding[k]

(* The sum of the groups that VarInt::new wrote is the number: if the bytes *)
(* end with an encoding, its sum is what was encoded.                       *)
LEMMA SumIsNumber ==
  ASSUME NEW bytes, NEW read \in Nat, NEW g, SumsFrom(bytes, read, 1, g),
         NEW n \in Nat, EndsWith(bytes, read, VarInt[n])
  PROVE  g[read - Len(VarInt[n]) + 1] = n
<1> DEFINE Ends(v) == EndsWith(bytes, read, VarInt[v])
           T == {v \in Nat : Ends(v) /\ g[read - Len(VarInt[v]) + 1] # v}
<1>1. SUFFICES ASSUME T # {} PROVE FALSE
  OBVIOUS
<1>2. PICK v \in T : \A k \in T : v <= k
  BY <1>1, LeastNat
<1>3. v \in Nat /\ EndsWith(bytes, read, VarInt[v]) /\ g[read - Len(VarInt[v]) + 1] # v
  OBVIOUS
<1> v \in Nat
  OBVIOUS
<1> HIDE DEF T
<1> DEFINE t == VarInt[v]
           i == read - Len(t) + 1
<1>4. t \in Seq(ByteValues) /\ Len(t) \in Nat /\ Len(t) >= 1 /\ i \in 1 .. read
  <2>1. WellFormed(t)
    BY VarIntIsWellFormed
  <2>2. t \in Seq(ByteValues) /\ Len(t) >= 1
    BY <2>1 DEF WellFormed
  <2> HIDE DEF t
  <2>3. Len(t) \in Nat
    BY <2>2
  <2> QED BY <1>3, <2>2, <2>3 DEF t, EndsWith
<1>5. g[i] = (bytes[i] % Msb) + Msb * g[i + 1] /\ g[read + 1] = 0
  <2>1. i \in 1 .. read + 1 /\ ~(i > read) /\ read + 1 \in 1 .. read + 1 /\ read + 1 > read
    <3> HIDE DEF i
    <3> QED BY <1>4
  <2> HIDE DEF i
  <2>2. \A k \in 1 .. read + 1 :
          g[k] = IF k > read THEN 0 ELSE (bytes[k] % Msb) + Msb * g[k + 1]
    BY Zenon DEF SumsFrom
  <2> QED BY <2>1, <2>2
<1>6. bytes[i] = t[1]
  <2>1. 1 \in 1 .. Len(t) /\ read - Len(t) + 1 = i
    BY <1>4
  <2> QED BY <1>3, <2>1 DEF EndsWith
<1>7. CASE v < Msb
  <2>1. t = <<v>>
    BY <1>7, VarIntUnfold, Zenon
  <2>2. i = read /\ bytes[i] = v
    BY <1>4, <1>6, <2>1
  <2>3. v % Msb = v
    <3>1. v \in 0 .. Msb - 1
      BY <1>3, <1>7, MsbFacts
    <3> QED BY <3>1, MsbFacts, ModSmall
  <2>4. g[i] = v
    <3> HIDE DEF i
    <3> QED BY <1>5, <2>2, <2>3, MsbFacts
  <2> QED BY <1>3, <2>4
<1>8. CASE v >= Msb
  <2> DEFINE q == v \div Msb
             r == v % Msb
             b == r + Msb
             s == VarInt[q]
  <2>1. q \in Nat /\ q < v /\ t = <<b>> \o s
    <3>1. t = <<b>> \o s
      BY <1>8, VarIntUnfold, Zenon
    <3> QED BY <1>8, <3>1, ShiftIsLess
  <2>2. r \in 0 .. Msb - 1 /\ v = Msb * q + r
    BY DivMod, MsbFacts
  <2>3. b % Msb = r /\ b \in ByteValues
    <3> HIDE DEF r
    <3> QED BY <2>2, MsbFacts, ModSmall DEF ByteValues
  <2> HIDE DEF q, r, b
  <2>4. WellFormed(s)
    BY <2>1, VarIntIsWellFormed
  <2>5. s \in Seq(ByteValues)
    BY <2>4 DEF WellFormed
  <2> HIDE DEF s, t
  <2>6. /\ Len(s) \in Nat /\ Len(t) = Len(s) + 1 /\ t[1] = b
        /\ \A k \in 1 .. Len(s) : t[k + 1] = s[k]
    BY <2>1, <2>3, <2>5, ConsFacts
  <2>7. read - Len(s) + 1 = i + 1 /\ Len(s) <= read
    BY <1>4, <2>6
  <2>8. ASSUME NEW k \in 1 .. Len(s) PROVE bytes[read - Len(s) + k] = s[k]
    <3>1. k + 1 \in 1 .. Len(t) /\ read - Len(t) + (k + 1) = read - Len(s) + k
      BY <2>6
    <3>2. bytes[read - Len(t) + (k + 1)] = t[k + 1]
      BY <1>3, <3>1 DEF t, EndsWith
    <3> QED BY <2>6, <3>1, <3>2
  <2>9. g[i + 1] = q
    <3>1. Ends(q)
      BY <2>7, <2>8 DEF s, EndsWith
    <3> HIDE DEF Ends
    <3>2. q \notin T
      BY <1>2, <1>3, <2>1
    <3>3. g[read - Len(s) + 1] = q
      BY <2>1, <3>1, <3>2 DEF s, T
    <3> QED BY <2>7, <3>3
  <2>10. g[i] = v
    <3> HIDE DEF i
    <3> QED BY <1>5, <1>6, <2>2, <2>3, <2>6, <2>9, <2>1, MsbFacts
  <2> QED BY <1>3, <2>10 DEF t
<1> QED BY <1>7, <1>8, MsbFacts

(* so that the groups of an encoding sum up to the number.                  *)
LEMMA GroupsOfNumber ==
  ASSUME NEW bytes, NEW v \in Nat,
         \A k \in 1 .. Len(VarInt[v]) : bytes[k] = VarInt[v][k]
  PROVE  Groups(bytes, Len(VarInt[v]))[1] = v
<1>1. Len(VarInt[v]) \in Nat
  <2>1. VarInt[v] \in Seq(ByteValues)
    BY VarIntIsWellFormed DEF WellFormed
  <2> QED BY <2>1
<1>2. PICK read \in Nat : read = Len(VarInt[v])
  BY <1>1
<1>3. PICK g : g = Groups(bytes, read)
  OBVIOUS
<1>4. SumsFrom(bytes, read, 1, g)
  BY <1>3, GroupsDef
<1>5. EndsWith(bytes, read, VarInt[v])
  BY <1>2 DEF EndsWith
<1>6. g[read - Len(VarInt[v]) + 1] = v
  BY <1>4, <1>5, SumIsNumber
<1>7. read - Len(VarInt[v]) + 1 = 1
  BY <1>2
<1> QED BY <1>2, <1>3, <1>6, <1>7

(* decode stops behind the encoding that the bytes begin with, and gives    *)
(* back what was encoded, as a u32.                                         *)
LEMMA DecodePrefix ==
  ASSUME NEW bytes, NEW v \in Nat,
         NEW n \in Nat, Len(bytes) = n, Len(VarInt[v]) <= n,
         \A k \in 1 .. Len(VarInt[v]) : bytes[k] = VarInt[v][k]
  PROVE  Decode(bytes) = [value |-> v % U32, read |-> Len(VarInt[v])]
<1> DEFINE t == VarInt[v]
           len == Len(t)
           ends == {k \in 1 .. Len(bytes) : bytes[k] < Msb}
<1>1. WellFormed(t)
  BY VarIntIsWellFormed
<1> HIDE DEF t
<1>2. len \in Nat /\ len >= 1 /\ \A k \in 1 .. len : t[k] < Msb <=> k = len
  BY <1>1 DEF WellFormed
<1>3. len <= n /\ \A k \in 1 .. len : bytes[k] = t[k]
  BY DEF t
<1> HIDE DEF len
<1>4. len \in ends /\ \A k \in ends : len <= k
  <2>1. len \in 1 .. n /\ len \in 1 .. len
    BY <1>2, <1>3
  <2>2. bytes[len] < Msb
    BY <1>2, <1>3, <2>1
  <2>3. ASSUME NEW k \in ends, k < len PROVE FALSE
    <3>1. k \in 1 .. len /\ k # len
      BY <1>2, <2>3
    <3> QED BY <1>2, <1>3, <3>1
  <2> QED BY <1>2, <2>1, <2>2, <2>3
<1>5. \A k \in ends : (\A j \in ends : k <= j) => k = len
  <2> SUFFICES ASSUME NEW k \in ends, \A j \in ends : k <= j PROVE k = len
    OBVIOUS
  <2>1. k <= len /\ len <= k /\ k \in Nat
    BY <1>4
  <2> HIDE DEF ends
  <2> QED BY <1>2, <2>1
<1>6. BytesRead(bytes) = len
  <2>1. BytesRead(bytes) = CHOOSE k \in ends : \A j \in ends : k <= j
    BY <1>4 DEF BytesRead
  <2> HIDE DEF ends
  <2> QED BY <1>4, <1>5, <2>1
<1>7. Groups(bytes, len)[1] = v
  BY GroupsOfNumber DEF len, t
<1> QED BY <1>6, <1>7 DEF Decode, len, t

-----------------------------------------------------------------------------
(* The cells that put_bytes writes                                          *)

Cells == [what : {"byte", "key", "value"}, byte : ByteValues, len : Nat \ {0}]

LEMMA CellFacts ==
  /\ \A b \in ByteValues : Byte(b) \in Cells /\ Byte(b).what = "byte" /\ Byte(b).byte = b
  /\ \A what \in {"key", "value"}, len \in Nat \ {0} : Payload(what, len) \in Cells
  /\ 0 \in ByteValues /\ 1 \in ByteValues
<1>1. 0 \in ByteValues /\ 1 \in ByteValues
  BY MsbFacts DEF ByteValues
<1> QED BY <1>1 DEF Byte, Payload, Cells

(* A sequence given by its elements.                                        *)
LEMMA MapIsSeq ==
  ASSUME NEW n \in Nat, NEW S, NEW f \in [1 .. n -> S]
  PROVE  f \in Seq(S) /\ Len(f) = n
  OBVIOUS

LEMMA ZeroesType == ASSUME NEW n \in Nat PROVE Zeroes(n) \in Seq(Cells) /\ Len(Zeroes(n)) = n
<1>1. Zeroes(n) \in [1 .. n -> Cells]
  BY CellFacts DEF Zeroes
<1> QED BY <1>1, MapIsSeq

LEMMA LengthBytesType ==
  ASSUME NEW v \in Nat
  PROVE  /\ LengthBytes(v) \in Seq(Cells)
         /\ Len(LengthBytes(v)) = Len(VarInt[v])
         /\ Len(VarInt[v]) \in Nat /\ Len(VarInt[v]) >= 1
         /\ \A k \in 1 .. Len(VarInt[v]) : /\ LengthBytes(v)[k].what = "byte"
                                           /\ LengthBytes(v)[k].byte = VarInt[v][k]
<1> DEFINE t == VarInt[v]
<1>1. t \in Seq(ByteValues) /\ Len(t) >= 1
  BY VarIntIsWellFormed DEF WellFormed
<1> HIDE DEF t
<1>2. Len(t) \in Nat /\ \A k \in 1 .. Len(t) : t[k] \in ByteValues
  BY <1>1
<1>3. LengthBytes(v) = [k \in 1 .. Len(t) |-> Byte(t[k])]
  BY DEF LengthBytes, t
<1>4. LengthBytes(v) \in [1 .. Len(t) -> Cells]
  BY <1>2, <1>3, CellFacts
<1>5. LengthBytes(v) \in Seq(Cells) /\ Len(LengthBytes(v)) = Len(t)
  BY <1>2, <1>4, MapIsSeq
<1>6. \A k \in 1 .. Len(t) : LengthBytes(v)[k].what = "byte" /\ LengthBytes(v)[k].byte = t[k]
  BY <1>2, <1>3, CellFacts
<1> QED BY <1>1, <1>2, <1>5, <1>6 DEF t

LEMMA BytesType ==
  ASSUME NEW what \in {"key", "value"}, NEW len \in Nat
  PROVE  /\ Bytes(what, len) \in Seq(Cells)
         /\ Len(Bytes(what, len)) = IF len = 0 THEN 0 ELSE 1
         /\ len # 0 => Bytes(what, len)[1] = Payload(what, len)
<1>1. CASE len = 0
  BY <1>1 DEF Bytes
<1>2. CASE len # 0
  <2>1. Bytes(what, len) = <<Payload(what, len)>> /\ Payload(what, len) \in Cells
    BY <1>2, CellFacts DEF Bytes
  <2> QED BY <1>2, <2>1
<1> QED BY <1>1, <1>2

(* Two sequences in a row.                                                  *)
LEMMA ConcatFacts ==
  ASSUME NEW S, NEW s \in Seq(S), NEW t \in Seq(S)
  PROVE  /\ s \o t \in Seq(S)
         /\ Len(s \o t) = Len(s) + Len(t)
         /\ \A k \in 1 .. Len(s) : (s \o t)[k] = s[k]
         /\ \A k \in 1 .. Len(t) : (s \o t)[Len(s) + k] = t[k]
  OBVIOUS

LEMMA OpHeadType == OpHead \in Seq(Cells) /\ Len(OpHead) = 5
<1>1. <<Byte(PutOp)>> \in Seq(Cells) /\ Len(<<Byte(PutOp)>>) = 1
  BY CellFacts DEF PutOp
<1>2. Zeroes(4) \in Seq(Cells) /\ Len(Zeroes(4)) = 4
  BY ZeroesType
<1> DEFINE a == <<Byte(PutOp)>>
           z == Zeroes(4)
<1>3. OpHead = a \o z
  BY DEF OpHead
<1> HIDE DEF a, z
<1>4. a \in Seq(Cells) /\ Len(a) = 1 /\ z \in Seq(Cells) /\ Len(z) = 4
  BY <1>1, <1>2 DEF a, z
<1>5. OpHead \in Seq(Cells) /\ Len(OpHead) = Len(a) + Len(z)
  BY <1>3, <1>4, ConcatFacts, Zenon
<1> QED BY <1>4, <1>5

(* A u32 is a number below U32.                                             *)
LEMMA U32Facts ==
  /\ U32 \in Nat \ {0}
  /\ \A v \in Nat : v % U32 \in Nat /\ (v < U32 => v % U32 = v)
<1>1. U32 \in Nat \ {0}
  <2> DEFINE r2 == Radix * Radix
             r3 == r2 * Radix
  <2>1. r2 \in Nat \ {0}
    BY MsbFacts
  <2>2. U32 = r3 * Radix
    BY DEF U32
  <2> HIDE DEF r2
  <2>3. r3 \in Nat \ {0}
    BY <2>1, MsbFacts
  <2> HIDE DEF r3
  <2> QED BY <2>2, <2>3, MsbFacts
<1>2. ASSUME NEW v \in Nat PROVE v % U32 \in Nat /\ (v < U32 => v % U32 = v)
  <2>1. v % U32 \in Nat
    BY <1>1, DivMod
  <2>2. ASSUME v < U32 PROVE v % U32 = v
    <3>1. v \in 0 .. U32 - 1
      BY <1>1, <2>2
    <3> QED BY <1>1, <3>1, ModSmall
  <2> QED BY <2>1, <2>2
<1> QED BY <1>1, <1>2

LEMMA RecordType ==
  ASSUME NEW klen \in Nat, NEW vlen \in Nat
  PROVE  KeyPart(klen) \in Seq(Cells) /\ Record(klen, vlen) \in Seq(Cells)
<1>1. klen % U32 \in Nat /\ vlen % U32 \in Nat
  BY U32Facts
<1>2. /\ LengthBytes(klen % U32) \in Seq(Cells)
      /\ LengthBytes(vlen % U32) \in Seq(Cells)
  BY <1>1, LengthBytesType
<1>3. Bytes("key", klen) \in Seq(Cells) /\ Bytes("value", vlen) \in Seq(Cells)
  BY BytesType
<1>4. KeyPart(klen) \in Seq(Cells)
  BY <1>2, <1>3, OpHeadType, ConcatFacts DEF KeyPart
<1> QED BY <1>2, <1>3, <1>4, ConcatFacts DEF Record

-----------------------------------------------------------------------------
(* The count                                                                *)

(* The low byte of a number and the bytes above it.                         *)
LEMMA LowByte ==
  ASSUME NEW n \in Nat
  PROVE  /\ n \div Radix \in Nat
         /\ n % Radix \in ByteValues /\ n % Radix \in Nat
         /\ n = Radix * (n \div Radix) + (n % Radix)
<1>1. Radix \in Nat \ {0}
  BY MsbFacts
<1>2. /\ n \div Radix \in Nat /\ n % Radix \in 0 .. Radix - 1
      /\ n = Radix * (n \div Radix) + (n % Radix)
  BY <1>1, DivMod, Zenon
<1> QED BY <1>1, <1>2 DEF ByteValues

LEMMA LittleEndianType ==
  ASSUME NEW n \in Nat, NEW k \in 1 .. 4
  PROVE  LittleEndian(n)[k] \in ByteValues
<1> DEFINE n1 == n \div Radix
           n2 == n1 \div Radix
           n3 == n2 \div Radix
<1>1. n1 \in Nat /\ n % Radix \in ByteValues
  BY LowByte
<1>2. LittleEndian(n) = <<n % Radix, n1 % Radix, n2 % Radix, n3 % Radix>>
  BY DEF LittleEndian
<1> HIDE DEF n1
<1>3. n2 \in Nat /\ n1 % Radix \in ByteValues
  BY <1>1, LowByte
<1> HIDE DEF n2
<1>4. n3 \in Nat /\ n2 % Radix \in ByteValues
  BY <1>3, LowByte
<1> HIDE DEF n3
<1>5. n3 % Radix \in ByteValues
  BY <1>4, LowByte
<1> QED BY <1>1, <1>2, <1>3, <1>4, <1>5

(* What is written as four bytes is read back.                              *)
LEMMA LittleEndianValue ==
  ASSUME NEW n \in Nat, n < U32, NEW b, b = LittleEndian(n)
  PROVE  b[1] + Radix * (b[2] + Radix * (b[3] + Radix * b[4])) = n
<1> DEFINE n1 == n \div Radix
           n2 == n1 \div Radix
           n3 == n2 \div Radix
           r2 == Radix * Radix
           r3 == Radix * r2
<1>1. r2 \in Nat /\ r3 \in Nat /\ U32 = Radix * r3
  <2>1. r2 \in Nat
    BY MsbFacts
  <2>2. U32 = ((Radix * Radix) * Radix) * Radix
    BY DEF U32
  <2>3. (Radix * Radix) * Radix = Radix * (Radix * Radix)
    BY MsbFacts
  <2>4. U32 = r3 * Radix
    BY <2>2, <2>3
  <2> HIDE DEF r2
  <2>5. r3 \in Nat
    BY <2>1, MsbFacts
  <2> HIDE DEF r3
  <2> QED BY <2>1, <2>4, <2>5, MsbFacts
<1> DEFINE m0 == n % Radix
           m1 == n1 % Radix
           m2 == n2 % Radix
           m3 == n3 % Radix
<1>2. b[1] = m0 /\ b[2] = m1 /\ b[3] = m2 /\ b[4] = m3
  BY DEF LittleEndian
<1>3. n1 \in Nat /\ n = Radix * n1 + m0 /\ m0 \in Nat
  BY LowByte
<1>4. n1 < r3
  <2> HIDE DEF r3
  <2> QED BY <1>1, DivLess, MsbFacts
<1> HIDE DEF n1, m0
<1>5. n2 \in Nat /\ n1 = Radix * n2 + m1 /\ m1 \in Nat
  BY <1>3, LowByte
<1>6. n2 < r2
  <2> HIDE DEF r2
  <2> QED BY <1>1, <1>3, <1>4, DivLess, MsbFacts
<1> HIDE DEF n2, m1
<1>7. n3 \in Nat /\ n2 = Radix * n3 + m2 /\ m2 \in Nat
  BY <1>5, LowByte
<1>8. n3 < Radix
  BY <1>5, <1>6, DivLess, MsbFacts
<1> HIDE DEF n3, m2
<1>9. m3 = n3
  <2>1. n3 \in 0 .. Radix - 1
    BY <1>7, <1>8, MsbFacts
  <2> QED BY <2>1, ModSmall, MsbFacts
<1> HIDE DEF m3
<1>10. m2 + Radix * m3 = n2
  BY <1>7, <1>9, MsbFacts
<1>11. m1 + Radix * n2 = n1
  BY <1>5, <1>7, MsbFacts
<1>12. m0 + Radix * n1 = n
  BY <1>3, <1>5, MsbFacts
<1> QED BY <1>2, <1>10, <1>11, <1>12

(* Writing the count changes four cells and no others.                      *)
LEMMA WithCountFacts ==
  ASSUME NEW buffer \in Seq(Cells), Len(buffer) >= HeaderSize, NEW n \in Nat
  PROVE  /\ WithCount(buffer, n) \in Seq(Cells)
         /\ Len(WithCount(buffer, n)) = Len(buffer)
         /\ \A k \in 1 .. Len(buffer) :
              k > HeaderSize => WithCount(buffer, n)[k] = buffer[k]
         /\ n < U32 => BatchCount(WithCount(buffer, n)) = n
<1> DEFINE w == WithCount(buffer, n)
           b == LittleEndian(n)
<1>1. /\ Len(buffer) \in Nat /\ DOMAIN buffer = 1 .. Len(buffer)
      /\ \A k \in 1 .. Len(buffer) : buffer[k] \in Cells
      /\ BatchCountOffset = 8 /\ HeaderSize = 12
  BY DEF BatchCountOffset, HeaderSize
<1>2. \A k \in 1 .. 4 : b[k] \in ByteValues
  BY LittleEndianType
<1> HIDE DEF b
<1>3. w = [k \in 1 .. Len(buffer) |->
             IF k \in 9 .. 12 THEN Byte(b[k - 8]) ELSE buffer[k]]
  BY <1>1 DEF WithCount, b
<1> HIDE DEF w
<1>4. w \in [1 .. Len(buffer) -> Cells]
  <2> SUFFICES ASSUME NEW k \in 1 .. Len(buffer)
               PROVE  (IF k \in 9 .. 12 THEN Byte(b[k - 8]) ELSE buffer[k]) \in Cells
    BY <1>3
  <2>1. CASE k \in 9 .. 12
    <3>1. k - 8 \in 1 .. 4
      BY <2>1
    <3> QED BY <1>2, <2>1, <3>1, CellFacts
  <2>2. CASE k \notin 9 .. 12
    BY <1>1, <2>2
  <2> QED BY <2>1, <2>2
<1>5. w \in Seq(Cells) /\ Len(w) = Len(buffer)
  BY <1>1, <1>4, MapIsSeq
<1>6. \A k \in 1 .. Len(buffer) : k > HeaderSize => w[k] = buffer[k]
  BY <1>1, <1>3
<1>7. ASSUME n < U32 PROVE BatchCount(w) = n
  <2>1. ASSUME NEW k \in 1 .. 4 PROVE w[8 + k].byte = b[k]
    <3>1. 8 + k \in 1 .. Len(buffer) /\ 8 + k \in 9 .. 12 /\ (8 + k) - 8 = k
      BY <1>1
    <3>2. w[8 + k] = Byte(b[k])
      BY <1>3, <3>1
    <3> QED BY <1>2, <3>2, CellFacts
  <2>2. BatchCount(w) = b[1] + Radix * (b[2] + Radix * (b[3] + Radix * b[4]))
    BY <1>1, <2>1 DEF BatchCount
  <2> QED BY <1>7, <2>2, LittleEndianValue DEF b
<1> QED BY <1>5, <1>6, <1>7 DEF w

-----------------------------------------------------------------------------
(* Where the operations are                                                 *)

(* The cells s are in the buffer from pos on.                               *)
Holds(buffer, pos, s) ==
  \A k \in 1 .. Len(s) : /\ pos + k - 1 \in 1 .. Len(buffer)
                         /\ buffer[pos + k - 1] = s[k]

(* The n-th operation is between start[n - 1] and start[n]; nothing follows *)
(* the last one but the beginning of a put that panicked.                   *)
Starts(start) ==
  /\ start \in [0 .. Len(puts) -> Nat]
  /\ start[0] = HeaderSize + 1
  /\ \A n \in 1 .. Len(puts) :
       LET record == Record(puts[n].key, puts[n].value)
       IN  Holds(data, start[n - 1], record) /\ start[n] = start[n - 1] + Len(record)
  /\ \A n \in 0 .. Len(puts) : start[n] > HeaderSize
  /\ panicked \/ start[Len(puts)] = Len(data) + 1

LaidOut == \E start : Starts(start)

CountIsExact == BatchCount(data) = Len(puts)

(* The inductive invariant: a buffer with a header has all its operations,  *)
(* and counts them.                                                         *)
IInv == TypeOK /\ (data # <<>> => CountIsExact /\ LaidOut)

(* Holding two sequences in a row.                                          *)
LEMMA HoldsConcat ==
  ASSUME NEW buffer, NEW pos \in Nat, NEW S, NEW s \in Seq(S), NEW t \in Seq(S),
         Holds(buffer, pos, s \o t)
  PROVE  Holds(buffer, pos, s) /\ Holds(buffer, pos + Len(s), t)
<1> DEFINE u == s \o t
<1>1. /\ Len(s) \in Nat /\ Len(t) \in Nat /\ Len(u) = Len(s) + Len(t)
      /\ \A k \in 1 .. Len(s) : u[k] = s[k]
      /\ \A k \in 1 .. Len(t) : u[Len(s) + k] = t[k]
  BY ConcatFacts
<1>2. \A k \in 1 .. Len(u) : pos + k - 1 \in 1 .. Len(buffer) /\ buffer[pos + k - 1] = u[k]
  BY DEF Holds
<1> HIDE DEF u
<1>3. Holds(buffer, pos, s)
  <2> SUFFICES ASSUME NEW k \in 1 .. Len(s)
               PROVE  pos + k - 1 \in 1 .. Len(buffer) /\ buffer[pos + k - 1] = s[k]
    BY DEF Holds
  <2>1. k \in 1 .. Len(u)
    BY <1>1
  <2> QED BY <1>1, <1>2, <2>1
<1>4. Holds(buffer, pos + Len(s), t)
  <2> SUFFICES ASSUME NEW k \in 1 .. Len(t)
               PROVE  /\ pos + Len(s) + k - 1 \in 1 .. Len(buffer)
                      /\ buffer[pos + Len(s) + k - 1] = t[k]
    BY DEF Holds
  <2>1. Len(s) + k \in 1 .. Len(u) /\ pos + (Len(s) + k) - 1 = pos + Len(s) + k - 1
    BY <1>1
  <2> QED BY <1>1, <1>2, <2>1
<1> QED BY <1>3, <1>4

(* A buffer holds what is appended to it behind its end, and what it held.  *)
LEMMA HoldsAppended ==
  ASSUME NEW S, NEW b \in Seq(S), NEW s \in Seq(S)
  PROVE  /\ Holds(b \o s, Len(b) + 1, s)
         /\ \A pos, t : Holds(b, pos, t) => Holds(b \o s, pos, t)
<1> DEFINE u == b \o s
<1>1. /\ Len(b) \in Nat /\ Len(s) \in Nat /\ Len(u) = Len(b) + Len(s)
      /\ \A k \in 1 .. Len(b) : u[k] = b[k]
      /\ \A k \in 1 .. Len(s) : u[Len(b) + k] = s[k]
  BY ConcatFacts
<1> HIDE DEF u
<1>2. Holds(u, Len(b) + 1, s)
  <2> SUFFICES ASSUME NEW k \in 1 .. Len(s)
               PROVE  /\ Len(b) + 1 + k - 1 \in 1 .. Len(u)
                      /\ u[Len(b) + 1 + k - 1] = s[k]
    BY DEF Holds
  <2>1. Len(b) + 1 + k - 1 = Len(b) + k
    BY <1>1
  <2> QED BY <1>1, <2>1
<1>3. ASSUME NEW pos, NEW t, Holds(b, pos, t) PROVE Holds(u, pos, t)
  <2> SUFFICES ASSUME NEW k \in 1 .. Len(t)
               PROVE  pos + k - 1 \in 1 .. Len(u) /\ u[pos + k - 1] = t[k]
    BY DEF Holds
  <2> DEFINE i == pos + k - 1
  <2>1. i \in 1 .. Len(b) /\ b[i] = t[k]
    BY <1>3 DEF Holds
  <2> HIDE DEF i
  <2>2. i \in 1 .. Len(u) /\ u[i] = t[k]
    BY <1>1, <2>1
  <2> QED BY <2>2 DEF i
<1> QED BY <1>2, <1>3 DEF u

(* Writing the count leaves everything behind the header.                   *)
LEMMA HoldsWithCount ==
  ASSUME NEW b \in Seq(Cells), Len(b) >= HeaderSize, NEW n \in Nat,
         NEW pos \in Nat, pos > HeaderSize, NEW t, Len(t) \in Nat, Holds(b, pos, t)
  PROVE  Holds(WithCount(b, n), pos, t)
<1> DEFINE w == WithCount(b, n)
<1>1. Len(w) = Len(b) /\ \A k \in 1 .. Len(b) : k > HeaderSize => w[k] = b[k]
  BY WithCountFacts
<1> HIDE DEF w
<1> SUFFICES ASSUME NEW k \in 1 .. Len(t)
             PROVE  pos + k - 1 \in 1 .. Len(w) /\ w[pos + k - 1] = t[k]
  BY DEF Holds, w
<1>2. pos + k - 1 \in 1 .. Len(b) /\ b[pos + k - 1] = t[k]
  BY DEF Holds
<1>3. HeaderSize \in Nat /\ pos + k - 1 > HeaderSize
  BY DEF HeaderSize, BatchCountOffset
<1> QED BY <1>1, <1>2, <1>3

-----------------------------------------------------------------------------
(* The types                                                                *)

LEMMA DataType == TypeOK => data \in Seq(Cells) /\ HeaderSize = 12
  BY DEF TypeOK, Cells, ByteValues, HeaderSize, BatchCountOffset

LEMMA InitType == Init => TypeOK
<1> SUFFICES ASSUME Init PROVE TypeOK
  OBVIOUS
<1>1. HeaderSize \in Nat /\ HeaderSize > 0
  BY DEF HeaderSize, BatchCountOffset
<1>2. Zeroes(HeaderSize) \in Seq(Cells) /\ Len(Zeroes(HeaderSize)) = HeaderSize
  BY <1>1, ZeroesType
<1>3. Zeroes(HeaderSize) # <<>>
  BY <1>1, <1>2
<1>4. data = <<>> \/ data = Zeroes(HeaderSize)
  BY DEF Init
<1>5. data \in Seq(Cells) /\ (data = <<>> \/ Len(data) >= HeaderSize)
  <2>1. CASE data = <<>>
    BY <2>1
  <2>2. CASE data = Zeroes(HeaderSize)
    <3>1. data \in Seq(Cells) /\ Len(data) = HeaderSize
      BY <1>2, <2>2
    <3> QED BY <1>1, <3>1
  <2> QED BY <1>4, <2>1, <2>2
<1>6. data = <<>> => panicked
  BY <1>3 DEF Init
<1>7. panicked \in BOOLEAN /\ puts = <<>>
  <2>1. CASE panicked = FALSE
    BY <2>1 DEF Init
  <2>2. CASE panicked # FALSE
    <3>1. PICK cap \in Caps : panicked = (cap > MaxBatchSize)
      BY <2>2 DEF Init
    <3>2. (cap > MaxBatchSize) \in BOOLEAN
      OBVIOUS
    <3> QED BY <3>1, <3>2 DEF Init
  <2> QED BY <2>1, <2>2
<1> QED BY <1>5, <1>6, <1>7 DEF TypeOK, Cells, ByteValues

(* What a step does to the buffer: before it has a header, and it grows.    *)
LEMMA StepData ==
  ASSUME TypeOK, NEW klen \in KeyLens, NEW vlen \in ValueLens
  PROVE  /\ klen \in Nat /\ vlen \in Nat
         /\ ~panicked => data \in Seq(Cells) /\ Len(data) \in Nat /\ Len(data) >= HeaderSize
         /\ KeyPart(klen) \in Seq(Cells) /\ Record(klen, vlen) \in Seq(Cells)
<1>1. klen \in Nat /\ vlen \in Nat
  BY LengthAssumption
<1>2. ASSUME ~panicked
      PROVE  data \in Seq(Cells) /\ Len(data) \in Nat /\ Len(data) >= HeaderSize
  <2>1. data \in Seq(Cells)
    BY DataType
  <2> QED BY <1>2, <2>1 DEF TypeOK
<1> QED BY <1>1, <1>2, RecordType

(* A buffer of cells that has a header has the type, whatever it holds.     *)
LEMMA GrownType ==
  ASSUME TypeOK, data' \in Seq(Cells), Len(data') >= HeaderSize,
         puts' \in Seq([key : KeyLens, value : ValueLens]), panicked' \in BOOLEAN
  PROVE  TypeOK'
<1>1. data' # <<>>
  BY DEF HeaderSize, BatchCountOffset
<1> QED BY <1>1 DEF TypeOK, Cells, ByteValues

LEMMA PutData ==
  ASSUME TypeOK, NEW klen \in KeyLens, NEW vlen \in ValueLens, Put(klen, vlen),
         BatchCount(data) \in Nat
  PROVE  LET b == data \o Record(klen, vlen)
         IN  /\ b \in Seq(Cells) /\ Len(b) >= HeaderSize
             /\ Len(b) = Len(data) + Len(Record(klen, vlen))
             /\ data' \in Seq(Cells) /\ Len(data') = Len(b)
<1>1. ~panicked
  BY DEF Put
<1> DEFINE r == Record(klen, vlen)
           b == data \o r
<1>2. /\ data \in Seq(Cells) /\ Len(data) \in Nat /\ Len(data) >= HeaderSize
      /\ r \in Seq(Cells)
  BY <1>1, StepData
<1> HIDE DEF r
<1>3. b \in Seq(Cells) /\ Len(b) = Len(data) + Len(r) /\ Len(r) \in Nat
  BY <1>2, ConcatFacts
<1>4. Len(b) >= HeaderSize
  <2> HIDE DEF b
  <2> QED BY <1>2, <1>3 DEF HeaderSize, BatchCountOffset
<1>5. data' = WithCount(b, BatchCount(data) + 1)
  BY DEF Put, r
<1> HIDE DEF b
<1>6. data' \in Seq(Cells) /\ Len(data') = Len(b)
  <2>1. BatchCount(data) + 1 \in Nat
    OBVIOUS
  <2> QED BY <1>3, <1>4, <1>5, <2>1, WithCountFacts, Zenon
<1> QED BY <1>3, <1>4, <1>6 DEF b, r

(* The count is a number: its four cells are bytes.                         *)
LEMMA CountType ==
  ASSUME TypeOK, ~panicked
  PROVE  BatchCount(data) \in Nat
<1>1. data \in Seq(Cells) /\ Len(data) >= 12
  BY DataType DEF TypeOK
<1> DEFINE c(k) == data[8 + k].byte
<1>2. \A k \in 1 .. 4 : c(k) \in Nat
  <2> SUFFICES ASSUME NEW k \in 1 .. 4 PROVE data[8 + k].byte \in Nat
    OBVIOUS
  <2>1. 8 + k \in 1 .. Len(data)
    BY <1>1
  <2>2. data[8 + k] \in Cells
    BY <1>1, <2>1
  <2>3. data[8 + k].byte \in ByteValues
    BY <2>2 DEF Cells
  <2> QED BY <2>3, MsbFacts DEF ByteValues
<1>3. BatchCount(data) = c(1) + Radix * (c(2) + Radix * (c(3) + Radix * c(4)))
  BY DEF BatchCount, BatchCountOffset
<1>4. c(1) \in Nat /\ c(2) \in Nat /\ c(3) \in Nat /\ c(4) \in Nat
  BY <1>2
<1> HIDE DEF c
<1>5. c(3) + Radix * c(4) \in Nat
  BY <1>4, MsbFacts
<1> DEFINE d == c(3) + Radix * c(4)
<1> HIDE DEF d
<1>6. c(2) + Radix * d \in Nat
  BY <1>4, <1>5, MsbFacts DEF d
<1> DEFINE e == c(2) + Radix * d
<1> HIDE DEF e
<1>7. c(1) + Radix * e \in Nat
  BY <1>4, <1>6, MsbFacts DEF e
<1> QED BY <1>3, <1>7 DEF d, e

LEMMA PutType ==
  ASSUME TypeOK, NEW klen \in KeyLens, NEW vlen \in ValueLens, Put(klen, vlen)
  PROVE  TypeOK'
<1>1. BatchCount(data) \in Nat
  BY CountType DEF Put
<1>2. data' \in Seq(Cells) /\ Len(data') >= HeaderSize
  BY <1>1, PutData
<1>3. puts' \in Seq([key : KeyLens, value : ValueLens])
  BY DEF Put, TypeOK
<1>4. panicked' \in BOOLEAN
  BY DEF Put, TypeOK
<1> QED BY <1>2, <1>3, <1>4, GrownType

(* What a put that panics leaves behind it.                                 *)
LEMMA PutPanicsData ==
  ASSUME TypeOK, NEW klen \in KeyLens, NEW vlen \in ValueLens, PutPanics(klen, vlen)
  PROVE  \E s \in Seq(Cells) : data' = data \o s
<1>1. data' = data \o OpHead \/ data' = data \o KeyPart(klen)
  BY DEF PutPanics
<1> QED BY <1>1, StepData, OpHeadType

LEMMA PutPanicsType ==
  ASSUME TypeOK, NEW klen \in KeyLens, NEW vlen \in ValueLens, PutPanics(klen, vlen)
  PROVE  TypeOK'
<1>1. PICK s \in Seq(Cells) : data' = data \o s
  BY PutPanicsData
<1>2. data \in Seq(Cells) /\ Len(data) \in Nat /\ Len(data) >= HeaderSize
  BY StepData DEF PutPanics
<1>3. data' \in Seq(Cells) /\ Len(data') = Len(data) + Len(s) /\ Len(s) \in Nat
  BY <1>1, <1>2, ConcatFacts
<1>4. Len(data') >= HeaderSize
  BY <1>2, <1>3 DEF HeaderSize, BatchCountOffset
<1>5. puts' \in Seq([key : KeyLens, value : ValueLens]) /\ panicked' \in BOOLEAN
  BY DEF PutPanics, TypeOK
<1> QED BY <1>3, <1>4, <1>5, GrownType

LEMMA NextType == TypeOK /\ [Next]_vars => TypeOK'
<1> SUFFICES ASSUME TypeOK, [Next]_vars PROVE TypeOK'
  OBVIOUS
<1>1. ASSUME NEW klen \in KeyLens, NEW vlen \in ValueLens, Put(klen, vlen) PROVE TypeOK'
  BY <1>1, PutType
<1>2. ASSUME NEW klen \in KeyLens, NEW vlen \in ValueLens, PutPanics(klen, vlen) PROVE TypeOK'
  BY <1>2, PutPanicsType
<1>3. CASE UNCHANGED vars
  BY <1>3 DEF vars, TypeOK
<1> QED BY <1>1, <1>2, <1>3 DEF Next

(* The buffer is made of bytes and of whole keys and values, and has its    *)
(* header unless new_with_capacity refused the capacity.                    *)
THEOREM WriteBatchTypeOK == Spec => []TypeOK
  BY InitType, NextType, PTL DEF Spec

-----------------------------------------------------------------------------
(* The operations stay where they were put                                  *)

LEMMA InitIInv == Init => IInv
<1> SUFFICES ASSUME Init PROVE IInv
  OBVIOUS
<1>1. TypeOK
  BY InitType
<1>2. ASSUME data # <<>> PROVE CountIsExact /\ LaidOut
  <2>1. data = Zeroes(12) /\ puts = <<>> /\ Len(puts) = 0
    BY <1>2 DEF Init, HeaderSize, BatchCountOffset
  <2>2. \A k \in 1 .. 4 : data[8 + k].byte = 0
    <3> SUFFICES ASSUME NEW k \in 1 .. 4 PROVE data[8 + k].byte = 0
      OBVIOUS
    <3>1. 8 + k \in 1 .. 12
      OBVIOUS
    <3> QED BY <2>1, <3>1 DEF Zeroes, Byte
  <2>3. CountIsExact
    <3>1. BatchCount(data) = 0 + Radix * (0 + Radix * (0 + Radix * 0))
      BY <2>2 DEF BatchCount, BatchCountOffset
    <3> QED BY <2>1, <3>1, MsbFacts DEF CountIsExact
  <2> DEFINE start == [n \in 0 .. 0 |-> HeaderSize + 1]
  <2>4. start \in [0 .. 0 -> Nat] /\ start[0] = HeaderSize + 1 /\ HeaderSize = 12
    BY DEF HeaderSize, BatchCountOffset
  <2>5. Len(data) = 12
    BY <2>1, ZeroesType
  <2> HIDE DEF start
  <2>6. \A n \in 0 .. Len(puts) : start[n] > HeaderSize
    BY <2>1, <2>4
  <2>7. start[Len(puts)] = Len(data) + 1
    BY <2>1, <2>4, <2>5
  <2>8. \A n \in 1 .. Len(puts) : FALSE
    BY <2>1
  <2>9. start \in [0 .. Len(puts) -> Nat]
    BY <2>1, <2>4
  <2>10. Starts(start)
    BY <2>4, <2>6, <2>7, <2>8, <2>9 DEF Starts
  <2> QED BY <2>3, <2>10 DEF LaidOut
<1> QED BY <1>1, <1>2 DEF IInv

(* A put lays its operation behind the others, and counts it.               *)
LEMMA PutIInv ==
  ASSUME MaxPuts < U32, IInv, NEW klen \in KeyLens, NEW vlen \in ValueLens,
         Put(klen, vlen)
  PROVE  CountIsExact' /\ LaidOut'
<1> DEFINE r == Record(klen, vlen)
           b == data \o r
           count == BatchCount(data) + 1
           put == [key |-> klen, value |-> vlen]
           n == Len(puts)
<1>1. /\ TypeOK /\ ~panicked /\ ~panicked' /\ puts' = Append(puts, put)
      /\ data' = WithCount(b, count) /\ n < MaxPuts
  BY DEF IInv, Put
<1>2. data # <<>>
  BY <1>1 DEF TypeOK
<1>3. BatchCount(data) = n /\ LaidOut
  BY <1>2 DEF IInv, CountIsExact
<1>4. n \in Nat /\ Len(puts') = n + 1 /\ (\A k \in 1 .. n : puts'[k] = puts[k]) /\ puts'[n + 1] = put
  BY <1>1 DEF TypeOK
<1>5. /\ data \in Seq(Cells) /\ Len(data) \in Nat /\ Len(data) >= HeaderSize
      /\ r \in Seq(Cells)
  BY <1>1, StepData
<1>6. /\ b \in Seq(Cells) /\ Len(b) >= HeaderSize /\ Len(b) = Len(data) + Len(r)
      /\ Len(data') = Len(b)
  BY <1>1, <1>3, <1>4, PutData
<1>7. count = n + 1 /\ count \in Nat /\ count < U32
  BY <1>1, <1>3, <1>4, BoundAssumption, U32Facts
<1>8. /\ Holds(b, Len(data) + 1, r)
      /\ \A pos, t : Holds(data, pos, t) => Holds(b, pos, t)
  <2> HIDE DEF r
  <2> QED BY <1>5, HoldsAppended
<1>9. Len(r) \in Nat /\ HeaderSize = 12
  BY <1>5 DEF HeaderSize, BatchCountOffset
<1> HIDE DEF r, b, count, put, n
<1>10. CountIsExact'
  <2>1. BatchCount(data') = count
    BY <1>1, <1>6, <1>7, WithCountFacts
  <2> QED BY <1>4, <1>7, <2>1 DEF CountIsExact
<1>11. PICK start : Starts(start)
  BY <1>3 DEF LaidOut
<1> DEFINE rec(k) == Record(puts[k].key, puts[k].value)
<1>12. /\ start \in [0 .. n -> Nat] /\ start[0] = HeaderSize + 1
       /\ \A k \in 1 .. n : Holds(data, start[k - 1], rec(k)) /\ start[k] = start[k - 1] + Len(rec(k))
       /\ \A k \in 0 .. n : start[k] > HeaderSize
       /\ start[n] = Len(data) + 1
  BY <1>1, <1>11 DEF Starts, n
<1>13. \E next :
         /\ next \in [0 .. n + 1 -> Nat]
         /\ \A k \in 0 .. n : next[k] = start[k]
         /\ next[n + 1] = Len(data) + 1 + Len(r)
  <2> DEFINE next == [k \in 0 .. n + 1 |-> IF k <= n THEN start[k] ELSE start[n] + Len(r)]
  <2>1. \A k \in 0 .. n : start[k] \in Nat
    BY <1>12
  <2>2. start[n] + Len(r) \in Nat
    BY <1>4, <1>9, <2>1
  <2>3. \A k \in 0 .. n : k \in 0 .. n + 1 /\ k <= n
    BY <1>4
  <2>4. n + 1 \in 0 .. n + 1 /\ ~(n + 1 <= n)
    BY <1>4
  <2>5. \A k \in 0 .. n + 1 : k <= n => k \in 0 .. n
    BY <1>4
  <2>6. /\ next \in [0 .. n + 1 -> Nat]
        /\ \A k \in 0 .. n : next[k] = start[k]
        /\ next[n + 1] = Len(data) + 1 + Len(r)
    BY <1>12, <2>1, <2>2, <2>3, <2>4, <2>5
  <2> HIDE DEF next
  <2> QED BY <2>6
<1>14. PICK next :
         /\ next \in [0 .. n + 1 -> Nat]
         /\ \A k \in 0 .. n : next[k] = start[k]
         /\ next[n + 1] = Len(data) + 1 + Len(r)
  BY <1>13
<1>15. ASSUME NEW k \in 1 .. n + 1
       PROVE  LET record == Record(puts'[k].key, puts'[k].value)
              IN  Holds(data', next[k - 1], record) /\ next[k] = next[k - 1] + Len(record)
  <2>1. CASE k \in 1 .. n
    <3>1. puts'[k] = puts[k] /\ k - 1 \in 0 .. n /\ k \in 0 .. n
      BY <1>4, <2>1
    <3>2. next[k - 1] = start[k - 1] /\ next[k] = start[k]
      BY <1>14, <3>1
    <3>3. Holds(b, start[k - 1], rec(k)) /\ start[k] = start[k - 1] + Len(rec(k))
      BY <1>8, <1>12, <2>1
    <3>4. start[k - 1] \in Nat /\ start[k - 1] > HeaderSize
      BY <1>12, <3>1
    <3>5. Len(rec(k)) \in Nat
      <4>1. puts[k] \in [key : KeyLens, value : ValueLens]
        <5>1. puts \in Seq([key : KeyLens, value : ValueLens])
          BY <1>1 DEF TypeOK
        <5>2. k \in 1 .. Len(puts)
          BY <2>1 DEF n
        <5> DEFINE S == [key : KeyLens, value : ValueLens]
        <5> HIDE DEF S
        <5>3. puts \in Seq(S)
          BY <5>1 DEF S
        <5> QED BY <5>2, <5>3, ElementOfSeq, Zenon DEF S
      <4>2. puts[k].key \in Nat /\ puts[k].value \in Nat
        BY <4>1, LengthAssumption
      <4>3. rec(k) \in Seq(Cells)
        BY <4>2, RecordType
      <4> HIDE DEF rec
      <4> QED BY <4>3
    <3>6. Holds(data', start[k - 1], rec(k))
      <4> HIDE DEF rec
      <4> QED BY <1>1, <1>6, <1>7, <3>3, <3>4, <3>5, HoldsWithCount
    <3> QED BY <3>1, <3>2, <3>3, <3>6
  <2>2. CASE k = n + 1
    <3>1. Record(puts'[k].key, puts'[k].value) = r
      BY <1>4, <2>2 DEF r, put
    <3>2. k - 1 = n /\ n \in 0 .. n
      BY <1>4, <2>2
    <3>3. next[k - 1] = Len(data) + 1 /\ next[k] = next[k - 1] + Len(r)
      BY <1>12, <1>14, <2>2, <3>2
    <3>4. Holds(data', Len(data) + 1, r)
      <4>1. Len(data) + 1 \in Nat /\ Len(data) + 1 > HeaderSize
        BY <1>5, <1>9
      <4> QED BY <1>1, <1>6, <1>7, <1>8, <1>9, <4>1, HoldsWithCount
    <3> QED BY <3>1, <3>3, <3>4
  <2> QED BY <1>4, <2>1, <2>2
<1>16. \A k \in 0 .. n + 1 : next[k] > HeaderSize
  <2> SUFFICES ASSUME NEW k \in 0 .. n + 1 PROVE next[k] > HeaderSize
    OBVIOUS
  <2>1. CASE k \in 0 .. n
    BY <1>12, <1>14, <2>1
  <2>2. CASE k = n + 1
    BY <1>5, <1>9, <1>14, <2>2
  <2> QED BY <1>4, <2>1, <2>2
<1>17. next[n + 1] = Len(data') + 1
  BY <1>5, <1>6, <1>9, <1>14
<1>18. next[0] = HeaderSize + 1
  BY <1>4, <1>12, <1>14
<1>19. Starts(next)'
  <2>1. /\ next \in [0 .. Len(puts') -> Nat]
        /\ \A k \in 1 .. Len(puts') :
             LET record == Record(puts'[k].key, puts'[k].value)
             IN  Holds(data', next[k - 1], record) /\ next[k] = next[k - 1] + Len(record)
        /\ \A k \in 0 .. Len(puts') : next[k] > HeaderSize
        /\ next[Len(puts')] = Len(data') + 1
    BY <1>4, <1>14, <1>15, <1>16, <1>17
  <2> QED BY <1>18, <2>1 DEF Starts
<1> QED BY <1>10, <1>19 DEF LaidOut

(* A put that panics leaves a piece behind the operations, which are where  *)
(* they were; the count does not change.                                    *)
LEMMA PutPanicsIInv ==
  ASSUME IInv, NEW klen \in KeyLens, NEW vlen \in ValueLens, PutPanics(klen, vlen)
  PROVE  CountIsExact' /\ LaidOut'
<1>1. TypeOK /\ ~panicked /\ panicked' /\ puts' = puts
  BY DEF IInv, PutPanics
<1>2. data # <<>>
  BY <1>1 DEF TypeOK
<1>3. CountIsExact /\ LaidOut
  BY <1>2 DEF IInv
<1>4. PICK s \in Seq(Cells) : data' = data \o s
  BY <1>1, PutPanicsData
<1>5. data \in Seq(Cells) /\ Len(data) \in Nat /\ Len(data) >= 12
  BY <1>1, StepData DEF HeaderSize, BatchCountOffset
<1>6. CountIsExact'
  <2>1. \A k \in 1 .. 4 : data'[8 + k] = data[8 + k]
    <3> SUFFICES ASSUME NEW k \in 1 .. 4 PROVE data'[8 + k] = data[8 + k]
      OBVIOUS
    <3>1. 8 + k \in 1 .. Len(data)
      BY <1>5
    <3> QED BY <1>4, <1>5, <3>1, ConcatFacts
  <2>2. BatchCount(data') = BatchCount(data)
    BY <2>1 DEF BatchCount, BatchCountOffset
  <2> QED BY <1>1, <1>3, <2>2 DEF CountIsExact
<1>7. PICK start : Starts(start)
  BY <1>3 DEF LaidOut
<1>8. \A pos, t : Holds(data, pos, t) => Holds(data', pos, t)
  BY <1>4, <1>5, HoldsAppended
<1>9. Starts(start)'
  BY <1>1, <1>7, <1>8 DEF Starts
<1> QED BY <1>6, <1>9 DEF LaidOut

LEMMA NextIInv == ASSUME MaxPuts < U32 PROVE IInv /\ [Next]_vars => IInv'
<1> SUFFICES ASSUME IInv, [Next]_vars PROVE IInv'
  OBVIOUS
<1>1. TypeOK'
  BY NextType DEF IInv
<1>2. ASSUME NEW klen \in KeyLens, NEW vlen \in ValueLens, Put(klen, vlen) PROVE IInv'
  BY <1>1, <1>2, PutIInv DEF IInv
<1>3. ASSUME NEW klen \in KeyLens, NEW vlen \in ValueLens, PutPanics(klen, vlen) PROVE IInv'
  BY <1>1, <1>3, PutPanicsIInv DEF IInv
<1>4. CASE UNCHANGED vars
  <2>1. CountIsExact' = CountIsExact /\ LaidOut' = LaidOut
    BY <1>4 DEF vars, CountIsExact, LaidOut, Starts, BatchCount
  <2> QED BY <1>1, <1>4, <2>1 DEF IInv, vars
<1> QED BY <1>2, <1>3, <1>4 DEF Next

-----------------------------------------------------------------------------
(* The reader                                                               *)

(* If the n cells from pos on are bytes, they begin the run of bytes there. *)
LEMMA ByteRunFacts ==
  ASSUME TypeOK, NEW pos \in Nat \ {0}, NEW n \in Nat \ {0}, pos + n - 1 <= Len(data),
         \A j \in pos .. pos + n - 1 : data[j].what = "byte"
  PROVE  /\ Len(ByteRun(pos)) \in Nat /\ Len(ByteRun(pos)) >= n
         /\ \A k \in 1 .. n : ByteRun(pos)[k] = data[pos + k - 1].byte
<1> DEFINE Stops(k) == k = Len(data) \/ data[k + 1].what # "byte"
           Ends(k) == (\A j \in pos .. k : data[j].what = "byte") /\ Stops(k)
           T == {k \in Nat : k >= pos - 1 /\ k <= Len(data) /\ Stops(k)}
<1>1. Len(data) \in Nat
  BY DataType
<1>2. \E k \in pos - 1 .. Len(data) : Ends(k)
  <2>1. Len(data) \in T
    BY <1>1
  <2>2. PICK k \in T : \A m \in T : k <= m
    BY <2>1, LeastNat
  <2>3. k \in pos - 1 .. Len(data) /\ Stops(k)
    BY <1>1, <2>2
  <2>4. ASSUME NEW j \in pos .. k PROVE data[j].what = "byte"
    <3>1. j - 1 \in Nat /\ j - 1 >= pos - 1 /\ j - 1 <= Len(data) /\ ~(k <= j - 1) /\ (j - 1) + 1 = j
      BY <1>1, <2>3
    <3>2. j - 1 \notin T
      <4> HIDE DEF T
      <4> QED BY <2>2, <3>1
    <3>3. ~Stops(j - 1)
      BY <3>1, <3>2
    <3> QED BY <3>1, <3>3
  <2> QED BY <2>3, <2>4
<1> DEFINE last == CHOOSE k \in pos - 1 .. Len(data) : Ends(k)
<1>3. ByteRun(pos) = [k \in 1 .. last - pos + 1 |-> data[pos + k - 1].byte]
  BY DEF ByteRun
<1>4. last \in pos - 1 .. Len(data) /\ Ends(last)
  <2> HIDE DEF Ends
  <2> QED BY <1>2
<1> HIDE DEF last
<1>5. last >= pos + n - 1
  <2> SUFFICES ASSUME last < pos + n - 1 PROVE FALSE
    BY <1>1, <1>4
  <2>1. last \in Int /\ last + 1 \in pos .. pos + n - 1 /\ last # Len(data)
    BY <1>1, <1>4
  <2> QED BY <1>4, <2>1
<1>6. last - pos + 1 \in Nat /\ last - pos + 1 >= n
  BY <1>1, <1>4, <1>5
<1>7. Len(ByteRun(pos)) = last - pos + 1
  BY <1>3, <1>6
<1>8. \A k \in 1 .. n : k \in 1 .. last - pos + 1
  BY <1>6
<1> QED BY <1>3, <1>6, <1>7, <1>8

(* A length and what has that length are read from where they are held, and *)
(* the position behind them.                                                *)
LEMMA ReadPayloadFacts ==
  ASSUME TypeOK, NEW pos \in Nat \ {0}, NEW what \in {"key", "value"},
         NEW v \in Nat, v < U32, NEW after \in Nat, after = pos + Len(LengthBytes(v)),
         Holds(data, pos, LengthBytes(v)), Holds(data, after, Bytes(what, v))
  PROVE  ReadPayload(pos, what) =
           [pos   |-> after + Len(Bytes(what, v)),
            key   |-> IF what = "key" THEN v ELSE 0,
            value |-> IF what = "value" THEN v ELSE 0]
<1> DEFINE t == VarInt[v]
           s == LengthBytes(v)
           n == Len(t)
           run == ByteRun(pos)
<1>1. /\ Len(s) = n /\ n \in Nat \ {0}
      /\ \A k \in 1 .. n : s[k].what = "byte" /\ s[k].byte = t[k]
  <2>1. /\ Len(s) = n /\ n \in Nat /\ n >= 1
        /\ \A k \in 1 .. n : s[k].what = "byte" /\ s[k].byte = t[k]
    BY LengthBytesType, Zenon
  <2> HIDE DEF s, t, n
  <2> QED BY <2>1
<1> HIDE DEF s, t
<1>2. \A k \in 1 .. n : pos + k - 1 \in 1 .. Len(data) /\ data[pos + k - 1] = s[k]
  BY <1>1 DEF Holds, s
<1> HIDE DEF n
<1>3. Len(data) \in Nat
  BY DataType
<1>4. pos + n - 1 <= Len(data)
  <2>1. n \in 1 .. n
    BY <1>1
  <2> QED BY <1>2, <1>3, <2>1
<1>5. ASSUME NEW j \in pos .. pos + n - 1 PROVE data[j].what = "byte"
  <2> DEFINE k == j - pos + 1
  <2>1. k \in 1 .. n /\ pos + k - 1 = j
    BY <1>1
  <2> HIDE DEF k
  <2> QED BY <1>1, <1>2, <2>1
<1>6. /\ Len(run) \in Nat /\ Len(run) >= n
      /\ \A k \in 1 .. n : run[k] = data[pos + k - 1].byte
  BY <1>1, <1>4, <1>5, ByteRunFacts
<1> HIDE DEF run
<1>7. Decode(run) = [value |-> v, read |-> n]
  <2>1. \A k \in 1 .. n : run[k] = t[k]
    BY <1>1, <1>2, <1>6
  <2>2. Decode(run) = [value |-> v % U32, read |-> Len(VarInt[v])]
    BY <1>6, <2>1, DecodePrefix DEF n, t
  <2> QED BY <2>2, U32Facts DEF n, t
<1>8. after = pos + n
  BY <1>1 DEF s
<1>9. CASE v = 0
  <2>1. ReadPayload(pos, what) = [Garbled EXCEPT !.pos = after]
    BY <1>1, <1>7, <1>8, <1>9 DEF ReadPayload, run
  <2>2. Len(Bytes(what, v)) = 0
    BY <1>9, BytesType
  <2> QED BY <1>9, <2>1, <2>2 DEF Garbled
<1>10. CASE v # 0
  <2>1. Len(Bytes(what, v)) = 1 /\ Bytes(what, v)[1] = Payload(what, v)
    BY <1>10, BytesType
  <2>2. after + 1 - 1 \in 1 .. Len(data) /\ data[after + 1 - 1] = Payload(what, v)
    BY <2>1 DEF Holds
  <2>3. after <= Len(data) /\ data[after] = Payload(what, v)
    BY <1>3, <2>2
  <2>4. ReadPayload(pos, what) = [Garbled EXCEPT !.pos = after + 1, ![what] = v]
    <3> DEFINE length == Decode(ByteRun(pos))
               there == pos + length.read
    <3>1. /\ length.read # 0 /\ length.value # 0
          /\ there <= Len(data) /\ data[there] = Payload(what, length.value)
      BY <1>1, <1>7, <1>8, <1>10, <2>3 DEF run
    <3>2. ReadPayload(pos, what) =
            [Garbled EXCEPT !.pos = there + 1, ![what] = length.value]
      BY <3>1, Zenon DEF ReadPayload
    <3>3. there = after /\ length.value = v
      BY <1>7, <1>8 DEF run
    <3> HIDE DEF length, there
    <3> QED BY <3>2, <3>3
  <2>5. CASE what = "key"
    BY <2>1, <2>4, <2>5 DEF Garbled
  <2>6. CASE what = "value"
    BY <2>1, <2>4, <2>6 DEF Garbled
  <2> QED BY <2>5, <2>6
<1> QED BY <1>9, <1>10

(* An operation is read from where it is held, with the position behind it. *)
LEMMA ReadOpFacts ==
  ASSUME TypeOK, NEW pos \in Nat \ {0},
         NEW klen \in Nat, klen < U32, NEW vlen \in Nat, vlen < U32,
         Holds(data, pos, Record(klen, vlen))
  PROVE  ReadOp(pos) = [pos   |-> pos + Len(Record(klen, vlen)),
                        key   |-> klen, value |-> vlen]
<1> DEFINE h == OpHead
           lk == LengthBytes(klen)
           k == Bytes("key", klen)
           lv == LengthBytes(vlen)
           v == Bytes("value", vlen)
           keypart == KeyPart(klen)
           record == Record(klen, vlen)
<1>1. keypart = (h \o lk) \o k /\ record = (keypart \o lv) \o v
  <2>1. klen % U32 = klen /\ vlen % U32 = vlen
    BY U32Facts
  <2> QED BY <2>1 DEF KeyPart, Record
<1>2. /\ h \in Seq(Cells) /\ lk \in Seq(Cells) /\ k \in Seq(Cells)
      /\ lv \in Seq(Cells) /\ v \in Seq(Cells) /\ keypart \in Seq(Cells)
  BY OpHeadType, LengthBytesType, BytesType, RecordType
<1>3. Len(h) = 5
  BY OpHeadType
<1> HIDE DEF h, lk, k, lv, v, keypart, record
<1>4. h \o lk \in Seq(Cells) /\ keypart \o lv \in Seq(Cells)
  BY <1>2, ConcatFacts
<1>5. /\ Len(h \o lk) = Len(h) + Len(lk) /\ Len(keypart) = Len(h \o lk) + Len(k)
      /\ Len(keypart \o lv) = Len(keypart) + Len(lv)
      /\ Len(record) = Len(keypart \o lv) + Len(v)
  BY <1>1, <1>2, <1>4, ConcatFacts
<1>6. /\ Len(lk) \in Nat /\ Len(k) \in Nat /\ Len(lv) \in Nat /\ Len(v) \in Nat
  BY <1>2
<1> DEFINE p1 == pos + 5
           p2 == p1 + Len(lk)
           p3 == p2 + Len(k)
           p4 == p3 + Len(lv)
<1>7. /\ p1 \in Nat \ {0} /\ p2 \in Nat /\ p3 \in Nat \ {0} /\ p4 \in Nat
      /\ pos + Len(h) = p1 /\ pos + Len(h \o lk) = p2
      /\ pos + Len(keypart) = p3 /\ pos + Len(keypart \o lv) = p4
      /\ pos + Len(record) = p4 + Len(v)
  BY <1>3, <1>5, <1>6
<1>8. Holds(data, pos, keypart \o lv) /\ Holds(data, p4, v)
  <2>1. Holds(data, pos, (keypart \o lv) \o v)
    BY <1>1 DEF record
  <2>2. Holds(data, pos, keypart \o lv) /\ Holds(data, pos + Len(keypart \o lv), v)
    BY <1>2, <1>4, <2>1, HoldsConcat
  <2> QED BY <1>7, <2>2
<1>9. Holds(data, pos, keypart) /\ Holds(data, p3, lv)
  BY <1>2, <1>7, <1>8, HoldsConcat
<1>10. Holds(data, pos, h \o lk) /\ Holds(data, p2, k)
  BY <1>1, <1>2, <1>4, <1>7, <1>9, HoldsConcat
<1>11. Holds(data, pos, h) /\ Holds(data, p1, lk)
  BY <1>2, <1>7, <1>10, HoldsConcat
<1>12. ReadPayload(p1, "key") = [pos |-> p3, key |-> klen, value |-> 0]
  <2>1. /\ p2 = p1 + Len(LengthBytes(klen)) /\ Holds(data, p1, LengthBytes(klen))
        /\ Holds(data, p2, Bytes("key", klen)) /\ p3 = p2 + Len(Bytes("key", klen))
    BY <1>10, <1>11 DEF lk, k
  <2> HIDE DEF p1, p2, p3
  <2> QED BY <1>7, <2>1, ReadPayloadFacts
<1>13. ReadPayload(p3, "value") = [pos |-> p4 + Len(v), key |-> 0, value |-> vlen]
  <2>1. /\ p4 = p3 + Len(LengthBytes(vlen)) /\ Holds(data, p3, LengthBytes(vlen))
        /\ Holds(data, p4, Bytes("value", vlen)) /\ Len(v) = Len(Bytes("value", vlen))
    BY <1>8, <1>9 DEF lv, v
  <2> HIDE DEF p3, p4
  <2> QED BY <1>7, <2>1, ReadPayloadFacts
<1>14. SubSeq(data, pos, pos + 4) = OpHead
  <2>1. \A i \in 1 .. 5 : pos + i - 1 \in 1 .. Len(data) /\ data[pos + i - 1] = h[i]
    BY <1>3, <1>11 DEF Holds
  <2> DEFINE sub == SubSeq(data, pos, pos + 4)
  <2>2. data \in Seq(Cells)
    BY DataType
  <2>3. sub \in Seq(Cells) /\ Len(sub) = 5 /\ \A i \in 1 .. 5 : sub[i] = data[pos + i - 1]
    <3>1. \A i \in pos .. pos + 4 : data[i] \in Cells
      <4> SUFFICES ASSUME NEW i \in pos .. pos + 4 PROVE data[i] \in Cells
        OBVIOUS
      <4>1. i - pos + 1 \in 1 .. 5 /\ pos + (i - pos + 1) - 1 = i
        OBVIOUS
      <4>2. i \in 1 .. Len(data)
        BY <2>1, <4>1
      <4> QED BY <2>2, <4>2
    <3>2. pos \in Int /\ pos + 4 \in Int /\ pos <= pos + 4 /\ (pos + 4) - pos + 1 = 5
      OBVIOUS
    <3> QED BY <3>1, <3>2, SubSeqProperties
  <2> HIDE DEF sub
  <2>4. sub = h
    BY <1>2, <1>3, <2>1, <2>3, SeqEqual
  <2> QED BY <2>4 DEF sub, h
<1>15. p3 # 0 /\ p4 + Len(v) # 0
  BY <1>6, <1>7
<1> HIDE DEF p1, p2, p3, p4
<1>16. ReadOp(pos) = [pos |-> p4 + Len(v), key |-> klen, value |-> vlen]
  BY <1>12, <1>13, <1>14, <1>15 DEF ReadOp, Garbled, p1
<1> QED BY <1>7, <1>16 DEF record

(* The reader goes from one operation to the next.                          *)
First == [Garbled EXCEPT !.pos = HeaderSize + 1]

Reads(op, m) ==
  op = [n \in 0 .. m |->
          IF n = 0 THEN First
          ELSE IF op[n - 1] = Garbled THEN Garbled ELSE ReadOp(op[n - 1].pos)]

LEMMA ReadersExist == ASSUME NEW m \in Nat PROVE \E op : Reads(op, m)
<1> DEFINE T == {k \in Nat : ~ \E op : Reads(op, k)}
<1>1. SUFFICES ASSUME T # {} PROVE FALSE
  OBVIOUS
<1>2. PICK k \in T : \A j \in T : k <= j
  BY <1>1, LeastNat
<1>3. \E op : k > 0 => Reads(op, k - 1)
  <2>1. CASE k = 0
    BY <2>1
  <2>2. CASE k # 0
    <3>1. k - 1 \in Nat /\ k - 1 \notin T
      BY <1>2, <2>2
    <3> QED BY <3>1
  <2> QED BY <2>1, <2>2
<1>4. PICK op : k > 0 => Reads(op, k - 1)
  BY <1>3
<1> DEFINE Turn(f, n) == IF n = 0 THEN First
                         ELSE IF f[n - 1] = Garbled THEN Garbled ELSE ReadOp(f[n - 1].pos)
           h == [n \in 0 .. k |-> IF n < k THEN op[n] ELSE Turn(op, k)]
<1>5. ASSUME NEW n \in 0 .. k PROVE h[n] = Turn(h, n)
  <2>1. h[n] = Turn(op, n)
    <3>1. CASE n < k
      <4>1. n \in 0 .. k - 1 /\ k > 0
        BY <3>1
      <4>2. op[n] = Turn(op, n)
        BY <1>4, <4>1, Zenon DEF Reads
      <4>3. h[n] = op[n]
        BY <3>1
      <4> HIDE DEF Turn, h
      <4> QED BY <4>2, <4>3
    <3>2. CASE n = k
      <4> HIDE DEF Turn
      <4> QED BY <3>2
    <3> QED BY <3>1, <3>2
  <2>2. CASE n = 0
    BY <2>1, <2>2
  <2>3. CASE n # 0
    <3>1. h[n - 1] = op[n - 1]
      <4>1. n - 1 \in 0 .. k /\ n - 1 < k
        BY <2>3
      <4> HIDE DEF Turn
      <4> QED BY <4>1
    <3> HIDE DEF h
    <3> QED BY <2>1, <2>3, <3>1
  <2> QED BY <2>2, <2>3
<1>6. h = [n \in 0 .. k |-> h[n]]
  OBVIOUS
<1> HIDE DEF h
<1>7. h = [n \in 0 .. k |-> Turn(h, n)]
  <2> HIDE DEF Turn
  <2> QED BY <1>5, <1>6
<1>8. Reads(h, k)
  BY <1>7, Zenon DEF Reads
<1> QED BY <1>8

LEMMA ReadAllDef ==
  ASSUME Len(puts) \in Nat
  PROVE  /\ ReadAll[0] = First
         /\ \A n \in 1 .. Len(puts) :
              ReadAll[n - 1] # Garbled => ReadAll[n] = ReadOp(ReadAll[n - 1].pos)
<1>1. \E op : Reads(op, Len(puts))
  BY ReadersExist
<1>2. Reads(ReadAll, Len(puts))
  BY <1>1, Zenon DEF ReadAll, Reads, First
<1> DEFINE op == ReadAll
<1> HIDE DEF op
<1>3. \A n \in 0 .. Len(puts) :
        op[n] = IF n = 0 THEN First
                ELSE IF op[n - 1] = Garbled THEN Garbled ELSE ReadOp(op[n - 1].pos)
  BY <1>2, Zenon DEF Reads, op
<1>4. 0 \in 0 .. Len(puts) /\ \A n \in 1 .. Len(puts) : n \in 0 .. Len(puts) /\ n # 0
  OBVIOUS
<1>5. op[0] = First
  BY <1>3, <1>4
<1>6. ASSUME NEW n \in 1 .. Len(puts), op[n - 1] # Garbled
      PROVE  op[n] = ReadOp(op[n - 1].pos)
  BY <1>3, <1>4, <1>6
<1> QED BY <1>5, <1>6 DEF op

(* If no length was cut, the reader finds every operation where it is.      *)
LEMMA ReaderFindsAll ==
  ASSUME TypeOK, NEW start, Starts(start), \A n \in 1 .. Len(puts) : ~Cut(puts[n])
  PROVE  /\ ReadAll[0].pos = start[0]
         /\ \A n \in 1 .. Len(puts) :
              ReadAll[n] = [pos |-> start[n], key |-> puts[n].key, value |-> puts[n].value]
<1> DEFINE Found(n) ==
             ReadAll[n] = [pos |-> start[n], key |-> puts[n].key, value |-> puts[n].value]
           T == {n \in Nat : n \in 1 .. Len(puts) /\ ~Found(n)}
<1>1. Len(puts) \in Nat /\ HeaderSize = 12
  BY DEF TypeOK, HeaderSize, BatchCountOffset
<1>2. /\ ReadAll[0] = First
      /\ \A n \in 1 .. Len(puts) :
           ReadAll[n - 1] # Garbled => ReadAll[n] = ReadOp(ReadAll[n - 1].pos)
  BY <1>1, ReadAllDef
<1>3. ReadAll[0].pos = start[0] /\ ReadAll[0] # Garbled
  BY <1>1, <1>2 DEF First, Garbled, Starts
<1>4. ASSUME T # {} PROVE FALSE
  <2>1. PICK n \in T : \A k \in T : n <= k
    BY <1>4, LeastNat
  <2>2. n \in 1 .. Len(puts) /\ ~Found(n)
    BY <2>1
  <2>3. ReadAll[n - 1].pos = start[n - 1] /\ ReadAll[n - 1] # Garbled
    <3>1. CASE n = 1
      BY <1>3, <3>1
    <3>2. CASE n # 1
      <4>1. n - 1 \in Nat /\ n - 1 \in 1 .. Len(puts) /\ n - 1 \in 0 .. Len(puts) /\ ~(n <= n - 1)
        BY <1>1, <2>2, <3>2
      <4>2. Found(n - 1)
        BY <2>1, <4>1
      <4>3. start[n - 1] > HeaderSize
        BY <4>1 DEF Starts
      <4> QED BY <1>1, <4>2, <4>3 DEF Garbled
    <3> QED BY <3>1, <3>2
  <2>4. start[n - 1] \in Nat \ {0}
    <3>1. n - 1 \in 0 .. Len(puts)
      BY <1>1, <2>2
    <3>2. start[n - 1] \in Nat /\ start[n - 1] > HeaderSize
      BY <3>1 DEF Starts
    <3> QED BY <1>1, <3>2
  <2> DEFINE klen == puts[n].key
             vlen == puts[n].value
  <2>5. klen \in Nat /\ klen < U32 /\ vlen \in Nat /\ vlen < U32
    <3> DEFINE S == [key : KeyLens, value : ValueLens]
    <3>1. puts \in Seq(S)
      BY DEF TypeOK
    <3> HIDE DEF S
    <3>2. puts[n] \in S
      BY <2>2, <3>1, ElementOfSeq, Zenon
    <3>3. klen \in Nat /\ vlen \in Nat
      BY <3>2, LengthAssumption DEF S
    <3>4. ~Cut(puts[n])
      BY <2>2
    <3> QED BY <3>3, <3>4, U32Facts DEF Cut
  <2>6. /\ Holds(data, start[n - 1], Record(klen, vlen))
        /\ start[n] = start[n - 1] + Len(Record(klen, vlen))
    BY <2>2 DEF Starts
  <2> HIDE DEF klen, vlen
  <2>7. ReadOp(start[n - 1]) = [pos |-> start[n], key |-> klen, value |-> vlen]
    BY <2>4, <2>5, <2>6, ReadOpFacts
  <2>8. ReadAll[n] = ReadOp(start[n - 1])
    BY <1>2, <2>2, <2>3
  <2> QED BY <2>2, <2>7, <2>8 DEF klen, vlen
<1>5. ASSUME NEW n \in 1 .. Len(puts) PROVE Found(n)
  <2>1. n \in Nat /\ n \notin T
    BY <1>1, <1>4
  <2> QED BY <2>1
<1> QED BY <1>3, <1>5

LEMMA IInvSelfDelimiting == IInv => SelfDelimiting
<1> SUFFICES ASSUME IInv, data # <<>>, \A n \in 1 .. Len(puts) : ~Cut(puts[n])
             PROVE  /\ BatchCount(data) = Len(puts)
                    /\ \A n \in 1 .. Len(puts) :
                         ReadAll[n].key = puts[n].key /\ ReadAll[n].value = puts[n].value
                    /\ ReadAll[Len(puts)].pos = Len(data) + 1 \/ panicked
  BY DEF SelfDelimiting
<1>1. TypeOK /\ BatchCount(data) = Len(puts)
  BY DEF IInv, CountIsExact
<1>2. PICK start : Starts(start)
  BY DEF IInv, LaidOut
<1>3. /\ ReadAll[0].pos = start[0]
      /\ \A n \in 1 .. Len(puts) :
           ReadAll[n] = [pos |-> start[n], key |-> puts[n].key, value |-> puts[n].value]
  BY <1>1, <1>2, ReaderFindsAll
<1>4. ASSUME NEW n \in 1 .. Len(puts)
      PROVE  /\ ReadAll[n].pos = start[n]
             /\ ReadAll[n].key = puts[n].key /\ ReadAll[n].value = puts[n].value
  <2>1. ReadAll[n] = [pos |-> start[n], key |-> puts[n].key, value |-> puts[n].value]
    BY <1>3
  <2> QED BY ONLY <2>1
<1>5. ReadAll[Len(puts)].pos = start[Len(puts)]
  <2>1. Len(puts) \in Nat
    BY <1>1 DEF TypeOK
  <2>2. CASE Len(puts) = 0
    BY <1>3, <2>2
  <2>3. CASE Len(puts) # 0
    <3>1. Len(puts) \in 1 .. Len(puts)
      BY <2>1, <2>3
    <3> QED BY <1>4, <3>1
  <2> QED BY <2>2, <2>3
<1>6. panicked \/ start[Len(puts)] = Len(data) + 1
  BY <1>2 DEF Starts
<1> QED BY <1>1, <1>4, <1>5, <1>6, Zenon

(* The buffer alone gives back every put whose length `as u32` did not cut, *)
(* in order, and as many as the count says.  The hypothesis is that put is   *)
(* called less than 2^32 times: nothing guards the `+ 1` of the count, which*)
(* the call after that would wrap to nothing (or panic, in a debug build).  *)
THEOREM BatchesAreSelfDelimiting ==
  ASSUME MaxPuts < U32 PROVE Spec => []SelfDelimiting
<1>1. Init => IInv
  BY InitIInv
<1>2. IInv /\ [Next]_vars => IInv'
  BY NextIInv
<1>3. IInv => SelfDelimiting
  BY IInvSelfDelimiting
<1> QED BY <1>1, <1>2, <1>3, PTL DEF Spec

-----------------------------------------------------------------------------
(* Every length that has room in four groups is a u32.                      *)
LEMMA RoomFacts == Room[4] \in Nat /\ Room[4] <= U32
<1> DEFINE m2 == Msb * Msb
           m3 == m2 * Msb
           m4 == m3 * Msb
           r2 == Radix * Radix
           r3 == r2 * Radix
           r4 == r3 * Radix
<1>1. Room[4] = m4 /\ U32 = r4
  BY DEF Room, U32
<1>2. m2 \in Nat /\ r2 \in Nat /\ m2 <= r2
  BY MsbFacts
<1> HIDE DEF m2, r2
<1>3. m3 \in Nat /\ r3 \in Nat /\ m3 <= r3
  <2>1. m3 <= r2 * Msb
    BY <1>2, MsbFacts
  <2>2. r2 * Msb <= r3
    BY <1>2, MsbFacts
  <2> QED BY <1>2, <2>1, <2>2, MsbFacts
<1> HIDE DEF m3, r3
<1>4. m4 \in Nat /\ r4 \in Nat /\ m4 <= r4
  <2>1. m4 <= r3 * Msb
    BY <1>3, MsbFacts
  <2>2. r3 * Msb <= r4
    BY <1>3, MsbFacts
  <2> QED BY <1>3, <2>1, <2>2, MsbFacts
<1> QED BY <1>1, <1>4

LEMMA TypeRoundTrip == VarIntRoundTrip
<1> SUFFICES ASSUME NEW v \in 0 .. Room[4] - 1
             PROVE  /\ \A next \in {data[k].byte : k \in 1 .. Len(data)} :
                         Decode(Append(VarInt[v], next)) =
                           [value |-> v, read |-> Len(VarInt[v])]
                    /\ \A g \in 1 .. 4 : v < Room[g] => Len(VarInt[v]) <= g
  BY DEF VarIntRoundTrip
<1>1. v \in Nat /\ v < U32
  BY RoomFacts, U32Facts
<1>2. \A g \in 1 .. 4 : v < Room[g] => Len(VarInt[v]) <= g
  BY <1>1, VarIntIsShort
<1>3. ASSUME NEW next
      PROVE  Decode(Append(VarInt[v], next)) = [value |-> v, read |-> Len(VarInt[v])]
  <2> DEFINE t == VarInt[v]
             S == ByteValues \union {next}
             b == Append(t, next)
  <2>1. t \in Seq(ByteValues)
    BY <1>1, VarIntIsWellFormed DEF WellFormed
  <2> HIDE DEF t
  <2>2. t \in Seq(S) /\ Len(t) \in Nat
    BY <2>1, SeqMonotonic
  <2>3. Len(b) = Len(t) + 1 /\ \A k \in 1 .. Len(t) : b[k] = t[k]
    BY <2>2, AppendProperties
  <2> HIDE DEF b
  <2>4. Len(b) \in Nat /\ Len(t) <= Len(b)
    BY <2>2, <2>3
  <2>5. Decode(b) = [value |-> v % U32, read |-> Len(VarInt[v])]
    BY <1>1, <2>3, <2>4, DecodePrefix DEF t
  <2> QED BY <1>1, <2>5, U32Facts DEF b, t
<1> QED BY <1>2, <1>3

(* VarInt::decode gives back every length that VarInt::new can encode,      *)
(* whatever comes next in the buffer, and reads no byte too many; no        *)
(* encoding is longer than it has to be.                                    *)
THEOREM VarIntsRoundTrip == Spec => []VarIntRoundTrip
  BY TypeRoundTrip, PTL DEF Spec
=============================================================================

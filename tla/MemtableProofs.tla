--------------------------- MODULE MemtableProofs ---------------------------
(***************************************************************************)
(* Proofs about the memtable: the comparator sorts the versions of a key   *)
(* newest first, a read returns the newest version of its snapshot and     *)
(* repeats, and iterators miss nothing - for every set of user keys and    *)
(* sequence numbers, every width of the trailer and any number of writes.  *)
(***************************************************************************)
EXTENDS Memtable, WellFoundedInduction, FiniteSetTheorems, TLAPS

-----------------------------------------------------------------------------
(* Internal keys                                                            *)

(* A write, its key in the list, and the order of iteration with what it    *)
(* depends on made explicit: write i is a and write j is b.                 *)
Writes == [user : UserKeys, seq : SeqNos, op : WriteOps]

KeyOf(w) == Encode(w.user, w.seq, w.op)

NewerBy(a, i, b, j) ==
  \/ a.seq > b.seq
  \/ a.seq = b.seq /\ Code[a.op] > Code[b.op]
  \/ a.seq = b.seq /\ a.op = b.op /\ i > j

OrderBy(a, i, b, j) ==
  \/ a.user < b.user
  \/ a.user = b.user /\ NewerBy(a, i, b, j)

(* The codes of the operations differ, fit a byte, and Max is above the     *)
(* others.                                                                  *)
LEMMA CodeFacts ==
  /\ DOMAIN Code = {"Put", "Delete", "Merge", "Max"}
  /\ Code["Put"] = 1 /\ Code["Delete"] = 2 /\ Code["Merge"] = 3 /\ Code["Max"] = 255
  BY DEF Code

(* What that says of the operations that are written.                       *)
LEMMA OpFacts ==
  /\ \A op \in WriteOps : op \in DOMAIN Code /\ Code[op] \in 1 .. 3
  /\ \A p, q \in WriteOps : Code[p] = Code[q] => p = q
  /\ \A p, q \in DOMAIN Code : Code[p] = Code[q] => p = q
  /\ \A op \in DOMAIN Code : Code[op] \in 1 .. 255
  BY CodeFacts DEF WriteOps

(* Numbers below the modulus are their own remainder.                       *)
LEMMA SmallMod ==
  ASSUME NEW n \in Nat, NEW a \in Nat \ {0}, n < a
  PROVE  n % a = n
  OBVIOUS

(* The shift loses nothing: a trailer is the sequence number and the code   *)
(* side by side, within its width.                                          *)
LEMMA TrailerFacts ==
  ASSUME NEW s \in SeqNos, NEW op \in DOMAIN Code
  PROVE  /\ s \in Nat /\ Code[op] \in 1 .. 255
         /\ PackTrailer(s, op) = 256 * s + Code[op]
         /\ PackTrailer(s, op) \in 0 .. TrailerRange - 1
         /\ PackTrailer(s, op) % 256 = Code[op]
<1>1. s \in Nat /\ s <= SeqRange - 1 /\ SeqRange \in Nat \ {0} /\ Code[op] \in 1 .. 255
  BY SeqAssumption, OpFacts
<1>2. s * 256 \in Nat /\ s * 256 = 256 * s /\ s * 256 <= TrailerRange - 256
      /\ TrailerRange \in Nat \ {0}
  BY <1>1 DEF TrailerRange
<1>3. (s * 256) % TrailerRange = 256 * s
  BY <1>2, SmallMod
<1>4. PackTrailer(s, op) = 256 * s + Code[op]
  BY <1>3 DEF PackTrailer
<1>5. (256 * s + Code[op]) % 256 = Code[op]
  BY <1>1
<1> QED BY <1>1, <1>2, <1>4, <1>5

(* So the operation can be read back,                                       *)
LEMMA OpComesBack ==
  ASSUME NEW w \in Writes PROVE OpOf(KeyOf(w).trailer) = w.op
<1>1. w.op \in WriteOps /\ w.op \in DOMAIN Code /\ w.seq \in SeqNos
  BY OpFacts DEF Writes
<1>2. KeyOf(w).trailer % 256 = Code[w.op]
  BY <1>1, TrailerFacts DEF KeyOf, Encode
<1>3. \A op \in DOMAIN Code : Code[op] = Code[w.op] => op = w.op
  BY <1>1, OpFacts
<1> QED BY <1>1, <1>2, <1>3 DEF OpOf

(* keys of writes are internal keys,                                        *)
LEMMA KeyOfType ==
  ASSUME NEW w \in Writes
  PROVE  /\ KeyOf(w) \in InternalKeys /\ KeyOf(w).user = w.user
         /\ w.user \in Nat /\ w.seq \in Nat /\ w.seq \in SeqNos /\ w.op \in WriteOps
         /\ Code[w.op] \in 1 .. 3
         /\ KeyOf(w).trailer = 256 * w.seq + Code[w.op]
<1>1. w.op \in WriteOps /\ w.op \in DOMAIN Code /\ w.seq \in SeqNos /\ w.user \in UserKeys
      /\ Code[w.op] \in 1 .. 3
  BY OpFacts DEF Writes
<1>2. KeyOf(w) = [user |-> w.user, trailer |-> PackTrailer(w.seq, w.op)]
  BY DEF KeyOf, Encode
<1>3. /\ w.seq \in Nat /\ PackTrailer(w.seq, w.op) = 256 * w.seq + Code[w.op]
      /\ PackTrailer(w.seq, w.op) \in 0 .. TrailerRange - 1
  BY <1>1, TrailerFacts
<1>4. w.user \in Nat
  BY <1>1, KeyAssumption
<1>5. KeyOf(w) \in InternalKeys
  BY <1>1, <1>2, <1>3 DEF InternalKeys
<1> QED BY <1>1, <1>2, <1>3, <1>4, <1>5

(* and InternalKeyComparator sorts by user key, then newest first; two      *)
(* writes of one key, sequence number and operation have equal keys.        *)
LEMMA KeyLessFacts ==
  ASSUME NEW a \in Writes, NEW b \in Writes
  PROVE  /\ KeyLess(KeyOf(a), KeyOf(b)) <=>
              \/ a.user < b.user
              \/ /\ a.user = b.user
                 /\ a.seq > b.seq \/ (a.seq = b.seq /\ Code[a.op] > Code[b.op])
<1>1. /\ KeyOf(a).user = a.user /\ KeyOf(b).user = b.user
      /\ a.seq \in Nat /\ b.seq \in Nat
      /\ Code[a.op] \in 1 .. 3 /\ Code[b.op] \in 1 .. 3
      /\ KeyOf(a).trailer = 256 * a.seq + Code[a.op]
      /\ KeyOf(b).trailer = 256 * b.seq + Code[b.op]
  BY KeyOfType
<1>2. KeyOf(a).trailer > KeyOf(b).trailer <=>
        a.seq > b.seq \/ (a.seq = b.seq /\ Code[a.op] > Code[b.op])
  <2>1. PICK x \in Nat : x = a.seq
    BY <1>1
  <2>2. PICK y \in Nat : y = b.seq
    BY <1>1
  <2>3. PICK c \in 1 .. 3 : c = Code[a.op]
    BY <1>1
  <2>4. PICK d \in 1 .. 3 : d = Code[b.op]
    BY <1>1
  <2>5. 256 * x + c > 256 * y + d <=> x > y \/ (x = y /\ c > d)
    OBVIOUS
  <2> QED BY <1>1, <2>1, <2>2, <2>3, <2>4, <2>5
<1> QED BY <1>1, <1>2 DEF KeyLess

(* The order of iteration is a strict total order,                          *)
LEMMA OrderTotal ==
  ASSUME NEW a \in Writes, NEW b \in Writes, NEW i \in Nat, NEW j \in Nat, i # j
  PROVE  OrderBy(a, i, b, j) \/ OrderBy(b, j, a, i)
<1>1. /\ a.user \in Nat /\ b.user \in Nat /\ a.seq \in Nat /\ b.seq \in Nat
      /\ Code[a.op] \in 1 .. 3 /\ Code[b.op] \in 1 .. 3
      /\ a.op \in WriteOps /\ b.op \in WriteOps
  BY KeyOfType
<1>2. Code[a.op] = Code[b.op] => a.op = b.op
  BY <1>1, OpFacts
<1> QED BY <1>1, <1>2 DEF OrderBy, NewerBy

(* never holds in both directions,                                          *)
LEMMA OrderAsym ==
  ASSUME NEW a \in Writes, NEW b \in Writes, NEW i \in Nat, NEW j \in Nat,
         OrderBy(a, i, b, j)
  PROVE  ~OrderBy(b, j, a, i)
<1>1. /\ a.user \in Nat /\ b.user \in Nat /\ a.seq \in Nat /\ b.seq \in Nat
      /\ Code[a.op] \in 1 .. 3 /\ Code[b.op] \in 1 .. 3
  BY KeyOfType
<1> QED BY <1>1 DEF OrderBy, NewerBy

(* and agrees with the comparator: a smaller key comes first, and a later   *)
(* write of an equal key before an earlier one.                             *)
LEMMA OrderOfKeys ==
  ASSUME NEW a \in Writes, NEW b \in Writes, NEW i \in Nat, NEW j \in Nat
  PROVE  /\ KeyLess(KeyOf(a), KeyOf(b)) => OrderBy(a, i, b, j)
         /\ ~KeyLess(KeyOf(a), KeyOf(b)) /\ j > i => OrderBy(b, j, a, i)
<1>1. /\ a.user \in Nat /\ b.user \in Nat /\ a.seq \in Nat /\ b.seq \in Nat
      /\ Code[a.op] \in 1 .. 3 /\ Code[b.op] \in 1 .. 3
      /\ a.op \in WriteOps /\ b.op \in WriteOps
  BY KeyOfType
<1>2. Code[a.op] = Code[b.op] => a.op = b.op
  BY <1>1, OpFacts
<1> QED BY <1>1, <1>2, KeyLessFacts DEF OrderBy, NewerBy

(* What is in front of a smaller key is smaller.                            *)
LEMMA OrderBelowKey ==
  ASSUME NEW a \in Writes, NEW b \in Writes, NEW c \in Writes,
         NEW i \in Nat, NEW j \in Nat,
         OrderBy(a, i, b, j), KeyLess(KeyOf(b), KeyOf(c))
  PROVE  KeyLess(KeyOf(a), KeyOf(c))
<1>1. /\ a.user \in Nat /\ b.user \in Nat /\ a.seq \in Nat /\ b.seq \in Nat
      /\ c.user \in Nat /\ c.seq \in Nat /\ Code[c.op] \in 1 .. 3
      /\ Code[a.op] \in 1 .. 3 /\ Code[b.op] \in 1 .. 3
  BY KeyOfType
<1>2. a.op = b.op => Code[a.op] = Code[b.op]
  OBVIOUS
<1> QED BY <1>1, <1>2, KeyLessFacts DEF OrderBy, NewerBy

(* A lookup key is in front of exactly the versions its snapshot sees, of   *)
(* its own user key, and of all greater user keys.                          *)
LEMMA LookupFacts ==
  ASSUME NEW w \in Writes, NEW u \in UserKeys, NEW s \in SeqNos
  PROVE  /\ ~KeyLess(KeyOf(w), Lookup(u, s)) <=>
              w.user > u \/ (w.user = u /\ w.seq <= s)
         /\ Lookup(u, s).user = u
<1>1. /\ KeyOf(w).user = w.user /\ w.user \in Nat /\ w.seq \in Nat
      /\ Code[w.op] \in 1 .. 3
      /\ KeyOf(w).trailer = 256 * w.seq + Code[w.op]
  BY KeyOfType
<1>2. "Max" \in DOMAIN Code /\ Code["Max"] = 255
  BY CodeFacts
<1>3. Lookup(u, s).user = u /\ Lookup(u, s).trailer = 256 * s + 255 /\ s \in Nat
  BY <1>2, TrailerFacts DEF Lookup, Encode
<1>4. u \in Nat
  BY KeyAssumption
<1>5. KeyOf(w).trailer > Lookup(u, s).trailer <=> w.seq > s
  <2>1. PICK x \in Nat : x = w.seq
    BY <1>1
  <2>2. PICK c \in 1 .. 3 : c = Code[w.op]
    BY <1>1
  <2>3. 256 * x + c > 256 * s + 255 <=> x > s
    BY <1>3
  <2> QED BY <1>1, <1>3, <2>1, <2>2, <2>3
<1> QED BY <1>1, <1>3, <1>4, <1>5 DEF KeyLess

-----------------------------------------------------------------------------
(* The list                                                                 *)

Entry == [id : Ids, key : InternalKeys]

(* Two sequences of entries, one after the other.                           *)
LEMMA ConcatFacts ==
  ASSUME NEW a \in Seq(Entry), NEW b \in Seq(Entry)
  PROVE  /\ a \o b \in Seq(Entry) /\ Len(a \o b) = Len(a) + Len(b)
         /\ Len(a) \in Nat /\ Len(b) \in Nat
         /\ \A x \in 1 .. Len(a) : (a \o b)[x] = a[x]
         /\ \A x \in 1 .. Len(b) : (a \o b)[Len(a) + x] = b[x]
<1>1. a \o b \in Seq(Entry) /\ Len(a \o b) = Len(a) + Len(b) /\ Len(a) \in Nat /\ Len(b) \in Nat
  OBVIOUS
<1>2. \A x \in 1 .. Len(a) : (a \o b)[x] = a[x]
  OBVIOUS
<1>3. \A x \in 1 .. Len(b) : (a \o b)[Len(a) + x] = b[x]
  OBVIOUS
<1> QED
  BY <1>1, <1>2, <1>3

(* What inserting into a sequence of entries gives, index by index.         *)
LEMMA InsertAtFacts ==
  ASSUME NEW B \in Seq(Entry), NEW i \in 0 .. Len(B), NEW e \in Entry
  PROVE  InsertAt(B, i + 1, e) =
           [x \in 1 .. Len(B) + 1 |->
              IF x <= i THEN B[x] ELSE IF x = i + 1 THEN e ELSE B[x - 1]]
<1>1. Len(B) \in Nat /\ i \in Nat /\ (i + 1) - 1 = i
  OBVIOUS
<1>2. PICK b1, b2, b3 : /\ b1 = SubSeq(B, 1, i) /\ b2 = <<e>> /\ b3 = SubSeq(B, i + 1, Len(B))
  OBVIOUS
<1>3. /\ b1 \in Seq(Entry) /\ Len(b1) = i /\ \A x \in 1 .. i : b1[x] = B[x]
  BY <1>1, <1>2
<1>4. /\ b2 \in Seq(Entry) /\ Len(b2) = 1 /\ b2[1] = e
  BY <1>2
<1>5. /\ b3 \in Seq(Entry) /\ Len(b3) = Len(B) - i
      /\ \A x \in 1 .. Len(B) - i : b3[x] = B[i + x]
  <2>1. CASE i = Len(B)
    BY <1>1, <1>2, <2>1
  <2>2. CASE i < Len(B)
    BY <1>1, <1>2, <2>2
  <2> QED
    BY <1>1, <2>1, <2>2
<1>6. PICK c : c = b1 \o b2
  OBVIOUS
<1>7. /\ c \in Seq(Entry) /\ Len(c) = i + 1 /\ c[i + 1] = e
      /\ \A x \in 1 .. i : c[x] = B[x]
  <2>0. /\ b1 \o b2 \in Seq(Entry) /\ Len(b1 \o b2) = Len(b1) + Len(b2)
        /\ \A x \in 1 .. Len(b1) : (b1 \o b2)[x] = b1[x]
        /\ \A x \in 1 .. Len(b2) : (b1 \o b2)[Len(b1) + x] = b2[x]
    BY <1>3, <1>4, ConcatFacts
  <2>1. /\ c \in Seq(Entry) /\ Len(c) = i + 1
        /\ \A x \in 1 .. i : c[x] = b1[x]
        /\ \A x \in 1 .. 1 : c[i + x] = b2[x]
    BY <1>3, <1>4, <1>6, <2>0
  <2> QED
    BY <1>3, <1>4, <2>1
<1>8. PICK d : d = c \o b3
  OBVIOUS
<1>9. /\ d \in Seq(Entry) /\ Len(d) = Len(B) + 1
      /\ \A x \in 1 .. i + 1 : d[x] = c[x]
      /\ \A x \in i + 2 .. Len(B) + 1 : d[x] = B[x - 1]
  <2>0. /\ d \in Seq(Entry) /\ Len(d) = (i + 1) + (Len(B) - i)
        /\ \A x \in 1 .. i + 1 : d[x] = c[x]
        /\ \A x \in 1 .. Len(B) - i : d[(i + 1) + x] = b3[x]
    <3>1. /\ c \o b3 \in Seq(Entry) /\ Len(c \o b3) = Len(c) + Len(b3)
          /\ \A x \in 1 .. Len(c) : (c \o b3)[x] = c[x]
          /\ \A x \in 1 .. Len(b3) : (c \o b3)[Len(c) + x] = b3[x]
      BY <1>5, <1>7, ConcatFacts
    <3> QED
      BY <1>5, <1>7, <1>8, <3>1
  <2>1. d \in Seq(Entry) /\ Len(d) = Len(B) + 1
    BY <1>1, <2>0
  <2>2. \A x \in 1 .. i + 1 : d[x] = c[x]
    BY <2>0
  <2>3. ASSUME NEW x \in i + 2 .. Len(B) + 1 PROVE d[x] = B[x - 1]
    <3>1. PICK y \in 1 .. Len(B) - i : y = x - (i + 1)
      BY <1>1
    <3>2. d[x] = b3[y]
      <4>1. (i + 1) + y = x
        BY <1>1, <3>1
      <4> QED
        BY <2>0, <4>1
    <3>3. i + y = x - 1
      BY <1>1, <3>1
    <3> QED
      BY <1>5, <3>1, <3>2, <3>3
  <2> QED
    BY <2>1, <2>2, <2>3
<1>10. InsertAt(B, i + 1, e) = d
  <2>1. InsertAt(B, i + 1, e) = SubSeq(B, 1, (i + 1) - 1) \o <<e>> \o SubSeq(B, i + 1, Len(B))
    BY Zenon DEF InsertAt
  <2> QED
    BY <1>1, <1>2, <1>6, <1>8, <2>1, Zenon
<1>11. \A x \in 1 .. Len(B) + 1 :
         d[x] = IF x <= i THEN B[x] ELSE IF x = i + 1 THEN e ELSE B[x - 1]
  <2> SUFFICES ASSUME NEW x \in 1 .. Len(B) + 1
               PROVE  d[x] = IF x <= i THEN B[x] ELSE IF x = i + 1 THEN e ELSE B[x - 1]
    OBVIOUS
  <2>1. CASE x <= i
    <3>1. x \in 1 .. i /\ x \in 1 .. i + 1
      BY <1>1, <2>1
    <3> QED
      BY <1>7, <1>9, <2>1, <3>1
  <2>2. CASE x = i + 1
    <3>1. x \in 1 .. i + 1 /\ ~(x <= i)
      BY <1>1, <2>2
    <3> QED
      BY <1>7, <1>9, <2>2, <3>1
  <2>3. CASE x > i + 1
    <3>1. x \in i + 2 .. Len(B) + 1 /\ ~(x <= i) /\ x # i + 1
      BY <1>1, <2>3
    <3> QED
      BY <1>9, <3>1
  <2> QED
    BY <1>1, <2>1, <2>2, <2>3
<1>12. d = [x \in 1 .. Len(B) + 1 |-> d[x]]
  BY <1>9
<1> QED
  BY <1>10, <1>11, <1>12

(* A set of numbers that is not empty has a least one.                      *)
LEMMA LeastNat ==
  ASSUME NEW T \in SUBSET Nat, T # {}
  PROVE  \E m \in T : \A k \in T : m <= k
<1>1. PICK x \in T : \A y \in T : ~(<<y, x>> \in OpToRel(<, Nat))
  BY WFMin, NatLessThanWellFounded
<1>2. ASSUME NEW k \in T PROVE x <= k
  <2>1. <<k, x>> \in OpToRel(<, Nat) <=> k < x
    <3>1. <<k, x>> \in Nat \X Nat
      OBVIOUS
    <3> QED BY <3>1 DEF OpToRel
  <2>2. ~(k < x)
    BY <1>1, <2>1, Zenon
  <2>3. k \in Nat /\ x \in Nat
    OBVIOUS
  <2> QED BY <2>2, <2>3
<1> QED BY <1>2

(* Numbers up to N of which each includes those below it are the first m.   *)
LEMMA PrefixSet ==
  ASSUME NEW N \in Nat, NEW S \in SUBSET (1 .. N),
         \A x, y \in 1 .. N : x < y /\ y \in S => x \in S
  PROVE  \E m \in 0 .. N : S = 1 .. m /\ Cardinality(S) = m
<1> DEFINE C == {x \in 1 .. N + 1 : x \notin S}
<1>1. C \in SUBSET Nat /\ N + 1 \in C
  OBVIOUS
<1> HIDE DEF C
<1>2. PICK c \in C : \A k \in C : c <= k
  BY <1>1, LeastNat
<1>3. c \in 1 .. N + 1 /\ c \notin S
  BY <1>2 DEF C
<1>4. PICK m \in 0 .. N : c = m + 1
  <2>1. c - 1 \in 0 .. N /\ c = (c - 1) + 1
    BY <1>3
  <2> QED BY <2>1
<1>5. S = 1 .. m
  <2>1. ASSUME NEW x \in S PROVE x \in 1 .. m
    <3>1. x \in 1 .. N
      OBVIOUS
    <3>2. CASE x > c
      <4>1. c \in 1 .. N
        BY <1>3, <3>1, <3>2
      <4> QED BY <1>3, <3>1, <3>2, <4>1
    <3>3. x # c
      BY <1>3
    <3> QED BY <1>3, <1>4, <3>1, <3>2, <3>3
  <2>2. ASSUME NEW x \in 1 .. m PROVE x \in S
    <3>1. x \in 1 .. N + 1 /\ ~(c <= x) /\ c \in Nat /\ x \in Nat
      BY <1>3, <1>4
    <3>2. x \notin C
      BY <1>2, <3>1
    <3> QED BY <3>1, <3>2 DEF C
  <2> QED BY <2>1, <2>2
<1>6. Cardinality(1 .. m) = m
  BY FS_Interval
<1> QED BY <1>5, <1>6

(* The list L of the writes W: it has the key of every write once, in the   *)
(* order of iteration.                                                      *)
Carries(L, W) ==
  /\ L \in Seq(Entry) /\ W \in Seq(Writes) /\ Len(L) = Len(W)
  /\ \A x \in 1 .. Len(L) :
       L[x].id \in 1 .. Len(W) /\ L[x].key = KeyOf(W[L[x].id])

AllThere(L, W) == \A n \in 1 .. Len(W) : \E x \in 1 .. Len(L) : L[x].id = n

InOrder(L, W) ==
  \A x, y \in 1 .. Len(L) :
    x < y => OrderBy(W[L[x].id], L[x].id, W[L[y].id], L[y].id)

ListOf(L, W) == Carries(L, W) /\ AllThere(L, W) /\ InOrder(L, W)

(* Facts about such a list.                                                 *)
LEMMA ListFacts ==
  ASSUME NEW L, NEW W, Carries(L, W)
  PROVE  /\ Len(L) \in Nat /\ Len(W) = Len(L)
         /\ \A x \in 1 .. Len(L) :
              /\ L[x] \in Entry /\ L[x].id \in 1 .. Len(W) /\ L[x].id \in Nat
              /\ W[L[x].id] \in Writes /\ L[x].key = KeyOf(W[L[x].id])
<1>1. L \in Seq(Entry) /\ W \in Seq(Writes) /\ Len(L) = Len(W) /\ Len(L) \in Nat
  BY DEF Carries
<1>2. \A n \in 1 .. Len(W) : W[n] \in Writes /\ n \in Nat
  BY <1>1
<1>3. \A x \in 1 .. Len(L) : L[x] \in Entry
  BY <1>1
<1>4. \A x \in 1 .. Len(L) :
        L[x].id \in 1 .. Len(W) /\ L[x].key = KeyOf(W[L[x].id])
  BY DEF Carries
<1> QED BY <1>1, <1>2, <1>3, <1>4

(* An insertion at the place the list gives it: in front of the entries     *)
(* that are not smaller, hence of those with an equal key.                  *)
LEMMA InsertSorted ==
  ASSUME NEW L, NEW W, ListOf(L, W), NEW w \in Writes, Len(W) < MaxEntries,
         NEW S, S = {x \in 1 .. Len(L) : KeyLess(L[x].key, KeyOf(w))}
  PROVE  ListOf(InsertAt(L, Cardinality(S) + 1, [id |-> Len(W) + 1, key |-> KeyOf(w)]),
                Append(W, w))
<1>0. Carries(L, W) /\ AllThere(L, W) /\ InOrder(L, W)
  BY DEF ListOf
<1>1. PICK n \in Nat : n = Len(L) /\ n = Len(W)
  BY <1>0, ListFacts
<1>2. /\ L \in Seq(Entry) /\ W \in Seq(Writes)
      /\ \A x \in 1 .. n :
           /\ L[x] \in Entry /\ L[x].id \in 1 .. n /\ L[x].id \in Nat
           /\ W[L[x].id] \in Writes /\ L[x].key = KeyOf(W[L[x].id])
  BY <1>0, <1>1, ListFacts DEF Carries
<1>3. PICK m \in 0 .. n : S = 1 .. m /\ Cardinality(S) = m
  <2>1. S \in SUBSET (1 .. n)
    BY <1>1
  <2>2. ASSUME NEW x \in 1 .. n, NEW y \in 1 .. n, x < y, y \in S PROVE x \in S
    <3>1. OrderBy(W[L[x].id], L[x].id, W[L[y].id], L[y].id)
      BY <1>0, <1>1, <2>2 DEF InOrder
    <3>2. KeyLess(KeyOf(W[L[y].id]), KeyOf(w))
      BY <1>2, <2>2
    <3>3. KeyLess(KeyOf(W[L[x].id]), KeyOf(w))
      BY <1>2, <3>1, <3>2, OrderBelowKey
    <3> QED BY <1>1, <1>2, <3>3
  <2> QED BY <2>1, <2>2, PrefixSet
<1>4. PICK e : e = [id |-> n + 1, key |-> KeyOf(w)]
  OBVIOUS
<1>5. e \in Entry /\ e.id = n + 1 /\ e.key = KeyOf(w)
  <2>1. n + 1 \in Ids /\ KeyOf(w) \in InternalKeys
    BY <1>1, KeyOfType, BoundAssumption DEF Ids
  <2> QED BY <1>4, <2>1 DEF Entry
<1>6. PICK L2 : L2 = InsertAt(L, m + 1, e)
  OBVIOUS
<1>7. L2 = [x \in 1 .. n + 1 |->
                 IF x <= m THEN L[x] ELSE IF x = m + 1 THEN e ELSE L[x - 1]]
  <2>1. m \in 0 .. Len(L)
    BY <1>1
  <2>2. InsertAt(L, m + 1, e) =
          [x \in 1 .. Len(L) + 1 |->
             IF x <= m THEN L[x] ELSE IF x = m + 1 THEN e ELSE L[x - 1]]
    BY <1>2, <1>5, <2>1, InsertAtFacts
  <2> QED BY <1>1, <1>6, <2>2
<1>8. /\ L2 \in Seq(Entry) /\ Len(L2) = n + 1
      /\ \A x \in 1 .. m : x \in 1 .. n /\ L2[x] = L[x]
      /\ L2[m + 1] = e
      /\ \A x \in m + 2 .. n + 1 : x - 1 \in 1 .. n /\ L2[x] = L[x - 1]
  <2>1. ASSUME NEW x \in 1 .. n + 1
        PROVE  (IF x <= m THEN L[x] ELSE IF x = m + 1 THEN e ELSE L[x - 1]) \in Entry
    <3>1. CASE x <= m
      BY <1>2, <3>1
    <3>2. CASE x = m + 1
      BY <1>5, <3>2
    <3>3. CASE x > m + 1
      <4>1. x - 1 \in 1 .. n
        BY <3>3
      <4> QED BY <1>2, <3>3, <4>1
    <3> QED BY <3>1, <3>2, <3>3
  <2>2. L2 \in [1 .. n + 1 -> Entry]
    BY <1>7, <2>1
  <2>3. L2 \in Seq(Entry) /\ Len(L2) = n + 1
    BY <2>2
  <2>4. \A x \in 1 .. m : x \in 1 .. n /\ x \in 1 .. n + 1 /\ x <= m
    OBVIOUS
  <2>5. m + 1 \in 1 .. n + 1 /\ ~(m + 1 <= m)
    OBVIOUS
  <2>6. \A x \in m + 2 .. n + 1 : x - 1 \in 1 .. n /\ x \in 1 .. n + 1 /\ ~(x <= m) /\ x # m + 1
    OBVIOUS
  <2> QED BY <1>7, <2>3, <2>4, <2>5, <2>6
<1>9. PICK W2 : W2 = Append(W, w)
  OBVIOUS
<1>10. /\ W2 \in Seq(Writes) /\ Len(W2) = n + 1 /\ W2[n + 1] = w
       /\ \A i \in 1 .. n : W2[i] = W[i]
  BY <1>1, <1>2, <1>9
<1>11. Carries(L2, W2)
  <2>1. ASSUME NEW x \in 1 .. n + 1
        PROVE  L2[x].id \in 1 .. n + 1 /\ L2[x].key = KeyOf(W2[L2[x].id])
    <3>1. CASE x \in 1 .. m
      <4>1. x \in 1 .. n /\ L2[x] = L[x]
        BY <1>8, <3>1
      <4>2. L[x].id \in 1 .. n /\ L[x].key = KeyOf(W[L[x].id])
        BY <1>2, <4>1
      <4>3. W2[L[x].id] = W[L[x].id] /\ L[x].id \in 1 .. n + 1
        BY <1>10, <4>2
      <4> QED BY <4>1, <4>2, <4>3
    <3>2. CASE x = m + 1
      BY <1>5, <1>8, <1>10, <3>2
    <3>3. CASE x \in m + 2 .. n + 1
      <4>1. PICK y \in 1 .. n : y = x - 1 /\ L2[x] = L[y]
        BY <1>8, <3>3
      <4>2. L[y].id \in 1 .. n /\ L[y].key = KeyOf(W[L[y].id])
        BY <1>2, <4>1
      <4>3. W2[L[y].id] = W[L[y].id] /\ L[y].id \in 1 .. n + 1
        BY <1>10, <4>2
      <4> QED BY <4>1, <4>2, <4>3
    <3> QED BY <3>1, <3>2, <3>3
  <2> QED BY <1>8, <1>10, <2>1 DEF Carries
<1>12. AllThere(L2, W2)
  <2>1. ASSUME NEW i \in 1 .. n + 1 PROVE \E x \in 1 .. n + 1 : L2[x].id = i
    <3>1. CASE i = n + 1
      <4>1. m + 1 \in 1 .. n + 1
        OBVIOUS
      <4> QED BY <1>5, <1>8, <3>1, <4>1
    <3>2. CASE i \in 1 .. n
      <4>1. PICK x \in 1 .. n : L[x].id = i
        BY <1>0, <1>1, <3>2 DEF AllThere
      <4>2. CASE x <= m
        <5>1. x \in 1 .. m /\ x \in 1 .. n + 1
          BY <4>2
        <5> QED BY <1>8, <4>1, <5>1
      <4>3. CASE x > m
        <5>1. x + 1 \in m + 2 .. n + 1 /\ (x + 1) - 1 = x /\ x + 1 \in 1 .. n + 1
          BY <4>3
        <5>2. L2[x + 1] = L[x]
          BY <1>8, <5>1
        <5> QED BY <4>1, <5>1, <5>2
      <4> QED BY <4>2, <4>3
    <3> QED BY <3>1, <3>2
  <2> QED BY <1>8, <1>10, <2>1 DEF AllThere
<1>13. InOrder(L2, W2)
  <2>1. \A x, y \in 1 .. n :
          x < y => OrderBy(W2[L[x].id], L[x].id, W2[L[y].id], L[y].id)
    BY <1>0, <1>1, <1>2, <1>10 DEF InOrder
  <2>2. ASSUME NEW x \in 1 .. m
        PROVE  OrderBy(W2[L[x].id], L[x].id, W2[n + 1], n + 1)
    <3>1. x \in 1 .. n /\ KeyLess(KeyOf(W[L[x].id]), KeyOf(w))
      BY <1>2, <1>3
    <3>2. OrderBy(W[L[x].id], L[x].id, w, n + 1)
      BY <1>2, <3>1, OrderOfKeys
    <3> QED BY <1>2, <1>10, <3>1, <3>2
  <2>3. ASSUME NEW x \in m + 1 .. n
        PROVE  OrderBy(W2[n + 1], n + 1, W2[L[x].id], L[x].id)
    <3>1. x \in 1 .. n /\ x \notin S
      BY <1>3
    <3>2. ~KeyLess(KeyOf(W[L[x].id]), KeyOf(w))
      BY <1>1, <1>2, <3>1
    <3>3. L[x].id \in Nat /\ n + 1 \in Nat /\ n + 1 > L[x].id /\ W[L[x].id] \in Writes
      BY <1>2, <3>1
    <3>4. OrderBy(w, n + 1, W[L[x].id], L[x].id)
      BY <3>2, <3>3, OrderOfKeys
    <3> QED BY <1>2, <1>10, <3>1, <3>4
  <2>4. ASSUME NEW x \in 1 .. n + 1, NEW y \in 1 .. n + 1, x < y
        PROVE  OrderBy(W2[L2[x].id], L2[x].id, W2[L2[y].id], L2[y].id)
    <3>1. CASE x \in 1 .. m /\ y \in 1 .. m
      BY <1>8, <2>1, <2>4, <3>1
    <3>2. CASE x \in 1 .. m /\ y = m + 1
      BY <1>5, <1>8, <2>2, <3>2
    <3>3. CASE x \in 1 .. m /\ y \in m + 2 .. n + 1
      <4>1. x \in 1 .. n /\ y - 1 \in 1 .. n /\ x < y - 1
        BY <3>3
      <4> QED BY <1>8, <2>1, <3>3, <4>1
    <3>4. CASE x = m + 1 /\ y \in m + 2 .. n + 1
      <4>1. y - 1 \in m + 1 .. n
        BY <3>4
      <4> QED BY <1>5, <1>8, <2>3, <3>4, <4>1
    <3>5. CASE x \in m + 2 .. n + 1 /\ y \in m + 2 .. n + 1
      <4>1. x - 1 \in 1 .. n /\ y - 1 \in 1 .. n /\ x - 1 < y - 1
        BY <2>4, <3>5
      <4> QED BY <1>8, <2>1, <3>5, <4>1
    <3> QED BY <2>4, <3>1, <3>2, <3>3, <3>4, <3>5
  <2> QED BY <1>8, <2>4 DEF InOrder
<1>14. ListOf(L2, W2)
  BY <1>11, <1>12, <1>13 DEF ListOf
<1> QED BY <1>1, <1>3, <1>4, <1>6, <1>9, <1>14

-----------------------------------------------------------------------------
(* Types, and the list                                                      *)

(* The list of the writes so far.                                           *)
ListInv == ListOf(list, writes) /\ Len(writes) <= MaxEntries

(* The insertion of the list, with its place.                               *)
LEMMA InsertStep ==
  ASSUME ListInv, NEW u \in UserKeys, NEW s \in SeqNos, NEW op \in WriteOps,
         Insert(u, s, op)
  PROVE  ListInv' /\ [user |-> u, seq |-> s, op |-> op] \in Writes
<1>1. PICK w : w = [user |-> u, seq |-> s, op |-> op]
  OBVIOUS
<1>2. w \in Writes /\ KeyOf(w) = Encode(u, s, op)
  BY <1>1 DEF Writes, KeyOf
<1>3. /\ Len(writes) < MaxEntries /\ writes' = Append(writes, w)
      /\ List!Insert(Len(writes) + 1, KeyOf(w))
  BY <1>1, <1>2 DEF Insert
<1>4. PICK S : S = {x \in 1 .. Len(list) : KeyLess(list[x].key, KeyOf(w))}
  OBVIOUS
<1>5. list' = List!InsertAt(list, List!Cardinality(S) + 1, [id |-> Len(writes) + 1, key |-> KeyOf(w)])
  BY <1>3, <1>4, Zenon DEF List!Insert
<1>6. List!Cardinality(S) = Cardinality(S)
  BY Zenon DEF List!Cardinality, Cardinality
<1>7. PICK e : e = [id |-> Len(writes) + 1, key |-> KeyOf(w)]
  OBVIOUS
<1>8. List!InsertAt(list, Cardinality(S) + 1, e) = InsertAt(list, Cardinality(S) + 1, e)
  BY Zenon DEF List!InsertAt, InsertAt
<1>9. list' = InsertAt(list, Cardinality(S) + 1, [id |-> Len(writes) + 1, key |-> KeyOf(w)])
  BY <1>5, <1>6, <1>7, <1>8
<1>10. ListOf(InsertAt(list, Cardinality(S) + 1, [id |-> Len(writes) + 1, key |-> KeyOf(w)]),
              Append(writes, w))
  BY <1>2, <1>3, <1>4, InsertSorted DEF ListInv
<1>11. ListOf(list', writes')
  BY <1>3, <1>9, <1>10, Zenon
<1>12. writes \in Seq(Writes) /\ Len(writes') = Len(writes) + 1 /\ Len(writes) \in Nat
  <2>1. writes \in Seq(Writes)
    BY DEF ListInv, ListOf, Carries
  <2> QED BY <1>2, <1>3, <2>1
<1>13. Len(writes') <= MaxEntries
  BY <1>3, <1>12, BoundAssumption
<1> QED BY <1>1, <1>2, <1>11, <1>13 DEF ListInv

(* Where a lookup leads in the list L: 0 when every key is smaller, or the  *)
(* first place whose key is not.                                            *)
FirstIn(L, k) ==
  LET ge == {i \in 1 .. Len(L) : ~KeyLess(L[i].key, k)}
  IN  IF ge = {} THEN 0 ELSE Min(ge)

LEMMA FirstInFacts ==
  ASSUME NEW L, NEW k, Len(L) \in Nat
  PROVE  \/ /\ FirstIn(L, k) = 0
            /\ \A x \in 1 .. Len(L) : KeyLess(L[x].key, k)
         \/ /\ FirstIn(L, k) \in 1 .. Len(L)
            /\ ~KeyLess(L[FirstIn(L, k)].key, k)
            /\ \A x \in 1 .. Len(L) : x < FirstIn(L, k) => KeyLess(L[x].key, k)
<1> DEFINE ge == {i \in 1 .. Len(L) : ~KeyLess(L[i].key, k)}
<1>1. CASE ge = {}
  <2>1. FirstIn(L, k) = 0
    BY <1>1 DEF FirstIn
  <2> QED BY <1>1, <2>1
<1>2. CASE ge # {}
  <2>1. FirstIn(L, k) = Min(ge)
    BY <1>2 DEF FirstIn
  <2>2. ge \in SUBSET Nat
    OBVIOUS
  <2>3. ge \in SUBSET (1 .. Len(L)) /\ \A x \in 1 .. Len(L) : x \in ge <=> ~KeyLess(L[x].key, k)
    OBVIOUS
  <2> HIDE DEF ge
  <2>4. \E m \in ge : \A j \in ge : m <= j
    BY <1>2, <2>2, LeastNat
  <2>5. Min(ge) \in ge /\ \A j \in ge : Min(ge) <= j
    BY <2>4 DEF Min
  <2>6. ASSUME NEW x \in 1 .. Len(L), x < Min(ge) PROVE x \notin ge
    <3>1. Min(ge) \in Nat
      BY <2>2, <2>5
    <3>2. ~(Min(ge) <= x)
      BY <2>6, <3>1
    <3> QED BY <2>5, <3>2
  <2> QED BY <2>1, <2>3, <2>5, <2>6
<1> QED BY <1>1, <1>2

(* What the list has at place i, and what it has beyond it: nothing comes   *)
(* before place i + 1 but the places up to i.                               *)
LEMMA NodeFacts ==
  ASSUME ListInv, NEW i \in Nat
  PROVE  /\ Len(list) \in Nat /\ Len(writes) = Len(list)
         /\ NodeAt(i) \in 0 .. Len(writes)
         /\ i \in 1 .. Len(list) => NodeAt(i) = list[i].id /\ NodeAt(i) \in 1 .. Len(writes)
         /\ i \notin 1 .. Len(list) => NodeAt(i) = Null
<1>1. /\ Len(list) \in Nat /\ Len(writes) = Len(list)
      /\ \A x \in 1 .. Len(list) : list[x].id \in 1 .. Len(writes)
  BY ListFacts DEF ListInv, ListOf
<1> QED BY <1>1 DEF NodeAt, Null

(* The variables of the iterators: they are at entries of the list, and     *)
(* the node an iterator is at is the last one it passed.                    *)
ReaderType ==
  /\ current \in [Readers -> 0 .. Len(writes)]
  /\ known \in [Readers -> 0 .. Len(writes)]
  /\ passed \in [Readers -> Seq(1 .. Len(writes))]
  /\ seeks \in [Readers -> 0 .. MaxSeeks]
  /\ target \in [Readers -> {NoTarget} \union [user : UserKeys, seq : SeqNos]]

AtLast ==
  \A r \in Readers :
    current[r] # Null =>
      /\ Len(passed[r]) > 0
      /\ passed[r][Len(passed[r])] = current[r]

IInv == ListInv /\ ReaderType /\ AtLast

LEMMA IInvTypeOK == IInv => TypeOK
<1> SUFFICES ASSUME IInv PROVE TypeOK
  OBVIOUS
<1>1. list \in Seq(Entry) /\ writes \in Seq(Writes) /\ Len(writes) \in Nat
  BY DEF IInv, ListInv, ListOf, Carries
<1>2. Len(writes) <= MaxEntries /\ MaxEntries \in Nat
  BY BoundAssumption DEF IInv, ListInv
<1>3. 1 .. Len(writes) \subseteq Ids /\ 0 .. Len(writes) \subseteq Ids \union {Null}
      /\ 0 .. Len(writes) \subseteq 0 .. MaxEntries
  BY <1>1, <1>2 DEF Ids, Null
<1>4. current \in [Readers -> Ids \union {Null}] /\ known \in [Readers -> 0 .. MaxEntries]
  BY <1>3 DEF IInv, ReaderType
<1>5. passed \in [Readers -> Seq(Ids)]
  <2>1. ASSUME NEW q \in Seq(1 .. Len(writes)) PROVE q \in Seq(Ids)
    BY <1>3
  <2> QED BY <2>1 DEF IInv, ReaderType
<1> QED BY <1>1, <1>4, <1>5 DEF TypeOK, IInv, ReaderType, Entry, Writes

LEMMA IInvInit == Init => IInv
<1> SUFFICES ASSUME Init PROVE IInv
  OBVIOUS
<1>1. list = <<>> /\ writes = <<>>
  BY DEF Init, List!ListInit
<1>2. ListInv
  <2>1. Len(<<>>) = 0 /\ MaxEntries \in Nat /\ <<>> \in Seq(Entry) /\ <<>> \in Seq(Writes)
    BY BoundAssumption
  <2> QED BY <1>1, <2>1 DEF ListInv, ListOf, Carries, AllThere, InOrder
<1>3. ReaderType
  <2>1. Len(writes) = 0 /\ MaxSeeks \in Nat
    BY <1>1, BoundAssumption
  <2> QED BY <2>1 DEF Init, ReaderType, Null
<1>4. AtLast
  BY DEF Init, AtLast
<1> QED BY <1>2, <1>3, <1>4 DEF IInv


(* Only an insertion changes the list, and what was written stays.          *)
LEMMA WritesGrow ==
  ASSUME ListInv, NEW u \in UserKeys, NEW s \in SeqNos, NEW op \in WriteOps,
         Insert(u, s, op)
  PROVE  /\ Len(writes) \in Nat /\ Len(writes') = Len(writes) + 1
         /\ \A i \in 1 .. Len(writes) : writes'[i] = writes[i]
         /\ writes \in Seq(Writes) /\ writes' \in Seq(Writes)
         /\ writes' = Append(writes, [user |-> u, seq |-> s, op |-> op])
<1>1. writes \in Seq(Writes)
  BY DEF ListInv, ListOf, Carries
<1>2. [user |-> u, seq |-> s, op |-> op] \in Writes
  BY DEF Writes
<1>3. writes' = Append(writes, [user |-> u, seq |-> s, op |-> op])
  BY DEF Insert
<1> QED BY <1>1, <1>2, <1>3

(* An iterator is positioned at the entry at place i, or at none.           *)
LEMMA ArriveType ==
  ASSUME IInv, NEW r \in Readers, NEW i \in Nat, Arrive(r, NodeAt(i)),
         NEW t \in {NoTarget} \union [user : UserKeys, seq : SeqNos],
         target' = [target EXCEPT ![r] = t]
  PROVE  IInv'
<1>1. list' = list /\ writes' = writes
  BY DEF Arrive, table
<1>2. ListInv'
  BY <1>1 DEF IInv, ListInv
<1>3. PICK n \in 0 .. Len(writes) : n = NodeAt(i)
  BY NodeFacts DEF IInv
<1>4. Len(writes) \in Nat /\ MaxSeeks \in Nat
  BY NodeFacts, BoundAssumption DEF IInv
<1>5. PICK q : q = IF n = Null THEN <<>> ELSE <<n>>
  OBVIOUS
<1>6. q \in Seq(1 .. Len(writes)) /\ (n # Null => Len(q) > 0 /\ q[Len(q)] = n)
  <2>1. CASE n = Null
    BY <1>5, <2>1
  <2>2. CASE n # Null
    <3>1. n \in 1 .. Len(writes)
      BY <1>4, <2>2 DEF Null
    <3>2. q = <<n>>
      BY <1>5, <2>2
    <3> QED BY <3>1, <3>2
  <2> QED BY <2>1, <2>2
<1>7. /\ current' = [current EXCEPT ![r] = n] /\ passed' = [passed EXCEPT ![r] = q]
      /\ known' = [known EXCEPT ![r] = Len(writes)]
      /\ seeks[r] > 0 /\ seeks' = [seeks EXCEPT ![r] = @ - 1]
  BY <1>3, <1>5 DEF Arrive
<1>8. /\ current' \in [Readers -> 0 .. Len(writes')] /\ known' \in [Readers -> 0 .. Len(writes')]
  BY <1>1, <1>4, <1>7 DEF IInv, ReaderType
<1>9. passed' \in [Readers -> Seq(1 .. Len(writes'))]
  BY <1>1, <1>6, <1>7 DEF IInv, ReaderType
<1>10. seeks' \in [Readers -> 0 .. MaxSeeks]
  <2>1. seeks[r] \in 0 .. MaxSeeks /\ seeks \in [Readers -> 0 .. MaxSeeks]
    BY DEF IInv, ReaderType
  <2>2. seeks[r] - 1 \in 0 .. MaxSeeks
    BY <1>4, <1>7, <2>1
  <2> QED BY <1>7, <2>1, <2>2
<1>11. target' \in [Readers -> {NoTarget} \union [user : UserKeys, seq : SeqNos]]
  BY DEF IInv, ReaderType
<1>12. ReaderType'
  BY <1>8, <1>9, <1>10, <1>11 DEF ReaderType
<1>13. AtLast'
  <2> SUFFICES ASSUME NEW p \in Readers, current'[p] # Null
               PROVE  Len(passed'[p]) > 0 /\ passed'[p][Len(passed'[p])] = current'[p]
    BY DEF AtLast
  <2>1. CASE p = r
    BY <1>6, <1>7, <2>1 DEF IInv, ReaderType
  <2>2. CASE p # r
    <3>1. current'[p] = current[p] /\ passed'[p] = passed[p]
      BY <1>7, <2>2 DEF IInv, ReaderType
    <3> QED BY <3>1 DEF IInv, AtLast
  <2> QED BY <2>1, <2>2
<1> QED BY <1>2, <1>12, <1>13 DEF IInv

(* The place of the entry an iterator is at.                                *)
LEMMA PlaceOf ==
  ASSUME ListInv, NEW n \in 1 .. Len(writes)
  PROVE  IndexOf(n) \in 1 .. Len(list) /\ list[IndexOf(n)].id = n
<1>1. DOMAIN list = 1 .. Len(list)
  BY DEF ListInv, ListOf, Carries
<1>2. \E x \in DOMAIN list : list[x].id = n
  BY <1>1 DEF ListInv, ListOf, AllThere
<1> QED BY <1>1, <1>2 DEF IndexOf

LEMMA NextItemType ==
  ASSUME IInv, NEW r \in Readers, NextItem(r)
  PROVE  IInv'
<1>1. list' = list /\ writes' = writes /\ seeks' = seeks /\ target' = target /\ known' = known
  BY DEF NextItem, table
<1>2. ListInv'
  BY <1>1 DEF IInv, ListInv
<1>3. Len(writes) \in Nat /\ Len(writes) = Len(list)
  BY NodeFacts DEF IInv
<1>4. current[r] \in 1 .. Len(writes)
  <2>1. current[r] \in 0 .. Len(writes) /\ current[r] # Null
    BY DEF IInv, ReaderType, NextItem
  <2> QED BY <1>3, <2>1 DEF Null
<1>5. IndexOf(current[r]) + 1 \in Nat
  <2>1. IndexOf(current[r]) \in 1 .. Len(list)
    BY <1>4, PlaceOf DEF IInv
  <2> QED BY <1>3, <2>1
<1>6. PICK n \in 0 .. Len(writes) : n = Successor(current[r])
  BY <1>5, NodeFacts DEF IInv, Successor
<1>7. PICK q : q = passed[r]
  OBVIOUS
<1>8. q \in Seq(1 .. Len(writes))
  BY <1>7 DEF IInv, ReaderType
<1>9. PICK p : p = IF n = Null THEN q ELSE Append(q, n)
  OBVIOUS
<1>10. p \in Seq(1 .. Len(writes)) /\ (n # Null => Len(p) > 0 /\ p[Len(p)] = n)
  <2>1. CASE n = Null
    BY <1>8, <1>9, <2>1
  <2>2. CASE n # Null
    <3>1. n \in 1 .. Len(writes)
      BY <1>3, <2>2 DEF Null
    <3>2. p = Append(q, n)
      BY <1>9, <2>2
    <3> QED BY <1>8, <3>1, <3>2
  <2> QED BY <2>1, <2>2
<1>11. current' = [current EXCEPT ![r] = n] /\ passed' = [passed EXCEPT ![r] = p]
  BY <1>6, <1>7, <1>9 DEF NextItem
<1>12. ReaderType'
  <2>1. current' \in [Readers -> 0 .. Len(writes')]
    BY <1>1, <1>11 DEF IInv, ReaderType
  <2>2. passed' \in [Readers -> Seq(1 .. Len(writes'))]
    BY <1>1, <1>10, <1>11 DEF IInv, ReaderType
  <2> QED BY <1>1, <2>1, <2>2 DEF IInv, ReaderType
<1>13. AtLast'
  <2> SUFFICES ASSUME NEW o \in Readers, current'[o] # Null
               PROVE  Len(passed'[o]) > 0 /\ passed'[o][Len(passed'[o])] = current'[o]
    BY DEF AtLast
  <2>1. CASE o = r
    BY <1>10, <1>11, <2>1 DEF IInv, ReaderType
  <2>2. CASE o # r
    <3>1. current'[o] = current[o] /\ passed'[o] = passed[o]
      BY <1>11, <2>2 DEF IInv, ReaderType
    <3> QED BY <3>1 DEF IInv, AtLast
  <2> QED BY <2>1, <2>2
<1> QED BY <1>2, <1>12, <1>13 DEF IInv

LEMMA FirstGEType ==
  ASSUME ListInv, NEW k PROVE FirstGE(k) = FirstIn(list, k) /\ FirstGE(k) \in 0 .. Len(list)
<1>1. FirstGE(k) = FirstIn(list, k)
  BY Zenon DEF FirstGE, FirstIn
<1>2. Len(list) \in Nat
  BY ListFacts DEF ListInv, ListOf
<1> QED BY <1>1, <1>2, FirstInFacts

LEMMA IInvNext == IInv /\ [Next]_vars => IInv'
<1> SUFFICES ASSUME IInv, [Next]_vars PROVE IInv'
  OBVIOUS
<1>1. ASSUME NEW u \in UserKeys, NEW s \in SeqNos, NEW op \in WriteOps, Insert(u, s, op)
      PROVE  IInv'
  <2>1. ListInv'
    BY <1>1, InsertStep DEF IInv
  <2>2. Len(writes) \in Nat /\ Len(writes') = Len(writes) + 1
    BY <1>1, WritesGrow DEF IInv
  <2>3. /\ current' = current /\ seeks' = seeks /\ target' = target
        /\ known' = known /\ passed' = passed
    BY <1>1 DEF Insert
  <2>4. 0 .. Len(writes) \subseteq 0 .. Len(writes') /\ 1 .. Len(writes) \subseteq 1 .. Len(writes')
    BY <2>2
  <2>5. ASSUME NEW q \in Seq(1 .. Len(writes)) PROVE q \in Seq(1 .. Len(writes'))
    <3>1. PICK A, B : A = 1 .. Len(writes) /\ B = 1 .. Len(writes')
      OBVIOUS
    <3>2. A \subseteq B /\ q \in Seq(A)
      BY <2>4, <3>1
    <3>3. q \in Seq(B)
      BY <3>2
    <3> QED BY <3>1, <3>3
  <2>6. ReaderType'
    BY <2>3, <2>4, <2>5 DEF IInv, ReaderType
  <2>7. AtLast'
    BY <2>3 DEF IInv, AtLast
  <2> QED BY <2>1, <2>6, <2>7 DEF IInv
<1>2. ASSUME NEW r \in Readers, SeekToFirst(r) PROVE IInv'
  BY <1>2, ArriveType DEF SeekToFirst
<1>3. ASSUME NEW r \in Readers, NEW u \in UserKeys, NEW s \in SeqNos, Seek(r, u, s) PROVE IInv'
  <2>1. FirstGE(Lookup(u, s)) \in Nat
    <3>1. Len(list) \in Nat /\ FirstGE(Lookup(u, s)) \in 0 .. Len(list)
      BY FirstGEType, NodeFacts DEF IInv
    <3> QED BY <3>1
  <2>2. [user |-> u, seq |-> s] \in {NoTarget} \union [user : UserKeys, seq : SeqNos]
    OBVIOUS
  <2>3. PICK t \in {NoTarget} \union [user : UserKeys, seq : SeqNos] :
          t = [user |-> u, seq |-> s]
    BY <2>2
  <2> QED BY <1>3, <2>1, <2>3, ArriveType DEF Seek
<1>4. ASSUME NEW r \in Readers, NextItem(r) PROVE IInv'
  BY <1>4, NextItemType
<1>5. CASE UNCHANGED vars
  <2>1. ListInv' /\ ReaderType' /\ AtLast'
    BY <1>5 DEF vars, IInv, ListInv, ReaderType, AtLast
  <2> QED BY <2>1 DEF IInv
<1> QED BY <1>1, <1>2, <1>3, <1>4, <1>5 DEF Next

(* The list always holds the key of every write once, sorted by user key,   *)
(* then newest first; and the iterators are at entries of it.               *)
THEOREM MemtableInvariance == Spec => []IInv
  BY IInvInit, IInvNext, PTL DEF Spec

(* Every variable keeps its type; in particular, every key in the list fits *)
(* the width of its trailer.                                                *)
THEOREM MemtableTypeOK == Spec => []TypeOK
  BY MemtableInvariance, IInvTypeOK, PTL

-----------------------------------------------------------------------------
(* Reads                                                                    *)

(* What a read of u in snapshot s sees of the writes W, the newest of it,   *)
(* and what the read has to return then.                                    *)
Visible(W, u, s) == {i \in DOMAIN W : W[i].user = u /\ W[i].seq <= s}

IsNewest(W, u, s, n) ==
  /\ n \in Visible(W, u, s)
  /\ \A j \in Visible(W, u, s) : j # n => NewerBy(W[n], n, W[j], j)

Answer(W, n) ==
  [kind |-> CASE W[n].op = "Put"    -> "Value"
              [] W[n].op = "Delete" -> "Deleted"
              [] W[n].op = "Merge"  -> "Merge",
   id   |-> n]

ExpectedBy(W, u, s) ==
  LET visible == {i \in DOMAIN W : W[i].user = u /\ W[i].seq <= s}
      newest  == CHOOSE i \in visible : \A j \in visible \ {i} : NewerBy(W[i], i, W[j], j)
  IN  IF visible = {} THEN NotFound
      ELSE [kind |-> CASE W[newest].op = "Put"    -> "Value"
                       [] W[newest].op = "Delete" -> "Deleted"
                       [] W[newest].op = "Merge"  -> "Merge",
            id   |-> newest]

(* The newest visible write is unique, so it is the one that is chosen.     *)
LEMMA NewestIsExpected ==
  ASSUME NEW W \in Seq(Writes), NEW u, NEW s, NEW n, IsNewest(W, u, s, n)
  PROVE  ExpectedBy(W, u, s) = Answer(W, n)
<1> DEFINE V == {i \in DOMAIN W : W[i].user = u /\ W[i].seq <= s}
<1> DEFINE Best(i) == \A j \in V \ {i} : NewerBy(W[i], i, W[j], j)
<1>1. V = Visible(W, u, s)
  BY DEF Visible
<1>2. n \in V /\ Best(n)
  BY <1>1 DEF IsNewest
<1>3. \A i \in V : W[i] \in Writes /\ i \in Nat /\ W[i].user = u
  OBVIOUS
<1>4. ASSUME NEW i \in V, Best(i) PROVE i = n
  <2>1. SUFFICES ASSUME i # n PROVE FALSE
    OBVIOUS
  <2>2. NewerBy(W[i], i, W[n], n) /\ NewerBy(W[n], n, W[i], i)
    BY <1>2, <1>4, <2>1
  <2>3. OrderBy(W[i], i, W[n], n) /\ OrderBy(W[n], n, W[i], i)
    BY <1>2, <1>3, <2>2 DEF OrderBy
  <2> QED BY <1>2, <1>3, <2>3, OrderAsym
<1>5. PICK c : c = CHOOSE i \in V : Best(i)
  OBVIOUS
<1>6. c = n
  <2> HIDE DEF V, Best
  <2> QED BY <1>2, <1>4, <1>5
<1>7. ExpectedBy(W, u, s) =
        IF V = {} THEN NotFound
        ELSE [kind |-> CASE W[c].op = "Put"    -> "Value"
                         [] W[c].op = "Delete" -> "Deleted"
                         [] W[c].op = "Merge"  -> "Merge",
              id   |-> c]
  BY <1>5, Zenon DEF ExpectedBy
<1>8. V # {}
  BY <1>2
<1> QED BY <1>6, <1>7, <1>8, Zenon DEF Answer

(* The lookup leads to the newest visible version, or past all of them: the *)
(* entry it leads to is visible if it has the user key of the lookup, and   *)
(* whatever else is visible comes behind it in the list.                    *)
LEMMA LookupLeads ==
  ASSUME NEW L, NEW W, ListOf(L, W), NEW u \in UserKeys, NEW s \in SeqNos,
         NEW i, i = FirstIn(L, Lookup(u, s))
  PROVE  \/ i = 0 /\ Visible(W, u, s) = {}
         \/ /\ i \in 1 .. Len(L) /\ L[i].key.user # u /\ Visible(W, u, s) = {}
         \/ /\ i \in 1 .. Len(L) /\ L[i].key.user = u /\ IsNewest(W, u, s, L[i].id)
<1>1. /\ Len(L) \in Nat /\ Len(W) = Len(L) /\ W \in Seq(Writes) /\ DOMAIN W = 1 .. Len(L)
      /\ \A x \in 1 .. Len(L) :
           /\ L[x].id \in 1 .. Len(L) /\ L[x].id \in Nat
           /\ W[L[x].id] \in Writes /\ L[x].key = KeyOf(W[L[x].id])
  BY ListFacts DEF ListOf, Carries
<1>2. u \in Nat /\ s \in Nat
  BY KeyAssumption, SeqAssumption
<1>3. \A x \in 1 .. Len(L) :
        /\ L[x].key.user = W[L[x].id].user
        /\ W[L[x].id].user \in Nat /\ W[L[x].id].seq \in Nat
        /\ ~KeyLess(L[x].key, Lookup(u, s)) <=>
             W[L[x].id].user > u \/ (W[L[x].id].user = u /\ W[L[x].id].seq <= s)
  BY <1>1, KeyOfType, LookupFacts
<1>4. ASSUME NEW j \in Visible(W, u, s)
      PROVE  \E x \in 1 .. Len(L) : L[x].id = j /\ ~KeyLess(L[x].key, Lookup(u, s))
  <2>1. j \in 1 .. Len(W) /\ W[j].user = u /\ W[j].seq <= s
    BY <1>1 DEF Visible
  <2>2. PICK x \in 1 .. Len(L) : L[x].id = j
    BY <2>1 DEF ListOf, AllThere
  <2> QED BY <1>3, <2>1, <2>2
<1>5. CASE i = 0 /\ \A x \in 1 .. Len(L) : KeyLess(L[x].key, Lookup(u, s))
  BY <1>4, <1>5
<1>6. CASE /\ i \in 1 .. Len(L) /\ ~KeyLess(L[i].key, Lookup(u, s))
           /\ \A x \in 1 .. Len(L) : x < i => KeyLess(L[x].key, Lookup(u, s))
  <2>1. ASSUME NEW j \in Visible(W, u, s), j # L[i].id
        PROVE  OrderBy(W[L[i].id], L[i].id, W[j], j)
    <3>1. PICK x \in 1 .. Len(L) : L[x].id = j /\ ~KeyLess(L[x].key, Lookup(u, s))
      BY <1>4
    <3>2. x # i /\ ~(x < i)
      BY <1>6, <2>1, <3>1
    <3>3. i < x
      BY <1>1, <1>6, <3>2
    <3> QED BY <1>6, <3>1, <3>3 DEF ListOf, InOrder
  <2>2. PICK a \in Writes : a = W[L[i].id]
    BY <1>1, <1>6
  <2>3. /\ a.user \in Nat /\ a.user = L[i].key.user
        /\ a.user > u \/ (a.user = u /\ a.seq <= s)
    BY <1>3, <1>6, <2>2
  <2>4. CASE L[i].key.user = u
    <3>1. L[i].id \in Visible(W, u, s)
      BY <1>1, <1>2, <1>6, <2>2, <2>3, <2>4 DEF Visible
    <3>2. ASSUME NEW j \in Visible(W, u, s), j # L[i].id
          PROVE  NewerBy(W[L[i].id], L[i].id, W[j], j)
      <4>1. OrderBy(W[L[i].id], L[i].id, W[j], j) /\ W[j].user = u
        BY <2>1, <3>2 DEF Visible
      <4> QED BY <1>2, <2>2, <2>3, <2>4, <4>1 DEF OrderBy
    <3> QED BY <1>6, <2>4, <3>1, <3>2 DEF IsNewest
  <2>5. CASE L[i].key.user # u
    <3>1. ASSUME NEW j \in Visible(W, u, s) PROVE FALSE
      <4>1. W[j].user = u /\ j # L[i].id
        BY <2>2, <2>3, <2>5 DEF Visible
      <4>2. OrderBy(W[L[i].id], L[i].id, W[j], j)
        BY <2>1, <4>1
      <4> QED BY <1>2, <2>2, <2>3, <2>5, <4>1, <4>2 DEF OrderBy
    <3> QED BY <1>6, <2>5, <3>1
  <2> QED BY <2>4, <2>5
<1> QED BY <1>1, <1>5, <1>6, FirstInFacts


(* `get` by the place the lookup leads to.                                  *)
LEMMA GetByPlace ==
  ASSUME ListInv, NEW u \in UserKeys, NEW s \in SeqNos
  PROVE  Get(Lookup(u, s)) = Expected(u, s)
<1>1. PICK i : i = FirstGE(Lookup(u, s))
  OBVIOUS
<1>2. i = FirstIn(list, Lookup(u, s))
  BY <1>1, FirstGEType
<1>3. Expected(u, s) = ExpectedBy(writes, u, s)
  BY Zenon DEF Expected, ExpectedBy, Newer, NewerBy
<1>4. /\ writes \in Seq(Writes)
      /\ \A x \in 1 .. Len(list) :
           /\ writes[list[x].id] \in Writes
           /\ list[x].key = KeyOf(writes[list[x].id])
  BY ListFacts DEF ListInv, ListOf, Carries
<1>5. Lookup(u, s).user = u
  BY DEF Lookup, Encode
<1>6. Get(Lookup(u, s)) =
        IF i = 0 THEN NotFound
        ELSE IF list[i].key.user # u THEN NotFound
        ELSE MemReturnOf(list[i])
  BY <1>1, <1>5, Zenon DEF Get
<1>7. Visible(writes, u, s) = {} => ExpectedBy(writes, u, s) = NotFound
  BY Zenon DEF Visible, ExpectedBy
<1>8. CASE i = 0 /\ Visible(writes, u, s) = {}
  BY <1>3, <1>6, <1>7, <1>8
<1>9. CASE i \in 1 .. Len(list) /\ list[i].key.user # u /\ Visible(writes, u, s) = {}
  BY <1>3, <1>6, <1>7, <1>9
<1>10. CASE i \in 1 .. Len(list) /\ list[i].key.user = u /\ IsNewest(writes, u, s, list[i].id)
  <2>1. PICK n : n = list[i].id
    OBVIOUS
  <2>2. Expected(u, s) = Answer(writes, n)
    BY <1>3, <1>4, <1>10, <2>1, NewestIsExpected
  <2>3. OpOf(list[i].key.trailer) = writes[n].op
    BY <1>4, <1>10, <2>1, OpComesBack
  <2>4. MemReturnOf(list[i]) = Answer(writes, n)
    BY <2>1, <2>3, Zenon DEF MemReturnOf, Answer
  <2>5. Len(list) \in Nat
    BY ListFacts DEF ListInv, ListOf
  <2>6. i # 0
    BY <1>10, <2>5
  <2> QED BY <1>6, <1>10, <2>2, <2>4, <2>6
<1> QED BY <1>2, <1>8, <1>9, <1>10, LookupLeads DEF ListInv

(* `get` returns the newest version visible in its snapshot, in whatever    *)
(* order the writes of different sequence numbers reached the list, and     *)
(* never a version of another key.                                          *)
THEOREM GetReadsTheSnapshot == Spec => []GetIsSnapshotRead
<1>1. IInv => GetIsSnapshotRead
  BY GetByPlace DEF IInv, GetIsSnapshotRead
<1> QED BY <1>1, MemtableInvariance, PTL

(* A write with a sequence number above the snapshot is not visible in it,  *)
(* and what is visible keeps its order.                                     *)
LEMMA InvisibleWrite ==
  ASSUME NEW L, NEW W, ListOf(L, W), NEW u \in UserKeys, NEW s \in SeqNos,
         NEW w \in Writes, w.seq > s
  PROVE  ExpectedBy(Append(W, w), u, s) = ExpectedBy(W, u, s)
<1>1. PICK W2 : W2 = Append(W, w)
  OBVIOUS
<1>2. W \in Seq(Writes) /\ Len(W) \in Nat
  BY DEF ListOf, Carries
<1>3. /\ W2 \in Seq(Writes) /\ DOMAIN W2 = 1 .. Len(W) + 1 /\ DOMAIN W = 1 .. Len(W)
      /\ W2[Len(W) + 1] = w /\ \A i \in 1 .. Len(W) : W2[i] = W[i]
  BY <1>1, <1>2
<1>4. ~(w.seq <= s)
  <2>1. w.seq \in Nat /\ s \in Nat
    BY KeyOfType, SeqAssumption
  <2> QED BY <2>1
<1>5. Visible(W2, u, s) = Visible(W, u, s)
  <2>1. ASSUME NEW i \in Visible(W2, u, s) PROVE i \in Visible(W, u, s)
    <3>1. i \in 1 .. Len(W) + 1 /\ W2[i].user = u /\ W2[i].seq <= s
      BY <1>3 DEF Visible
    <3>2. i # Len(W) + 1
      BY <1>3, <1>4, <3>1
    <3>3. i \in 1 .. Len(W)
      BY <1>2, <3>1, <3>2
    <3> QED BY <1>3, <3>1, <3>3 DEF Visible
  <2>2. ASSUME NEW i \in Visible(W, u, s) PROVE i \in Visible(W2, u, s)
    <3>1. i \in 1 .. Len(W) /\ i \in 1 .. Len(W) + 1 /\ W[i].user = u /\ W[i].seq <= s
      BY <1>2, <1>3 DEF Visible
    <3> QED BY <1>3, <3>1 DEF Visible
  <2> QED BY <2>1, <2>2
<1>6. CASE Visible(W, u, s) = {}
  <2>1. ExpectedBy(W, u, s) = NotFound
    BY <1>6, Zenon DEF Visible, ExpectedBy
  <2>2. ExpectedBy(W2, u, s) = NotFound
    BY <1>5, <1>6, Zenon DEF Visible, ExpectedBy
  <2> QED BY <1>1, <2>1, <2>2
<1>7. CASE Visible(W, u, s) # {}
  <2>1. PICK n : IsNewest(W, u, s, n)
    <3>1. PICK i : i = FirstIn(L, Lookup(u, s))
      OBVIOUS
    <3> QED BY <1>7, <3>1, LookupLeads
  <2>2. \A i \in Visible(W, u, s) : W2[i] = W[i]
    BY <1>3 DEF Visible
  <2>3. n \in Visible(W, u, s) /\ W2[n] = W[n]
    BY <2>1, <2>2 DEF IsNewest
  <2>4. IsNewest(W2, u, s, n)
    BY <1>5, <2>1, <2>2, <2>3, Zenon DEF IsNewest
  <2>5. ExpectedBy(W, u, s) = Answer(W, n)
    BY <1>2, <2>1, NewestIsExpected
  <2>6. ExpectedBy(W2, u, s) = Answer(W2, n)
    BY <1>3, <2>4, NewestIsExpected
  <2>7. Answer(W2, n) = Answer(W, n)
    BY <2>3, Zenon DEF Answer
  <2> QED BY <1>1, <2>5, <2>6, <2>7
<1> QED BY <1>6, <1>7

(* Reads are repeatable: an insertion with a sequence number above a        *)
(* snapshot changes no read in that snapshot.                               *)
THEOREM SnapshotsAreStable == Spec => ReadsAreRepeatable
<1> DEFINE A == \A u \in UserKeys, s \in SeqNos :
                  (writes' # writes /\ Last(writes').seq > s) =>
                    Get(Lookup(u, s))' = Get(Lookup(u, s))
<1>1. IInv /\ GetIsSnapshotRead /\ GetIsSnapshotRead' /\ [Next]_vars => [A]_vars
  <2> SUFFICES ASSUME IInv, GetIsSnapshotRead, GetIsSnapshotRead', [Next]_vars,
                      NEW u \in UserKeys, NEW s \in SeqNos,
                      writes' # writes, Last(writes').seq > s
               PROVE  Get(Lookup(u, s))' = Get(Lookup(u, s))
    OBVIOUS
  <2>1. PICK v \in UserKeys, t \in SeqNos, op \in WriteOps : Insert(v, t, op)
    BY DEF Next, vars, SeekToFirst, Seek, Arrive, NextItem, table
  <2>2. PICK w \in Writes : w = [user |-> v, seq |-> t, op |-> op]
    BY DEF Writes
  <2>3. writes' = Append(writes, w) /\ writes \in Seq(Writes)
    BY <2>1, <2>2, WritesGrow DEF IInv
  <2>4. w.seq > s
    <3>1. Last(writes') = w
      BY <2>3 DEF Last
    <3> QED BY <3>1
  <2>5. ExpectedBy(writes', u, s) = ExpectedBy(writes, u, s)
    BY <2>3, <2>4, InvisibleWrite DEF IInv, ListInv
  <2>6. Expected(u, s) = ExpectedBy(writes, u, s)
    BY Zenon DEF Expected, ExpectedBy, Newer, NewerBy
  <2>7. Expected(u, s)' = ExpectedBy(writes', u, s)
    BY Zenon DEF Expected, ExpectedBy, Newer, NewerBy
  <2>8. Get(Lookup(u, s)) = Expected(u, s) /\ Get(Lookup(u, s))' = Expected(u, s)'
    BY DEF GetIsSnapshotRead
  <2> QED BY <2>5, <2>6, <2>7, <2>8
<1> QED BY <1>1, MemtableInvariance, GetReadsTheSnapshot, PTL DEF Spec, ReadsAreRepeatable

-----------------------------------------------------------------------------
(* Iterators                                                                *)

(* What lies behind what is behind a target is behind it too.               *)
LEMMA StaysBehind ==
  ASSUME NEW a \in Writes, NEW b \in Writes, NEW i, NEW j, OrderBy(a, i, b, j),
         NEW t, t.user \in Int, t.seq \in Int,
         a.user > t.user \/ (a.user = t.user /\ a.seq <= t.seq)
  PROVE  b.user > t.user \/ (b.user = t.user /\ b.seq <= t.seq)
<1>1. a.user \in Nat /\ a.seq \in Nat /\ b.user \in Nat /\ b.seq \in Nat
  BY KeyOfType
<1> QED BY <1>1 DEF OrderBy, NewerBy

(* Everything in front of the entry at place i + 1, or everything when      *)
(* there is none, is at one of the first i places.                          *)
LEMMA InFront ==
  ASSUME ListInv, NEW i \in 0 .. Len(list), NEW m \in 1 .. Len(writes),
         NodeAt(i + 1) # Null => Precedes(m, NodeAt(i + 1))
  PROVE  \E x \in 1 .. i : list[x].id = m
<1>1. /\ Len(list) \in Nat /\ Len(writes) = Len(list)
      /\ \A x \in 1 .. Len(list) : list[x].id \in Nat /\ writes[list[x].id] \in Writes
  BY ListFacts DEF ListInv, ListOf
<1>2. PICK x \in 1 .. Len(list) : list[x].id = m
  BY DEF ListInv, ListOf, AllThere
<1>3. CASE x <= i
  BY <1>1, <1>2, <1>3
<1>4. CASE x > i
  <2>1. i + 1 \in Nat /\ i + 1 \in 1 .. Len(list) /\ i + 1 <= x
    BY <1>1, <1>4
  <2>2. PICK n : n = list[i + 1].id
    OBVIOUS
  <2>3. NodeAt(i + 1) = n /\ n \in 1 .. Len(writes)
    BY <2>1, <2>2, NodeFacts
  <2>4. NodeAt(i + 1) # Null
    BY <1>1, <2>3 DEF Null
  <2>5. OrderBy(writes[m], m, writes[n], n)
    BY <2>3, <2>4 DEF Precedes, Newer, OrderBy, NewerBy
  <2>6. /\ writes[m] \in Writes /\ writes[n] \in Writes /\ m \in Nat /\ n \in Nat
    BY <1>1, <1>2, <2>1, <2>2
  <2>7. ~OrderBy(writes[n], n, writes[m], m)
    BY <2>5, <2>6, OrderAsym
  <2>8. CASE x = i + 1
    <3>1. m = n
      BY <1>2, <2>2, <2>8
    <3> QED BY <2>5, <2>7, <3>1
  <2>9. CASE i + 1 < x
    <3>1. OrderBy(writes[n], n, writes[m], m)
      BY <1>2, <2>1, <2>2, <2>9 DEF ListInv, ListOf, InOrder
    <3> QED BY <2>7, <3>1
  <2>10. x = i + 1 \/ i + 1 < x
    BY <1>1, <2>1
  <2> QED BY <2>8, <2>9, <2>10
<1>5. x <= i \/ x > i
  BY <1>1, <1>2
<1> QED BY <1>3, <1>4, <1>5

(* The parts of IterationIsComplete for one iterator: the nodes q it        *)
(* passed, the node c it is at, its target t and what was there.            *)
Forward(W, q) ==
  \A i \in 1 .. Len(q) - 1 : OrderBy(W[q[i]], q[i], W[q[i + 1]], q[i + 1])

Behind(W, t, n) ==
  W[n].user > t.user \/ (W[n].user = t.user /\ W[n].seq <= t.seq)

FromTarget(W, q, t) == \A i \in DOMAIN q : Behind(W, t, q[i])

NothingMissed(W, q, t, c, k) ==
  \A n \in 1 .. k :
    Behind(W, t, n) /\ (c # Null => OrderBy(W[n], n, W[c], c)) => n \in ToSet(q)

Complete(W, q, t, c, k) ==
  Forward(W, q) /\ FromTarget(W, q, t) /\ NothingMissed(W, q, t, c, k)

LEMMA CompleteParts ==
  IterationIsComplete <=>
    \A r \in Readers : Complete(writes, passed[r], target[r], current[r], known[r])
<1>1. \A i, j : Precedes(i, j) <=> OrderBy(writes[i], i, writes[j], j)
  BY Zenon DEF Precedes, Newer, OrderBy, NewerBy
<1>2. \A r, n : BehindTarget(r, n) <=> Behind(writes, target[r], n)
  BY Zenon DEF BehindTarget, Behind
<1>3. \A r, n : Overtaken(r, n) <=>
        (current[r] # Null => OrderBy(writes[n], n, writes[current[r]], current[r]))
  BY <1>1, Zenon DEF Overtaken
<1>4. ASSUME NEW r \in Readers
      PROVE  (LET seen == passed[r] IN
                /\ \A i \in 1 .. Len(seen) - 1 : Precedes(seen[i], seen[i + 1])
                /\ \A i \in DOMAIN seen : BehindTarget(r, seen[i])
                /\ \A n \in 1 .. known[r] :
                     BehindTarget(r, n) /\ Overtaken(r, n) => n \in ToSet(seen))
             <=> Complete(writes, passed[r], target[r], current[r], known[r])
  <2>1. Forward(writes, passed[r]) <=>
          \A i \in 1 .. Len(passed[r]) - 1 : Precedes(passed[r][i], passed[r][i + 1])
    BY <1>1, Zenon DEF Forward
  <2>2. FromTarget(writes, passed[r], target[r]) <=>
          \A i \in DOMAIN passed[r] : BehindTarget(r, passed[r][i])
    BY <1>2, Zenon DEF FromTarget
  <2>3. NothingMissed(writes, passed[r], target[r], current[r], known[r]) <=>
          \A n \in 1 .. known[r] :
            BehindTarget(r, n) /\ Overtaken(r, n) => n \in ToSet(passed[r])
    BY <1>2, <1>3, Zenon DEF NothingMissed
  <2> QED BY <2>1, <2>2, <2>3, Zenon DEF Complete
<1> QED BY <1>4, Zenon DEF IterationIsComplete

(* Insertions do not change what the parts say.                             *)
LEMMA CompleteGrows ==
  ASSUME NEW W, NEW W2, NEW N \in Nat, \A i \in 1 .. N : W2[i] = W[i],
         NEW q \in Seq(1 .. N), NEW t, NEW c \in 0 .. N, NEW k \in 0 .. N,
         Complete(W, q, t, c, k)
  PROVE  Complete(W2, q, t, c, k)
<1>1. Forward(W2, q)
  <2>1. ASSUME NEW i \in 1 .. Len(q) - 1
        PROVE  OrderBy(W2[q[i]], q[i], W2[q[i + 1]], q[i + 1])
    <3>1. q[i] \in 1 .. N /\ q[i + 1] \in 1 .. N
      OBVIOUS
    <3>2. W2[q[i]] = W[q[i]] /\ W2[q[i + 1]] = W[q[i + 1]]
      BY <3>1
    <3> QED BY <3>2 DEF Complete, Forward
  <2> QED BY <2>1 DEF Forward
<1>2. FromTarget(W2, q, t)
  <2>1. ASSUME NEW i \in DOMAIN q PROVE Behind(W2, t, q[i])
    <3>1. q[i] \in 1 .. N
      OBVIOUS
    <3>2. W2[q[i]] = W[q[i]]
      BY <3>1
    <3> QED BY <3>2 DEF Complete, FromTarget, Behind
  <2> QED BY <2>1 DEF FromTarget
<1>3. NothingMissed(W2, q, t, c, k)
  <2> SUFFICES ASSUME NEW n \in 1 .. k, Behind(W2, t, n),
                      c # Null => OrderBy(W2[n], n, W2[c], c)
               PROVE  n \in ToSet(q)
    BY DEF NothingMissed
  <2>1. W2[n] = W[n] /\ (c # Null => W2[c] = W[c])
    BY DEF Null
  <2>2. Behind(W, t, n) /\ (c # Null => OrderBy(W[n], n, W[c], c))
    BY <2>1 DEF Behind
  <2> QED BY <2>2 DEF Complete, NothingMissed
<1> QED BY <1>1, <1>2, <1>3 DEF Complete


(* An iterator that is positioned at the entry at place i + 1: all that is  *)
(* in front of it was not behind the target.                                *)
LEMMA ArriveCompletes ==
  ASSUME IInv, NEW r \in Readers, NEW i \in 0 .. Len(list), NEW n, n = NodeAt(i + 1),
         NEW t,
         \A x \in 1 .. i : ~Behind(writes, t, list[x].id),
         n # Null => Behind(writes, t, n)
  PROVE  Complete(writes, IF n = Null THEN <<>> ELSE <<n>>, t, n, Len(writes))
<1>1. PICK q : q = IF n = Null THEN <<>> ELSE <<n>>
  OBVIOUS
<1>2. CASE n = Null
  <2>1. q = <<>>
    BY <1>1, <1>2
  <2>2. Forward(writes, q) /\ FromTarget(writes, q, t)
    BY <2>1 DEF Forward, FromTarget
  <2>3. NothingMissed(writes, q, t, n, Len(writes))
    <3>1. ASSUME NEW m \in 1 .. Len(writes), Behind(writes, t, m) PROVE FALSE
      <4>1. \E x \in 1 .. i : list[x].id = m
        BY <1>2, InFront DEF IInv
      <4> QED BY <3>1, <4>1
    <3> QED BY <3>1 DEF NothingMissed
  <2> QED BY <1>1, <2>2, <2>3 DEF Complete
<1>3. CASE n # Null
  <2>1. q = <<n>>
    BY <1>1, <1>3
  <2>2. Forward(writes, q) /\ FromTarget(writes, q, t)
    <3>1. Len(q) = 1 /\ q[1] = n /\ DOMAIN q = {1}
      BY <2>1
    <3>2. 1 .. Len(q) - 1 = {}
      BY <3>1
    <3> QED BY <1>3, <3>1, <3>2 DEF Forward, FromTarget
  <2>3. NothingMissed(writes, q, t, n, Len(writes))
    <3>1. ASSUME NEW m \in 1 .. Len(writes), Behind(writes, t, m),
                 OrderBy(writes[m], m, writes[n], n)
          PROVE  FALSE
      <4>1. Precedes(m, NodeAt(i + 1))
        BY <3>1 DEF Precedes, Newer, OrderBy, NewerBy
      <4>2. \E x \in 1 .. i : list[x].id = m
        BY <4>1, InFront DEF IInv
      <4> QED BY <3>1, <4>2
    <3> QED BY <1>3, <3>1 DEF NothingMissed
  <2> QED BY <1>1, <2>2, <2>3 DEF Complete
<1> QED BY <1>2, <1>3

(* An iterator that goes on from the entry at place i.                      *)
LEMMA NextCompletes ==
  ASSUME IInv, NEW i \in 1 .. Len(list), NEW c, c = list[i].id,
         NEW n, n = NodeAt(i + 1), NEW k \in 0 .. Len(writes),
         NEW t, t.user \in Int, t.seq \in Int,
         NEW q \in Seq(1 .. Len(writes)), Len(q) > 0, q[Len(q)] = c,
         Complete(writes, q, t, c, k)
  PROVE  Complete(writes, IF n = Null THEN q ELSE Append(q, n), t, n, k)
<1>1. /\ Len(list) \in Nat /\ Len(writes) = Len(list) /\ c \in 1 .. Len(writes)
      /\ writes[c] \in Writes
      /\ \A x \in 1 .. Len(list) : list[x].id \in Nat /\ writes[list[x].id] \in Writes
  BY ListFacts DEF IInv, ListInv, ListOf
<1>2. c # Null /\ Len(q) \in DOMAIN q /\ DOMAIN q = 1 .. Len(q) /\ Len(q) \in Nat
  BY <1>1 DEF Null
<1>3. c \in ToSet(q)
  BY <1>2 DEF ToSet
<1>4. ASSUME NEW m \in 1 .. k, Behind(writes, t, m),
             n # Null => OrderBy(writes[m], m, writes[n], n)
      PROVE  m \in ToSet(q)
  <2>1. m \in 1 .. Len(writes) /\ i \in 0 .. Len(list)
    BY <1>1
  <2>2. NodeAt(i + 1) # Null => Precedes(m, NodeAt(i + 1))
    BY <1>4 DEF Precedes, Newer, OrderBy, NewerBy
  <2>3. PICK x \in 1 .. i : list[x].id = m
    BY <2>1, <2>2, InFront DEF IInv
  <2>4. CASE x = i
    BY <1>3, <2>3, <2>4
  <2>5. CASE x < i
    <3>1. x \in 1 .. Len(list)
      BY <1>1
    <3>2. OrderBy(writes[m], m, writes[c], c)
      BY <2>3, <2>5, <3>1 DEF IInv, ListInv, ListOf, InOrder
    <3> QED BY <1>4, <3>2 DEF Complete, NothingMissed
  <2> QED BY <1>1, <2>4, <2>5
<1>5. CASE n = Null
  <2>1. NothingMissed(writes, q, t, n, k)
    BY <1>4, <1>5 DEF NothingMissed
  <2> QED BY <1>5, <2>1 DEF Complete
<1>6. CASE n # Null
  <2>1. i + 1 \in 1 .. Len(list) /\ n = list[i + 1].id /\ n \in 1 .. Len(writes)
    <3>1. i + 1 \in Nat
      BY <1>1
    <3>2. i + 1 \in 1 .. Len(list)
      BY <1>6, <3>1, NodeFacts DEF IInv
    <3> QED BY <3>1, <3>2, NodeFacts DEF IInv
  <2>2. OrderBy(writes[c], c, writes[n], n)
    <3>1. i < i + 1
      BY <1>1
    <3> QED BY <2>1, <3>1 DEF IInv, ListInv, ListOf, InOrder
  <2>3. PICK p : p = Append(q, n)
    OBVIOUS
  <2>4. /\ Len(p) = Len(q) + 1 /\ DOMAIN p = 1 .. Len(q) + 1
        /\ p[Len(q) + 1] = n /\ \A j \in 1 .. Len(q) : p[j] = q[j]
    BY <2>1, <2>3
  <2>5. Forward(writes, p)
    <3>1. ASSUME NEW j \in 1 .. Len(p) - 1
          PROVE  OrderBy(writes[p[j]], p[j], writes[p[j + 1]], p[j + 1])
      <4>1. j \in 1 .. Len(q)
        BY <1>2, <2>4
      <4>2. CASE j = Len(q)
        <5>1. p[j] = c /\ p[j + 1] = n
          BY <2>4, <4>1, <4>2
        <5> QED BY <2>2, <5>1
      <4>3. CASE j # Len(q)
        <5>1. j \in 1 .. Len(q) - 1 /\ j + 1 \in 1 .. Len(q)
          <6>1. PICK l \in Nat : l = Len(q)
            BY <1>2
          <6>2. j \in 1 .. l /\ j # l
            BY <4>1, <4>3, <6>1
          <6>3. j \in 1 .. l - 1 /\ j + 1 \in 1 .. l
            BY <6>2
          <6> QED BY <6>1, <6>3
        <5>2. p[j] = q[j] /\ p[j + 1] = q[j + 1]
          BY <2>4, <4>1, <5>1
        <5> QED BY <5>1, <5>2 DEF Complete, Forward
      <4> QED BY <4>2, <4>3
    <3> QED BY <3>1 DEF Forward
  <2>6. Behind(writes, t, n)
    <3>1. Behind(writes, t, c)
      BY <1>2 DEF Complete, FromTarget
    <3>2. writes[n] \in Writes
      BY <1>1, <2>1
    <3> QED BY <1>1, <2>2, <3>1, <3>2, StaysBehind DEF Behind
  <2>7. FromTarget(writes, p, t)
    <3>1. ASSUME NEW j \in 1 .. Len(q) + 1 PROVE Behind(writes, t, p[j])
      <4>1. CASE j = Len(q) + 1
        BY <2>4, <2>6, <4>1
      <4>2. CASE j # Len(q) + 1
        <5>1. j \in 1 .. Len(q)
          BY <1>2, <4>2
        <5> QED BY <1>2, <2>4, <5>1 DEF Complete, FromTarget
      <4> QED BY <4>1, <4>2
    <3> QED BY <2>4, <3>1 DEF FromTarget
  <2>8. ToSet(q) \subseteq ToSet(p)
    <3>1. ASSUME NEW j \in 1 .. Len(q) PROVE q[j] = p[j] /\ j \in DOMAIN p
      BY <1>2, <2>4
    <3> QED BY <1>2, <3>1 DEF ToSet
  <2>9. NothingMissed(writes, p, t, n, k)
    BY <1>4, <1>6, <2>8 DEF NothingMissed
  <2> QED BY <1>6, <2>3, <2>5, <2>7, <2>9 DEF Complete
<1> QED BY <1>5, <1>6


(* A target has numbers; no write lies in front of NoTarget.                *)
LEMMA TargetFacts ==
  ASSUME NEW t \in {NoTarget} \union [user : UserKeys, seq : SeqNos]
  PROVE  t.user \in Int /\ t.seq \in Int
<1>1. UserKeys \subseteq Nat /\ SeqNos \subseteq Nat
  BY KeyAssumption, SeqAssumption
<1>2. CASE t = NoTarget
  <2>1. t.user = -1 /\ t.seq = 0
    BY <1>2 DEF NoTarget
  <2> QED BY <2>1
<1>3. CASE t \in [user : UserKeys, seq : SeqNos]
  <2>1. t.user \in UserKeys /\ t.seq \in SeqNos
    BY <1>3
  <2>2. t.user \in Nat /\ t.seq \in Nat
    BY <1>1, <2>1, Zenon
  <2> QED BY <2>2
<1> QED BY <1>2, <1>3

CompleteAt(r) == Complete(writes, passed[r], target[r], current[r], known[r])

LEMMA InsertKeepsComplete ==
  ASSUME IInv, NEW u \in UserKeys, NEW s \in SeqNos, NEW op \in WriteOps, Insert(u, s, op),
         NEW r \in Readers, CompleteAt(r)
  PROVE  CompleteAt(r)'
<1>1. PICK N \in Nat : N = Len(writes)
  BY NodeFacts DEF IInv
<1>2. /\ \A i \in 1 .. N : writes'[i] = writes[i]
      /\ current' = current /\ target' = target /\ known' = known /\ passed' = passed
  BY <1>1, WritesGrow DEF IInv, Insert
<1>3. PICK q, c, k, t :
        q = passed[r] /\ c = current[r] /\ k = known[r] /\ t = target[r]
  OBVIOUS
<1>3a. q \in Seq(1 .. N) /\ c \in 0 .. N /\ k \in 0 .. N
  BY <1>1, <1>3 DEF IInv, ReaderType
<1>4. Complete(writes, q, t, c, k)
  BY <1>3 DEF CompleteAt
<1>5. Complete(writes', q, t, c, k)
  BY <1>2, <1>3a, <1>4, CompleteGrows
<1> QED BY <1>2, <1>3, <1>5 DEF CompleteAt

(* What a step of another iterator leaves alone.                            *)
LEMMA OthersKeepComplete ==
  ASSUME NEW r, CompleteAt(r), writes' = writes,
         current'[r] = current[r], passed'[r] = passed[r],
         target'[r] = target[r], known'[r] = known[r]
  PROVE  CompleteAt(r)'
  BY DEF CompleteAt

LEMMA SeekToFirstCompletes ==
  ASSUME IInv, NEW r \in Readers, SeekToFirst(r)
  PROVE  CompleteAt(r)'
<1>1. PICK n : n = NodeAt(1)
  OBVIOUS
<1>2. Len(list) \in Nat /\ Len(writes) = Len(list) /\ n \in 0 .. Len(writes)
  BY <1>1, NodeFacts DEF IInv
<1>3. ASSUME n # Null PROVE Behind(writes, NoTarget, n)
  <2>1. n \in 1 .. Len(writes) /\ writes \in Seq(Writes)
    BY <1>2, <1>3 DEF Null, IInv, ListInv, ListOf, Carries
  <2>2. writes[n] \in Writes
    BY <2>1
  <2>3. writes[n].user \in Nat
    BY <2>2, KeyOfType
  <2> QED BY <2>3 DEF Behind, NoTarget
<1>4. Complete(writes, IF n = Null THEN <<>> ELSE <<n>>, NoTarget, n, Len(writes))
  <2>1. 0 \in 0 .. Len(list) /\ 0 + 1 = 1 /\ 1 .. 0 = {}
    BY <1>2
  <2>2. n = NodeAt(0 + 1)
    BY <1>1, <2>1
  <2>3. PICK z \in 0 .. Len(list) : z = 0
    BY <2>1
  <2>4. n = NodeAt(z + 1) /\ \A x \in 1 .. z : ~Behind(writes, NoTarget, list[x].id)
    BY <2>1, <2>2, <2>3
  <2> QED BY <1>3, <2>4, ArriveCompletes
<1>5. /\ writes' = writes /\ current'[r] = n /\ target'[r] = NoTarget /\ known'[r] = Len(writes)
      /\ passed'[r] = IF n = Null THEN <<>> ELSE <<n>>
  BY <1>1 DEF SeekToFirst, Arrive, table, IInv, ReaderType
<1> QED BY <1>4, <1>5 DEF CompleteAt

LEMMA SeekCompletes ==
  ASSUME IInv, NEW r \in Readers, NEW u \in UserKeys, NEW s \in SeqNos, Seek(r, u, s)
  PROVE  CompleteAt(r)'
<1>1. PICK t : t = [user |-> u, seq |-> s]
  OBVIOUS
<1>2. PICK j : j = FirstGE(Lookup(u, s))
  OBVIOUS
<1>3. PICK n : n = NodeAt(j)
  OBVIOUS
<1>4. /\ Len(list) \in Nat /\ Len(writes) = Len(list)
      /\ \A x \in 1 .. Len(list) :
           /\ list[x].id \in 1 .. Len(writes)
           /\ writes[list[x].id] \in Writes /\ list[x].key = KeyOf(writes[list[x].id])
  BY ListFacts DEF IInv, ListInv, ListOf
<1>5. j = FirstIn(list, Lookup(u, s))
  BY <1>2, FirstGEType DEF IInv
<1>6. ASSUME NEW x \in 1 .. Len(list)
      PROVE  Behind(writes, t, list[x].id) <=> ~KeyLess(list[x].key, Lookup(u, s))
  <2>1. PICK w \in Writes : w = writes[list[x].id] /\ list[x].key = KeyOf(w)
    BY <1>4
  <2>2. Behind(writes, t, list[x].id) <=> w.user > u \/ (w.user = u /\ w.seq <= s)
    BY <1>1, <2>1 DEF Behind
  <2>3. ~KeyLess(KeyOf(w), Lookup(u, s)) <=> w.user > u \/ (w.user = u /\ w.seq <= s)
    BY LookupFacts
  <2> QED BY <2>1, <2>2, <2>3
<1>7. PICK i \in 0 .. Len(list) :
        /\ n = NodeAt(i + 1)
        /\ \A x \in 1 .. i : ~Behind(writes, t, list[x].id)
        /\ n # Null => Behind(writes, t, n)
  <2>1. CASE j = 0 /\ \A x \in 1 .. Len(list) : KeyLess(list[x].key, Lookup(u, s))
    <3>1. n = Null
      BY <1>3, <1>4, <2>1 DEF NodeAt
    <3>2. Len(list) \in 0 .. Len(list) /\ Len(list) + 1 \notin 1 .. Len(list)
      BY <1>4
    <3>3. NodeAt(Len(list) + 1) = Null
      BY <3>2 DEF NodeAt
    <3> QED BY <1>6, <2>1, <3>1, <3>2, <3>3
  <2>2. CASE /\ j \in 1 .. Len(list) /\ ~KeyLess(list[j].key, Lookup(u, s))
             /\ \A x \in 1 .. Len(list) : x < j => KeyLess(list[x].key, Lookup(u, s))
    <3>1. n = list[j].id
      BY <1>3, <2>2 DEF NodeAt
    <3>2. Behind(writes, t, n)
      BY <1>6, <2>2, <3>1
    <3>3. PICK i \in 0 .. Len(list) : i + 1 = j
      <4>1. j - 1 \in 0 .. Len(list) /\ (j - 1) + 1 = j
        BY <1>4, <2>2
      <4> QED BY <4>1
    <3>4. \A x \in 1 .. i : x \in 1 .. Len(list) /\ x < j
      BY <1>4, <2>2, <3>3
    <3>5. \A x \in 1 .. i : ~Behind(writes, t, list[x].id)
      BY <1>6, <2>2, <3>4
    <3>6. n = NodeAt(i + 1)
      BY <1>3, <3>3
    <3> QED BY <3>2, <3>5, <3>6
  <2> QED BY <1>4, <1>5, <2>1, <2>2, FirstInFacts
<1>8. Complete(writes, IF n = Null THEN <<>> ELSE <<n>>, t, n, Len(writes))
  BY <1>7, ArriveCompletes
<1>9. /\ writes' = writes /\ current'[r] = n /\ target'[r] = t /\ known'[r] = Len(writes)
      /\ passed'[r] = IF n = Null THEN <<>> ELSE <<n>>
  BY <1>1, <1>2, <1>3 DEF Seek, Arrive, table, IInv, ReaderType
<1> QED BY <1>8, <1>9 DEF CompleteAt

LEMMA NextItemCompletes ==
  ASSUME IInv, NEW r \in Readers, CompleteAt(r), NextItem(r)
  PROVE  CompleteAt(r)'
<1>1. PICK q, c, k, t : q = passed[r] /\ c = current[r] /\ k = known[r] /\ t = target[r]
  OBVIOUS
<1>2. Len(list) \in Nat /\ Len(writes) = Len(list)
  BY NodeFacts DEF IInv
<1>3. /\ q \in Seq(1 .. Len(writes)) /\ k \in 0 .. Len(writes) /\ c \in 0 .. Len(writes)
      /\ t.user \in Int /\ t.seq \in Int
  BY <1>1, TargetFacts DEF IInv, ReaderType
<1>4. c # Null /\ Len(q) > 0 /\ q[Len(q)] = c
  BY <1>1 DEF IInv, AtLast, NextItem
<1>5. c \in 1 .. Len(writes)
  BY <1>2, <1>3, <1>4 DEF Null
<1>6. PICK i \in 1 .. Len(list) : i = IndexOf(c) /\ list[i].id = c
  BY <1>5, PlaceOf DEF IInv
<1>7. PICK n : n = NodeAt(i + 1)
  OBVIOUS
<1>8. Complete(writes, q, t, c, k)
  BY <1>1 DEF CompleteAt
<1>9. Complete(writes, IF n = Null THEN q ELSE Append(q, n), t, n, k)
  BY <1>3, <1>4, <1>6, <1>7, <1>8, NextCompletes
<1>10. n = Successor(current[r])
  BY <1>1, <1>6, <1>7 DEF Successor
<1>11. /\ writes' = writes /\ current'[r] = n /\ target'[r] = t /\ known'[r] = k
       /\ passed'[r] = IF n = Null THEN q ELSE Append(q, n)
  BY <1>1, <1>10 DEF NextItem, table, IInv, ReaderType
<1> QED BY <1>9, <1>11 DEF CompleteAt

(* An iterator, however many insertions happen around it, goes forward      *)
(* only, starts at its target, and misses nothing that was there when it    *)
(* was positioned.                                                          *)
THEOREM IteratorsMissNothing == Spec => []IterationIsComplete
<1>0. IterationIsComplete <=> \A r \in Readers : CompleteAt(r)
  BY CompleteParts DEF CompleteAt
<1> DEFINE AllComplete == \A r \in Readers : CompleteAt(r)
<1>1. Init => AllComplete
  <2> SUFFICES ASSUME Init, NEW r \in Readers PROVE CompleteAt(r)
    OBVIOUS
  <2>1. passed[r] = <<>> /\ known[r] = 0
    BY DEF Init
  <2>2. 1 .. Len(<<>>) - 1 = {} /\ DOMAIN <<>> = {} /\ 1 .. 0 = {}
    OBVIOUS
  <2> QED BY <2>1, <2>2 DEF CompleteAt, Complete, Forward, FromTarget, NothingMissed
<1>2. IInv /\ AllComplete /\ [Next]_vars => AllComplete'
  <2> SUFFICES ASSUME IInv, AllComplete, [Next]_vars, NEW r \in Readers PROVE CompleteAt(r)'
    OBVIOUS
  <2>1. CompleteAt(r)
    OBVIOUS
  <2>2. ASSUME NEW u \in UserKeys, NEW s \in SeqNos, NEW op \in WriteOps, Insert(u, s, op)
        PROVE  CompleteAt(r)'
    BY <2>1, <2>2, InsertKeepsComplete
  <2>3. ASSUME NEW p \in Readers, p # r,
               \/ SeekToFirst(p)
               \/ \E u \in UserKeys, s \in SeqNos : Seek(p, u, s)
               \/ NextItem(p)
        PROVE  CompleteAt(r)'
    <3>1. /\ writes' = writes /\ current'[r] = current[r] /\ passed'[r] = passed[r]
          /\ target'[r] = target[r] /\ known'[r] = known[r]
      BY <2>3 DEF SeekToFirst, Seek, NextItem, Arrive, table, IInv, ReaderType
    <3> QED BY <2>1, <3>1, OthersKeepComplete
  <2>4. CASE SeekToFirst(r)
    BY <2>4, SeekToFirstCompletes
  <2>5. ASSUME NEW u \in UserKeys, NEW s \in SeqNos, Seek(r, u, s) PROVE CompleteAt(r)'
    BY <2>5, SeekCompletes
  <2>6. CASE NextItem(r)
    BY <2>1, <2>6, NextItemCompletes
  <2>7. CASE UNCHANGED vars
    <3>1. /\ writes' = writes /\ current'[r] = current[r] /\ passed'[r] = passed[r]
          /\ target'[r] = target[r] /\ known'[r] = known[r]
      BY <2>7 DEF vars
    <3> QED BY <2>1, <3>1, OthersKeepComplete
  <2> HIDE DEF AllComplete
  <2> QED BY <2>2, <2>3, <2>4, <2>5, <2>6, <2>7 DEF Next
<1> QED BY <1>0, <1>1, <1>2, MemtableInvariance, PTL DEF Spec
=============================================================================

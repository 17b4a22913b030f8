---------------------------- MODULE ArenaProofs ----------------------------
(***************************************************************************)
(* Proofs about Arena, for every number of threads, every layout, chunk    *)
(* length, capacity and number of calls; and, in the last part, about the  *)
(* nodes of NodeStore, which are written to its regions.                   *)
(***************************************************************************)
EXTENDS NodeStore, WellFoundedInduction, FiniteSetTheorems, TLAPS

(* Euclidean division, the form the other lemmas need.                      *)
LEMMA DivMod ==
  ASSUME NEW n \in Nat, NEW a \in Nat \ {0}
  PROVE  /\ n \div a \in Nat
         /\ n % a \in 0 .. a - 1
         /\ n = a * (n \div a) + (n % a)
  OBVIOUS

(* A multiple of the alignment leaves no remainder: what rounding returns   *)
(* is aligned.                                                              *)
LEMMA ModOfMultiple ==
  ASSUME NEW q \in Nat, NEW a \in Nat \ {0}
  PROVE  (a * q) % a = 0
  OBVIOUS

(* Rounding down to a multiple is monotone, and so is alignment_check.      *)
LEMMA FloorMonotone ==
  ASSUME NEW x \in Nat, NEW y \in Nat, NEW a \in Nat \ {0}, x <= y
  PROVE  x - (x % a) <= y - (y % a)
<1> DEFINE p == x \div a
           q == y \div a
<1>1. /\ p \in Nat /\ x % a \in 0 .. a - 1 /\ x = a * p + (x % a)
  BY DivMod
<1>2. /\ q \in Nat /\ y % a \in 0 .. a - 1 /\ y = a * q + (y % a)
  BY DivMod
<1> HIDE DEF p, q
<1>3. CASE p <= q
  <2>1. a * p <= a * q
    BY <1>1, <1>2, <1>3
  <2> QED BY <1>1, <1>2, <2>1
<1>4. CASE q < p
  <2>1. a * (q + 1) <= a * p
    BY <1>1, <1>2, <1>4
  <2>2. a * (q + 1) = a * q + a
    BY <1>2
  <2> QED BY <1>1, <1>2, <2>1, <2>2
<1> QED BY <1>1, <1>2, <1>3, <1>4

(* What alignment_check computes: an aligned offset not below the one given *)
(* to it, from which the layout's size leads to the next offset.            *)
LEMMA AlignedProps ==
  ASSUME NEW o \in Nat, NEW l \in Layouts
  PROVE  /\ Aligned(o, l) \in Nat
         /\ o <= Aligned(o, l)
         /\ Aligned(o, l) % l.align = 0
         /\ NextOffset(o, l) \in Nat
         /\ NextOffset(o, l) > o
<1> DEFINE n == o + (l.align - 1)
           q == n \div l.align
<1>1. l.align \in Nat \ {0} /\ l.size \in Nat \ {0}
  BY LayoutAssumption
<1>2. n \in Nat
  BY <1>1
<1>3. /\ q \in Nat /\ n % l.align \in 0 .. l.align - 1
      /\ n = l.align * q + (n % l.align)
  BY <1>1, <1>2, DivMod
<1>4. Aligned(o, l) = n - (n % l.align)
  BY DEF Aligned
<1>5. Aligned(o, l) = l.align * q
  <2>1. l.align * q \in Nat
    BY <1>1, <1>3
  <2> HIDE DEF n, q
  <2> QED BY <1>1, <1>2, <1>3, <1>4, <2>1
<1>6. Aligned(o, l) % l.align = 0
  BY <1>1, <1>3, <1>5, ModOfMultiple
<1>7. Aligned(o, l) \in Nat /\ o <= Aligned(o, l)
  <2>1. n % l.align \in 0 .. l.align - 1
    BY <1>3
  <2> QED BY <1>1, <2>1, <1>4
<1> QED BY <1>1, <1>6, <1>7 DEF NextOffset

(* A layout that fits at some offset also fits at every smaller one, so a  *)
(* chunk that is full for a layout stays full as its offset grows.          *)
LEMMA FitsDownward ==
  ASSUME NEW x \in Nat, NEW y \in Nat, NEW l \in Layouts, x <= y, Fits(y, l)
  PROVE  Fits(x, l)
<1> DEFINE m == x + (l.align - 1)
           n == y + (l.align - 1)
<1>1. l.align \in Nat \ {0} /\ l.size \in Nat \ {0}
  BY LayoutAssumption
<1>2. m \in Nat /\ n \in Nat /\ m <= n
  BY <1>1
<1>3. m - (m % l.align) <= n - (n % l.align)
  BY <1>1, <1>2, FloorMonotone
<1>4. m % l.align \in 0 .. l.align - 1 /\ n % l.align \in 0 .. l.align - 1
  BY <1>1, <1>2, DivMod
<1>5. Aligned(x, l) <= Aligned(y, l) /\ Aligned(x, l) \in Int /\ Aligned(y, l) \in Int
  BY <1>1, <1>2, <1>3, <1>4 DEF Aligned
<1> QED BY <1>1, <1>5, PolicyAssumption DEF Fits, NextOffset

-----------------------------------------------------------------------------
(***************************************************************************)
(* The inductive invariant.  The safety properties alone are not           *)
(* inductive: that a new region starts above all others needs to know that *)
(* the offset a thread holds at its compare-and-swap was checked to fit;   *)
(* that a failure stays justified needs to know that nobody is adding a    *)
(* chunk then, which in turn needs the mutex.                              *)
(***************************************************************************)
MutexInv ==
  \A t \in Threads : (mutex = t) <=> (pc[t] \in {"recheck", "count", "publish"})

CurrentIsLast == current_chunk = Len(bump)

CasInv == \A t \in Threads : pc[t] = "cas" => Fits(seen[t], Layout(t))

Growing == \E t \in Threads : pc[t] = "publish"

AccountInv ==
  /\ Growing => allocated_bytes = BlockSize * (Len(bump) + 1)
  /\ ~Growing => allocated_bytes = BlockSize * Len(bump)
  /\ allocated_bytes <= Cap

PublishInv ==
  \A t \in Threads :
    /\ pc[t] \in {"count", "publish"} => ~Fits(bump[current_chunk], Layout(t))
    /\ pc[t] = "count" => allocated_bytes + BlockSize <= Cap

FailedInv ==
  \A t \in Threads : pc[t] \in {"failed", "panicked"} => ~Growing

IInv ==
  /\ TypeOK
  /\ MutexInv
  /\ CurrentIsLast
  /\ CasInv
  /\ AccountInv
  /\ PublishInv
  /\ FailedInv
  /\ RegionsFit
  /\ NoOverlap
  /\ FailureIsJustified

(* There is a call to stand for none.                                       *)
LEMMA NoCallIsCall == NoCall \in Calls
<1>1. PICK l \in Layouts : TRUE
  BY LayoutAssumption
<1>2. [entry |-> "alloc_raw", layout |-> l] \in Calls
  BY <1>1 DEF Calls, Entry
<1> QED BY <1>2 DEF NoCall

(* `Arena::new` establishes the invariant.                                   *)
LEMMA InitInv == Init => IInv
<1> SUFFICES ASSUME Init PROVE IInv
  OBVIOUS
<1> USE DEF Init
<1>1. BlockSize \in Nat \ {0} /\ Cap \in Nat /\ Cap >= BlockSize
  BY PolicyAssumption
<1>2. NoCall \in Calls
  BY NoCallIsCall
<1>3. TypeOK
  BY <1>1, <1>2, BoundAssumption DEF TypeOK, PcValues, Calls
<1>4. MutexInv /\ CurrentIsLast /\ CasInv
  BY ThreadAssumption DEF MutexInv, CurrentIsLast, CasInv
<1>5. ~Growing
  BY DEF Growing
<1>6. AccountInv /\ PublishInv /\ FailedInv /\ FailureIsJustified
  BY <1>1, <1>5 DEF AccountInv, PublishInv, FailedInv, FailureIsJustified
<1>7. RegionsFit /\ NoOverlap
  BY DEF RegionsFit, NoOverlap
<1> QED BY <1>3, <1>4, <1>6, <1>7 DEF IInv

-----------------------------------------------------------------------------
(* Facts about a single state that every step below uses.                   *)
LEMMA StateFacts ==
  ASSUME TypeOK, NEW t \in Threads
  PROVE  /\ Layout(t) \in Layouts
         /\ call[t] \in Calls
         /\ pc[t] \in PcValues
         /\ seen[t] \in Nat /\ seen[t] \in 0 .. BlockSize
         /\ chunk[t] \in 1 .. Len(bump)
         /\ bump[chunk[t]] \in Nat /\ bump[chunk[t]] \in 0 .. BlockSize
         /\ bump[current_chunk] \in Nat
         /\ Len(bump) \in Nat
         /\ BlockSize \in Nat \ {0}
<1>1. BlockSize \in Nat \ {0} /\ \A n \in 0 .. BlockSize : n \in Nat
  BY PolicyAssumption
<1>2. call[t] \in Calls /\ pc[t] \in PcValues /\ Layout(t) \in Layouts
  BY DEF TypeOK, Layout, Calls
<1>3. bump \in Seq(0 .. BlockSize) /\ Len(bump) \in Nat
      /\ current_chunk \in 1 .. Len(bump) /\ chunk[t] \in 1 .. Len(bump)
      /\ seen[t] \in 0 .. BlockSize
  BY DEF TypeOK
<1>4. \A i \in 1 .. Len(bump) : bump[i] \in 0 .. BlockSize
  BY <1>1, <1>3
<1> QED BY <1>1, <1>2, <1>3, <1>4

(* A step of t that moves neither an offset nor the chunks, keeps t out of  *)
(* `count`, `publish`, `failed` and `panicked`, and leads to `cas` only with an      *)
(* offset that fits, preserves everything but the type and the mutex.       *)
LEMMA QuietStep ==
  ASSUME IInv, NEW t \in Threads, NEW to \in PcValues,
         pc[t] # "publish",
         to \notin {"count", "publish", "failed", "panicked"},
         to = "cas" => Fits(seen'[t], call'[t].layout),
         Goto(t, to),
         UNCHANGED <<bump, current_chunk, allocated_bytes, granted>>,
         \A u \in Threads \ {t} : call'[u] = call[u] /\ seen'[u] = seen[u]
  PROVE  /\ CurrentIsLast' /\ CasInv' /\ AccountInv' /\ PublishInv'
         /\ FailedInv' /\ RegionsFit' /\ NoOverlap' /\ FailureIsJustified'
<1> USE DEF IInv
<1>1. pc \in [Threads -> PcValues]
  BY DEF TypeOK
<1>2. /\ pc'[t] = to
      /\ \A u \in Threads \ {t} : pc'[u] = pc[u]
  BY <1>1 DEF Goto
<1>3. Growing' <=> Growing
  BY <1>2 DEF Growing
<1>4. CurrentIsLast' /\ RegionsFit' /\ NoOverlap'
  BY DEF CurrentIsLast, RegionsFit, NoOverlap
<1>5. AccountInv'
  BY <1>3 DEF AccountInv
<1>6. CasInv' /\ PublishInv'
  BY <1>2 DEF CasInv, PublishInv, Layout, Fits, NextOffset, Aligned
<1>7. FailedInv' /\ FailureIsJustified'
  BY <1>2, <1>3 DEF FailedInv, FailureIsJustified, Layout, Fits, NextOffset, Aligned
<1> QED BY <1>4, <1>5, <1>6, <1>7

(* Entering alloc_raw or alloc_raw_fallback preserves the invariant.         *)
LEMMA CallInv == ASSUME IInv, NEW t \in Threads, Call(t) PROVE IInv'
<1> USE DEF Call, Goto, shared
<1>1. TypeOK'
  BY BoundAssumption DEF IInv, TypeOK, PcValues
<1>2. MutexInv'
  BY DEF IInv, TypeOK, MutexInv
<1> QED BY <1>1, <1>2, QuietStep DEF IInv, TypeOK, PcValues

(* So does loading current_chunk,                                            *)
LEMMA GetChunkInv == ASSUME IInv, NEW t \in Threads, GetChunk(t) PROVE IInv'
<1> USE DEF GetChunk, Goto, shared
<1>1. TypeOK'
  BY DEF IInv, TypeOK, PcValues
<1>2. MutexInv'
  BY DEF IInv, TypeOK, MutexInv
<1> QED BY <1>1, <1>2, QuietStep DEF IInv, TypeOK, PcValues

(* counting the bytes handed out,                                           *)
LEMMA AccountStepInv == ASSUME IInv, NEW t \in Threads, Account(t) PROVE IInv'
<1> USE NoCallIsCall DEF Account, Return, ForgetLocals, Goto
<1>0. 1 \in 1 .. Len(bump) /\ 0 \in 0 .. BlockSize
  BY PolicyAssumption DEF IInv, TypeOK
<1>1. TypeOK'
  <2>1. Layout(t).size \in Nat
    BY StateFacts, LayoutAssumption DEF IInv
  <2>2. TypeOK /\ memory_used' \in Nat
    <3>1. TypeOK /\ memory_used \in Nat
      BY DEF IInv, TypeOK
    <3>2. memory_used' = memory_used + Layout(t).size
      OBVIOUS
    <3> HIDE DEF Account
    <3> QED BY <2>1, <3>1, <3>2
  <2>3. pc' \in [Threads -> PcValues] /\ call' \in [Threads -> Calls]
    BY <2>2 DEF TypeOK, PcValues
  <2>4. chunk' \in [Threads -> 1 .. Len(bump)] /\ seen' \in [Threads -> 0 .. BlockSize]
    BY <1>0, <2>2 DEF TypeOK
  <2> QED BY <2>2, <2>3, <2>4 DEF TypeOK
<1>2. MutexInv'
  BY DEF IInv, TypeOK, MutexInv
<1> QED BY <1>1, <1>2, QuietStep DEF IInv, TypeOK, PcValues

(* a failed compare-and-swap on the offset,                                 *)
LEMMA CasFailsInv == ASSUME IInv, NEW t \in Threads, CasFails(t) PROVE IInv'
<1> USE DEF CasFails, ForgetLocals, Goto, shared
<1>0. 1 \in 1 .. Len(bump) /\ 0 \in 0 .. BlockSize
  BY PolicyAssumption DEF IInv, TypeOK
<1>1. TypeOK'
  BY <1>0 DEF IInv, TypeOK, PcValues
<1>2. MutexInv'
  BY DEF IInv, TypeOK, MutexInv
<1> QED BY <1>1, <1>2, QuietStep DEF IInv, TypeOK, PcValues

(* returning ArenaFull to the caller,                                       *)
LEMMA ReturnErrInv == ASSUME IInv, NEW t \in Threads, ReturnErr(t) PROVE IInv'
<1> USE NoCallIsCall DEF ReturnErr, Return, ForgetLocals, Goto, shared
<1>0. 1 \in 1 .. Len(bump) /\ 0 \in 0 .. BlockSize
  BY PolicyAssumption DEF IInv, TypeOK
<1>1. TypeOK'
  BY <1>0 DEF IInv, TypeOK, PcValues
<1>2. MutexInv'
  BY DEF IInv, TypeOK, MutexInv
<1> QED BY <1>1, <1>2, QuietStep DEF IInv, TypeOK, PcValues

(* taking the mutex around the chunks,                                      *)
LEMMA LockChunksInv == ASSUME IInv, NEW t \in Threads, LockChunks(t) PROVE IInv'
<1> USE DEF LockChunks, Goto
<1>1. TypeOK'
  BY DEF IInv, TypeOK, PcValues
<1>2. MutexInv'
  BY ThreadAssumption DEF IInv, TypeOK, MutexInv
<1> QED BY <1>1, <1>2, QuietStep DEF IInv, TypeOK, PcValues

(* the early return of the double check,                                    *)
LEMMA RecheckFitsInv == ASSUME IInv, NEW t \in Threads, RecheckFits(t) PROVE IInv'
<1> USE DEF RecheckFits, ForgetLocals, Goto
<1>0. 1 \in 1 .. Len(bump) /\ 0 \in 0 .. BlockSize
  BY PolicyAssumption DEF IInv, TypeOK
<1>1. TypeOK'
  BY <1>0 DEF IInv, TypeOK, PcValues
<1>2. MutexInv'
  BY ThreadAssumption DEF IInv, TypeOK, MutexInv
<1> QED BY <1>1, <1>2, QuietStep DEF IInv, TypeOK, PcValues

(* and loading the offset: it goes on to the compare-and-swap only if the   *)
(* layout fits there.                                                       *)
LEMMA LoadBumpInv == ASSUME IInv, NEW t \in Threads, LoadBump(t) PROVE IInv'
<1> USE DEF LoadBump, Goto, shared
<1>1. TypeOK'
  BY StateFacts DEF IInv, TypeOK, PcValues
<1>2. MutexInv'
  BY DEF IInv, TypeOK, MutexInv
<1> DEFINE to == IF Fits(bump[chunk[t]], Layout(t)) THEN "cas" ELSE "lock"
<1>3. to \in PcValues /\ Goto(t, to) /\ to \notin {"count", "publish", "failed", "panicked"}
  BY DEF PcValues
<1>4. to = "cas" => Fits(seen'[t], call'[t].layout)
  BY DEF IInv, TypeOK, Layout
<1>5. \A u \in Threads \ {t} : call'[u] = call[u] /\ seen'[u] = seen[u]
  BY DEF IInv, TypeOK
<1> HIDE DEF to
<1> QED BY <1>1, <1>2, <1>3, <1>4, <1>5, QuietStep DEF IInv

(* The compare-and-swap: the new region starts where all regions of the    *)
(* chunk end, or later.                                                     *)
LEMMA CasBumpInv == ASSUME IInv, NEW t \in Threads, CasBump(t) PROVE IInv'
<1> DEFINE c == chunk[t]
           l == Layout(t)
           r == Region(c, seen[t], l, <<t, calls[t]>>)
<1> USE DEF CasBump, Goto
<1>0. TypeOK /\ l \in Layouts /\ c \in 1 .. Len(bump) /\ seen[t] \in Nat
  BY StateFacts DEF IInv
<1>1. /\ Fits(seen[t], l)
      /\ bump[c] = seen[t]
      /\ NextOffset(seen[t], l) \in 0 .. BlockSize
      /\ NextOffset(seen[t], l) > seen[t]
      /\ Aligned(seen[t], l) \in Nat
      /\ seen[t] <= Aligned(seen[t], l)
      /\ Aligned(seen[t], l) % l.align = 0
      /\ NextOffset(seen[t], l) = Aligned(seen[t], l) + l.size
  <2>1. Fits(seen[t], l) /\ bump[c] = seen[t]
    BY DEF IInv, CasInv
  <2> HIDE DEF l, c
  <2>2. /\ NextOffset(seen[t], l) \in Nat
        /\ NextOffset(seen[t], l) > seen[t]
        /\ Aligned(seen[t], l) \in Nat
        /\ seen[t] <= Aligned(seen[t], l)
        /\ Aligned(seen[t], l) % l.align = 0
    BY <1>0, AlignedProps
  <2>3. NextOffset(seen[t], l) <= BlockSize /\ BlockSize \in Nat
    BY <2>1, PolicyAssumption DEF Fits
  <2>4. NextOffset(seen[t], l) = Aligned(seen[t], l) + l.size
    BY DEF NextOffset
  <2> QED BY <2>1, <2>2, <2>3, <2>4
<1>2. /\ Len(bump') = Len(bump)
      /\ bump' \in Seq(0 .. BlockSize)
      /\ bump'[c] = NextOffset(seen[t], l)
      /\ \A i \in 1 .. Len(bump) : i # c => bump'[i] = bump[i]
      /\ \A i \in 1 .. Len(bump) : bump[i] \in Nat /\ bump[i] <= bump'[i]
  <2>1. bump' = [bump EXCEPT ![c] = NextOffset(seen[t], l)]
    OBVIOUS
  <2>2. bump \in Seq(0 .. BlockSize) /\ BlockSize \in Nat
    BY <1>0, PolicyAssumption DEF TypeOK
  <2> HIDE DEF l, c, CasBump
  <2>3. \A i \in 1 .. Len(bump) : bump[i] \in 0 .. BlockSize
    BY <2>2
  <2>4. Len(bump') = Len(bump) /\ bump' \in Seq(0 .. BlockSize)
    BY <1>0, <1>1, <2>1, <2>2
  <2>5. /\ bump'[c] = NextOffset(seen[t], l)
        /\ \A i \in 1 .. Len(bump) : i # c => bump'[i] = bump[i]
    BY <1>0, <2>1, <2>2
  <2>6. bump[c] = seen[t] /\ NextOffset(seen[t], l) > seen[t] /\ seen[t] \in Nat
        /\ NextOffset(seen[t], l) \in Nat
    BY <1>0, <1>1, <2>2
  <2>7. \A i \in 1 .. Len(bump) : bump[i] \in Nat
    BY <2>2, <2>3
  <2>8. ASSUME NEW i \in 1 .. Len(bump) PROVE bump[i] <= bump'[i]
    <3>1. CASE i = c
      BY <2>5, <2>6, <3>1
    <3>2. CASE i # c
      <4>1. bump'[i] = bump[i] /\ bump[i] \in Nat
        BY <2>5, <2>7, <3>2
      <4> QED BY <4>1
    <3> QED BY <3>1, <3>2
  <2> QED BY <2>4, <2>5, <2>7, <2>8
<1>3. r \in Regions /\ r.chunk = c /\ r.start = Aligned(seen[t], l)
      /\ r.end = NextOffset(seen[t], l) /\ r.layout = l
  <2>1. <<t, calls[t]>> \in Threads \X Nat
    BY <1>0, BoundAssumption DEF TypeOK
  <2> QED BY <1>0, <1>1, <2>1 DEF Region, Regions
<1>4. /\ pc'[t] = "account"
      /\ \A u \in Threads \ {t} : pc'[u] = pc[u]
  BY <1>0 DEF TypeOK
<1>5. granted' = granted \union {r}
  OBVIOUS
<1> HIDE DEF r, c, l
<1>6. TypeOK'
  BY <1>0, <1>2, <1>3, <1>5 DEF TypeOK, PcValues
<1>7. MutexInv'
  BY <1>4 DEF IInv, MutexInv
<1>8. Growing' <=> Growing
  BY <1>4 DEF Growing
<1>9. CurrentIsLast' /\ AccountInv'
  BY <1>2, <1>8 DEF IInv, CurrentIsLast, AccountInv
<1>10. CasInv'
  BY <1>4 DEF IInv, CasInv, Layout, Fits, NextOffset, Aligned
<1>11. ASSUME NEW u \in Threads, ~Fits(bump[current_chunk], Layout(u))
       PROVE  ~Fits(bump'[current_chunk], Layout(u)')
  <2>1. Layout(u) \in Layouts /\ Layout(u)' = Layout(u)
    BY <1>0, StateFacts DEF Layout
  <2>2. /\ bump[current_chunk] \in Nat /\ bump'[current_chunk] \in Nat
        /\ bump[current_chunk] <= bump'[current_chunk]
    BY <1>0, <1>2 DEF TypeOK
  <2> QED BY <1>11, <2>1, <2>2, FitsDownward
<1>12. PublishInv' /\ FailedInv' /\ FailureIsJustified'
  <2>1. current_chunk' = current_chunk /\ allocated_bytes' = allocated_bytes
    OBVIOUS
  <2>2. ASSUME NEW u \in Threads
        PROVE  Fits(bump[current_chunk], Layout(u))'
               = Fits(bump'[current_chunk], Layout(u)')
    BY <2>1 DEF Fits, NextOffset, Aligned
  <2> QED BY <1>4, <1>8, <1>11, <2>1, <2>2
          DEF IInv, PublishInv, FailedInv, FailureIsJustified
<1>13. RegionsFit'
  <2> SUFFICES ASSUME NEW s \in granted'
               PROVE  /\ s.chunk \in 1 .. Len(bump')
                      /\ s.start % s.layout.align = 0
                      /\ s.end = s.start + s.layout.size
                      /\ s.end <= bump'[s.chunk]
    BY DEF RegionsFit
  <2>1. CASE s = r
    BY <2>1, <1>0, <1>1, <1>2, <1>3
  <2>2. CASE s \in granted
    <3>1. s.chunk \in 1 .. Len(bump) /\ s.end <= bump[s.chunk] /\ s.end \in Nat
          /\ s.start % s.layout.align = 0 /\ s.end = s.start + s.layout.size
      BY <2>2, <1>0 DEF IInv, RegionsFit, TypeOK, Regions
    <3>2. bump[s.chunk] \in Nat /\ bump'[s.chunk] \in Nat /\ bump[s.chunk] <= bump'[s.chunk]
      BY <3>1, <1>2
    <3> QED BY <3>1, <3>2, <1>2
  <2> QED BY <2>1, <2>2, <1>5
<1>14. NoOverlap'
  <2>1. ASSUME NEW s \in granted, s.chunk = c
        PROVE  s.end <= r.start
    <3>1. s.end <= bump[c] /\ s.end \in Nat
      BY <2>1, <1>0 DEF IInv, RegionsFit, TypeOK, Regions
    <3> QED BY <3>1, <1>0, <1>1, <1>3
  <2> QED BY <2>1, <1>3, <1>5 DEF IInv, NoOverlap
<1> QED BY <1>6, <1>7, <1>9, <1>10, <1>12, <1>13, <1>14 DEF IInv

(* A call that fails leaves the current chunk too full for its layout and   *)
(* the capacity used up.                                                    *)
LEMMA RecheckFullInv == ASSUME IInv, NEW t \in Threads, RecheckFull(t) PROVE IInv'
<1> USE DEF RecheckFull, Goto
<1>0. TypeOK
  BY DEF IInv
<1>1. TypeOK'
  BY <1>0 DEF TypeOK, PcValues
<1>2. MutexInv'
  BY <1>0, ThreadAssumption DEF IInv, TypeOK, MutexInv
<1>3. /\ pc'[t] \in {"failed", "panicked"}
      /\ \A u \in Threads \ {t} : pc'[u] = pc[u]
  BY <1>0 DEF TypeOK
<1>4. ~Growing /\ ~Growing'
  BY <1>0, <1>3 DEF IInv, MutexInv, Growing
<1>5. CurrentIsLast' /\ RegionsFit' /\ NoOverlap'
  BY DEF IInv, CurrentIsLast, RegionsFit, NoOverlap
<1>6. AccountInv' /\ FailedInv'
  BY <1>4 DEF IInv, AccountInv, FailedInv
<1>7. CasInv' /\ PublishInv'
  BY <1>3 DEF IInv, CasInv, PublishInv, Layout, Fits, NextOffset, Aligned
<1>8. FailureIsJustified'
  BY <1>3 DEF IInv, FailureIsJustified, Layout, Fits, NextOffset, Aligned
<1> QED BY <1>1, <1>2, <1>5, <1>6, <1>7, <1>8 DEF IInv

(* The capacity was tested, and holds as long as the mutex does.            *)
LEMMA RecheckGrowsInv == ASSUME IInv, NEW t \in Threads, RecheckGrows(t) PROVE IInv'
<1> USE DEF RecheckGrows, Goto, shared
<1>0. TypeOK
  BY DEF IInv
<1>1. TypeOK'
  BY <1>0 DEF TypeOK, PcValues
<1>2. MutexInv'
  BY <1>0 DEF IInv, TypeOK, MutexInv
<1>3. /\ pc'[t] = "count"
      /\ \A u \in Threads \ {t} : pc'[u] = pc[u]
  BY <1>0 DEF TypeOK
<1>4. Growing' <=> Growing
  BY <1>3 DEF Growing
<1>5. CurrentIsLast' /\ RegionsFit' /\ NoOverlap'
  BY DEF IInv, CurrentIsLast, RegionsFit, NoOverlap
<1>6. AccountInv' /\ FailedInv'
  BY <1>3, <1>4 DEF IInv, AccountInv, FailedInv
<1>7. CasInv' /\ PublishInv' /\ FailureIsJustified'
  BY <1>3 DEF IInv, CasInv, PublishInv, FailureIsJustified, Layout, Fits, NextOffset,
     Aligned
<1> QED BY <1>1, <1>2, <1>5, <1>6, <1>7 DEF IInv

(* Counting the bytes of a chunk keeps allocated_bytes below the capacity:  *)
(* they are still what the test saw.                                        *)
LEMMA CountChunkInv == ASSUME IInv, NEW t \in Threads, CountChunk(t) PROVE IInv'
<1> USE DEF CountChunk, Goto
<1>0. TypeOK /\ BlockSize \in Nat \ {0} /\ Len(bump) \in Nat
  BY StateFacts DEF IInv
<1>1. TypeOK'
  BY <1>0 DEF TypeOK, PcValues
<1>2. MutexInv'
  BY <1>0 DEF IInv, TypeOK, MutexInv
<1>3. /\ pc'[t] = "publish"
      /\ \A u \in Threads \ {t} : pc'[u] = pc[u]
  BY <1>0 DEF TypeOK
<1>4. ~Growing /\ Growing' /\ \A u \in Threads \ {t} : pc[u] # "count"
  BY <1>0, <1>3 DEF IInv, MutexInv, Growing
<1>5. CurrentIsLast' /\ RegionsFit' /\ NoOverlap'
  BY DEF IInv, CurrentIsLast, RegionsFit, NoOverlap
<1>a. allocated_bytes + BlockSize <= Cap
  BY DEF IInv, PublishInv
<1>6. AccountInv'
  <2>1. allocated_bytes = BlockSize * Len(bump) /\ allocated_bytes' = allocated_bytes + BlockSize
        /\ allocated_bytes' <= Cap /\ bump' = bump
    BY <1>4, <1>a DEF IInv, AccountInv
  <2>2. BlockSize * (Len(bump) + 1) = BlockSize * Len(bump) + BlockSize
    BY <1>0
  <2> QED BY <1>4, <2>1, <2>2 DEF AccountInv
<1>7. CasInv' /\ PublishInv'
  BY <1>3, <1>4 DEF IInv, CasInv, PublishInv, Layout, Fits, NextOffset, Aligned
<1>8. \A u \in Threads : pc[u] \notin {"failed", "panicked"}
  <2>1. allocated_bytes \in Nat
    BY <1>0 DEF TypeOK
  <2> QED BY <1>0, <1>a, <2>1, PolicyAssumption DEF IInv, FailureIsJustified
<1>9. FailedInv' /\ FailureIsJustified'
  BY <1>3, <1>8 DEF FailedInv, FailureIsJustified
<1> QED BY <1>1, <1>2, <1>5, <1>6, <1>7, <1>9 DEF IInv

(* The new chunk is empty, so that all regions handed out are where they    *)
(* were.                                                                    *)
LEMMA PublishChunkInv == ASSUME IInv, NEW t \in Threads, PublishChunk(t) PROVE IInv'
<1> USE DEF PublishChunk, ForgetLocals, Goto
<1>0. TypeOK /\ BlockSize \in Nat \ {0} /\ Len(bump) \in Nat
  BY StateFacts DEF IInv
<1>1. /\ Len(bump') = Len(bump) + 1
      /\ bump' \in Seq(0 .. BlockSize)
      /\ \A i \in 1 .. Len(bump) : bump'[i] = bump[i]
  BY <1>0 DEF TypeOK
<1>2. TypeOK'
  <2>1. Len(bump') > 0 /\ current_chunk' \in 1 .. Len(bump')
    BY <1>0, <1>1
  <2>2. chunk' \in [Threads -> 1 .. Len(bump')]
    <3>1. 1 .. Len(bump) \subseteq 1 .. Len(bump')
      BY <1>0, <1>1
    <3>2. chunk \in [Threads -> 1 .. Len(bump)]
      BY <1>0 DEF TypeOK
    <3>3. 1 \in 1 .. Len(bump')
      BY <2>1
    <3> QED BY <3>1, <3>2, <3>3
  <2>3. pc' \in [Threads -> PcValues]
    BY <1>0 DEF TypeOK, PcValues
  <2>4. mutex' \in Threads \union {Free}
    OBVIOUS
  <2>5. /\ allocated_bytes' \in Nat /\ memory_used' \in Nat
        /\ call' \in [Threads -> Calls] /\ seen' \in [Threads -> 0 .. BlockSize]
        /\ calls' \in [Threads -> 0 .. MaxCalls] /\ granted' \in SUBSET Regions
    <3>1. 0 \in 0 .. BlockSize
      BY <1>0
    <3> QED BY <1>0, <3>1 DEF TypeOK, Regions
  <2> QED BY <1>1, <2>1, <2>2, <2>3, <2>4, <2>5 DEF TypeOK
<1>3. /\ pc'[t] = "get_chunk"
      /\ \A u \in Threads \ {t} : pc'[u] = pc[u]
  BY <1>0 DEF TypeOK
<1>4. MutexInv'
  BY <1>0, <1>3, ThreadAssumption DEF IInv, TypeOK, MutexInv
<1>5. Growing /\ \A u \in Threads \ {t} : pc[u] \notin {"count", "publish"}
  BY <1>0 DEF IInv, MutexInv, Growing
<1>6. ~Growing'
  BY <1>3, <1>5 DEF Growing
<1>7. AccountInv'
  BY <1>1, <1>5, <1>6 DEF IInv, AccountInv
<1>8. CurrentIsLast'
  BY <1>1 DEF CurrentIsLast
<1>9. CasInv'
  <2>1. \A u \in Threads \ {t} : seen'[u] = seen[u] /\ call'[u] = call[u]
    BY <1>0 DEF TypeOK
  <2> QED BY <1>3, <2>1 DEF IInv, CasInv, Layout, Fits, NextOffset, Aligned
<1>10. \A u \in Threads : pc'[u] \notin {"failed", "panicked", "count", "publish"}
  BY <1>3, <1>5 DEF IInv, FailedInv
<1>11. PublishInv' /\ FailedInv' /\ FailureIsJustified'
  BY <1>10 DEF PublishInv, FailedInv, FailureIsJustified
<1>12. RegionsFit' /\ NoOverlap'
  BY <1>0, <1>1 DEF IInv, RegionsFit, NoOverlap
<1> QED BY <1>2, <1>4, <1>7, <1>8, <1>9, <1>11, <1>12 DEF IInv

-----------------------------------------------------------------------------
(* Every step of the arena preserves the invariant.                         *)
LEMMA NextInv == IInv /\ [Next]_vars => IInv'
<1> SUFFICES ASSUME IInv, [Next]_vars PROVE IInv'
  OBVIOUS
<1>1. ASSUME NEW t \in Threads, Call(t) \/ Step(t) PROVE IInv'
  BY <1>1, CallInv, GetChunkInv, LoadBumpInv, CasBumpInv, CasFailsInv,
     AccountStepInv, LockChunksInv, RecheckFitsInv, RecheckFullInv,
     RecheckGrowsInv, CountChunkInv, PublishChunkInv, ReturnErrInv DEF Step
<1>2. CASE UNCHANGED vars
  BY <1>2 DEF IInv, TypeOK, MutexInv, CurrentIsLast, CasInv, AccountInv, Growing,
     PublishInv, FailedInv, RegionsFit, NoOverlap, FailureIsJustified, Layout,
     Fits, NextOffset, Aligned, vars, shared
<1> QED BY <1>1, <1>2 DEF Next

(* The invariant holds in every reachable state.                            *)
THEOREM Invariance == Spec => []IInv
<1> QED BY InitInv, NextInv, PTL DEF Spec

(* Every variable keeps its type; in particular no bump offset ever passes *)
(* the end of its chunk.                                                    *)
THEOREM TypeCorrect == Spec => []TypeOK
<1>1. IInv => TypeOK
  BY DEF IInv
<1> QED BY <1>1, Invariance, PTL

(* alloc_raw and alloc_raw_fallback never hand out a byte twice,            *)
THEOREM RegionsDisjoint == Spec => []NoOverlap
<1>1. IInv => NoOverlap
  BY DEF IInv
<1> QED BY <1>1, Invariance, PTL

(* and every region they hand out is aligned, long enough, inside its chunk *)
(* and below the chunk's bump offset.                                       *)
THEOREM RegionsAreUsable == Spec => []RegionsFit
<1>1. IInv => RegionsFit
  BY DEF IInv
<1> QED BY <1>1, Invariance, PTL

(* ArenaFull is reported only when the layout does not fit the current     *)
(* chunk and no chunk may be added, and that remains so.                    *)
THEOREM FailuresJustified == Spec => []FailureIsJustified
<1>1. IInv => FailureIsJustified
  BY DEF IInv
<1> QED BY <1>1, Invariance, PTL

(* At most one thread adds a chunk at a time, the owner of the mutex.        *)
LEMMA InvImpliesCap == IInv => CapRespected
<1> SUFFICES ASSUME IInv PROVE CapRespected
  OBVIOUS
<1>1. CASE Growing
  <2>1. PICK t \in Threads : pc[t] = "publish"
    BY <1>1 DEF Growing
  <2>2. Publishing = {t}
    BY <2>1 DEF IInv, MutexInv, Publishing
  <2>3. Cardinality(Publishing) = 1
    BY <2>2, FS_Singleton
  <2> QED BY <1>1, <2>3 DEF IInv, AccountInv, CapRespected
<1>2. CASE ~Growing
  <2>1. Publishing = {}
    BY <1>2 DEF Growing, Publishing
  <2>2. Cardinality(Publishing) = 0
    BY <2>1, FS_EmptySet
  <2>3. Len(bump) + 0 = Len(bump)
    BY DEF IInv, TypeOK
  <2> QED BY <1>2, <2>2, <2>3 DEF IInv, AccountInv, CapRespected
<1> QED BY <1>1, <1>2

(* The bytes obtained are those of the chunks, plus the one being added,   *)
(* and never exceed the capacity of the policy.                             *)
THEOREM CapNeverExceeded == Spec => []CapRespected
<1> QED BY InvImpliesCap, Invariance, PTL

(* Only a thread that holds the mutex and cannot use the current chunk     *)
(* replaces it, and nobody allocates from the chunk at that moment.         *)
THEOREM ChunkReplacement == Spec => ReplacesOnlyFullChunk
<1> DEFINE Replaced ==
      current_chunk' # current_chunk =>
        /\ mutex \in Threads
        /\ ~Fits(bump[current_chunk], Layout(mutex))
        /\ bump[current_chunk] = bump'[current_chunk]
        /\ current_chunk' = current_chunk + 1
<1>1. IInv /\ [Next]_vars => [Replaced]_vars
  <2> SUFFICES ASSUME IInv, Next, current_chunk' # current_chunk
               PROVE  Replaced
    OBVIOUS
  <2>1. PICK t \in Threads : Call(t) \/ Step(t)
    BY DEF Next
  <2>2. PublishChunk(t)
    BY <2>1 DEF Step, Call, GetChunk, LoadBump, CasBump, CasFails, Account,
       LockChunks, RecheckFits, RecheckFull, RecheckGrows, CountChunk, ReturnErr, shared
  <2>3. mutex = t /\ ~Fits(bump[current_chunk], Layout(mutex))
    BY <2>2 DEF PublishChunk, IInv, MutexInv, PublishInv
  <2>4. current_chunk \in 1 .. Len(bump) /\ current_chunk' = current_chunk + 1
    BY <2>2 DEF PublishChunk, IInv, TypeOK, CurrentIsLast
  <2>5. bump'[current_chunk] = bump[current_chunk]
    BY <2>2, <2>4 DEF PublishChunk, IInv, TypeOK
  <2> QED BY <2>3, <2>4, <2>5
<1> QED BY <1>1, Invariance, PTL DEF Spec, ReplacesOnlyFullChunk

-----------------------------------------------------------------------------
(* Sums over sets of regions: what MapThenSumSet computes.                  *)

(* A set of numbers that is not empty has a least one.                      *)
LEMMA LeastNat ==
  ASSUME NEW T \in SUBSET Nat, T # {}
  PROVE  \E m \in T : \A k \in T : m <= k
<1>1. PICK x \in T : \A y \in T : ~(<<y, x>> \in OpToRel(<, Nat))
  BY WFMin, NatLessThanWellFounded
<1>2. ASSUME NEW k \in T PROVE x <= k
  <2>1. <<k, x>> \in OpToRel(<, Nat) <=> k < x
    <3>1. <<k, x>> \in Nat \X Nat
      OBVIOUS
    <3> QED BY <3>1 DEF OpToRel
  <2>2. ~(k < x)
    BY <1>1, <2>1, Zenon
  <2>3. k \in Nat /\ x \in Nat
    OBVIOUS
  <2> QED BY <2>2, <2>3
<1> QED BY <1>2

(* Among subsets of a finite set there is one that includes no other: what  *)
(* the induction over the regions handed out rests on.                      *)
LEMMA SmallestSet ==
  ASSUME NEW S, IsFiniteSet(S), NEW C \in SUBSET (SUBSET S), C # {}
  PROVE  \E T \in C : \A U \in C : U \subseteq T => U = T
<1> DEFINE N == {Cardinality(T) : T \in C}
<1>1. \A T \in C : IsFiniteSet(T) /\ Cardinality(T) \in Nat
  BY FS_Subset, FS_CardinalityType
<1>2. N \in SUBSET Nat /\ N # {}
  BY <1>1
<1> HIDE DEF N
<1>3. PICK m \in N : \A k \in N : m <= k
  BY <1>2, LeastNat
<1>4. PICK T \in C : m = Cardinality(T)
  BY <1>3 DEF N
<1>5. ASSUME NEW U \in C, U \subseteq T PROVE U = T
  <2>1. Cardinality(U) \in N
    BY DEF N
  <2>2. Cardinality(T) <= Cardinality(U)
    BY <1>3, <1>4, <2>1
  <2>3. IsFiniteSet(T) /\ Cardinality(U) <= Cardinality(T)
    BY <1>1, <1>5, FS_Subset
  <2>4. Cardinality(U) = Cardinality(T)
    BY <1>1, <2>2, <2>3
  <2> QED BY <1>5, <2>3, <2>4, FS_Subset
<1> QED BY <1>5

(* The bytes of a set of regions, and the function that folding over the    *)
(* set computes them with.                                                  *)
Bytes(S) == MapThenSumSet(LAMBDA r : r.layout.size, S)

Some(s) == CHOOSE x \in s : TRUE

Sums(S, g) ==
  g = [s \in SUBSET S |->
         IF s = {} THEN 0 ELSE Some(s).layout.size + g[s \ {Some(s)}]]

(* MapThenSumSet chooses such a function.                                   *)
LEMMA BytesFold ==
  ASSUME NEW S PROVE Bytes(S) = (CHOOSE g : Sums(S, g))[S]
  BY Zenon DEF Bytes, Sums, Some, MapThenSumSet, MapThenFoldSet

(* It takes the regions out of the set one by one.                          *)
LEMMA SomeIsIn == ASSUME NEW s, s # {} PROVE Some(s) \in s
  BY DEF Some

(* What such a function gives for a set depends on nothing but the set.     *)
LEMMA SumsAgree ==
  ASSUME NEW S, IsFiniteSet(S), NEW T \in SUBSET S, NEW g, NEW h,
         Sums(S, g), Sums(T, h)
  PROVE  \A s \in SUBSET T : g[s] = h[s]
<1> DEFINE C == {s \in SUBSET T : g[s] # h[s]}
<1>1. SUFFICES ASSUME C # {} PROVE FALSE
  OBVIOUS
<1>2. IsFiniteSet(T) /\ C \in SUBSET (SUBSET T)
  BY FS_Subset
<1> HIDE DEF C
<1>3. PICK s \in C : \A u \in C : u \subseteq s => u = s
  BY <1>1, <1>2, SmallestSet
<1>4. s \in SUBSET T /\ s \in SUBSET S /\ g[s] # h[s]
  BY <1>2 DEF C
<1>5. CASE s = {}
  BY <1>4, <1>5 DEF Sums
<1>6. CASE s # {}
  <2> DEFINE u == s \ {Some(s)}
  <2>1. u \in SUBSET T /\ u \subseteq s /\ u # s
    BY <1>4, <1>6, SomeIsIn
  <2>2. g[u] = h[u]
    BY <1>3, <2>1 DEF C
  <2>3. g[s] = Some(s).layout.size + g[u] /\ h[s] = Some(s).layout.size + h[u]
    BY <1>4, <1>6 DEF Sums
  <2> QED BY <1>4, <2>2, <2>3
<1> QED BY <1>5, <1>6

(* There is such a function for every finite set.                           *)
LEMMA SumsExist ==
  ASSUME NEW S, IsFiniteSet(S)
  PROVE  \E g : Sums(S, g)
<1> DEFINE C == {T \in SUBSET S : ~ \E g : Sums(T, g)}
           G(T) == CHOOSE g : Sums(T, g)
<1>1. SUFFICES ASSUME C # {} PROVE FALSE
  OBVIOUS
<1>2. C \in SUBSET (SUBSET S)
  OBVIOUS
<1> HIDE DEF C
<1>3. PICK T \in C : \A U \in C : U \subseteq T => U = T
  BY <1>1, <1>2, SmallestSet
<1>4. T \in SUBSET S /\ IsFiniteSet(T)
  BY <1>2, FS_Subset
<1>5. ASSUME NEW U \in SUBSET T, U # T PROVE Sums(U, G(U))
  <2>1. U \in SUBSET S /\ U \notin C
    BY <1>3, <1>4, <1>5
  <2>2. \E g : Sums(U, g)
    BY <2>1 DEF C
  <2> QED BY <2>2, Zenon
<1> HIDE DEF G
<1> DEFINE h == [s \in SUBSET T |->
                   IF s = {} THEN 0
                   ELSE Some(s).layout.size + G(s \ {Some(s)})[s \ {Some(s)}]]
<1>6. ASSUME NEW u \in SUBSET T, u # T PROVE h[u] = G(u)[u]
  <2>1. Sums(u, G(u))
    BY <1>5, <1>6
  <2>2. CASE u = {}
    BY <2>1, <2>2 DEF Sums
  <2>3. CASE u # {}
    <3> DEFINE v == u \ {Some(u)}
    <3>1. v \in SUBSET u /\ v \in SUBSET T /\ v # T /\ IsFiniteSet(u)
      BY <1>4, <1>6, <2>3, SomeIsIn, FS_Subset
    <3>2. Sums(v, G(v))
      BY <1>5, <3>1
    <3>3. G(u)[v] = G(v)[v]
      BY <2>1, <3>1, <3>2, SumsAgree
    <3>4. G(u)[u] = Some(u).layout.size + G(u)[v]
      BY <2>1, <2>3 DEF Sums
    <3>5. h[u] = Some(u).layout.size + G(v)[v]
      BY <2>3
    <3> QED BY <3>3, <3>4, <3>5
  <2> QED BY <2>2, <2>3
<1>7. ASSUME NEW s \in SUBSET T
      PROVE  h[s] = IF s = {} THEN 0 ELSE Some(s).layout.size + h[s \ {Some(s)}]
  <2>1. CASE s = {}
    BY <2>1
  <2>2. CASE s # {}
    <3> DEFINE u == s \ {Some(s)}
    <3>1. u \in SUBSET T /\ u # T
      BY <2>2, SomeIsIn
    <3>2. h[u] = G(u)[u]
      BY <1>6, <3>1
    <3>3. h[s] = Some(s).layout.size + G(u)[u]
      BY <2>2
    <3> HIDE DEF h
    <3> QED BY <2>2, <3>2, <3>3
  <2> QED BY <2>1, <2>2
<1>8. h = [s \in SUBSET T |-> h[s]]
  OBVIOUS
<1> HIDE DEF h
<1>9. Sums(T, h)
  BY <1>7, <1>8 DEF Sums
<1> QED BY <1>3, <1>9 DEF C

(* Hence the sum can be unfolded,                                           *)
LEMMA BytesUnfold ==
  ASSUME NEW S, IsFiniteSet(S)
  PROVE  Bytes(S) = IF S = {} THEN 0 ELSE Some(S).layout.size + Bytes(S \ {Some(S)})
<1> DEFINE G(T) == CHOOSE g : Sums(T, g)
           u == S \ {Some(S)}
<1>1. Sums(S, G(S))
  BY SumsExist, Zenon
<1>2. IsFiniteSet(u) /\ u \in SUBSET S
  BY FS_RemoveElement
<1>3. Sums(u, G(u))
  BY <1>2, SumsExist, Zenon
<1>4. Bytes(S) = G(S)[S] /\ Bytes(u) = G(u)[u]
  BY BytesFold, Zenon
<1> HIDE DEF G
<1>5. G(S)[u] = G(u)[u]
  BY <1>1, <1>2, <1>3, SumsAgree
<1>6. G(S)[S] = IF S = {} THEN 0 ELSE Some(S).layout.size + G(S)[u]
  BY <1>1 DEF Sums
<1> QED BY <1>4, <1>5, <1>6

(* is a number,                                                             *)
LEMMA BytesType ==
  ASSUME NEW S \in SUBSET Regions, IsFiniteSet(S)
  PROVE  Bytes(S) \in Nat
<1> DEFINE C == {T \in SUBSET S : Bytes(T) \notin Nat}
<1>1. SUFFICES ASSUME C # {} PROVE FALSE
  OBVIOUS
<1>2. C \in SUBSET (SUBSET S)
  OBVIOUS
<1> HIDE DEF C
<1>3. PICK T \in C : \A U \in C : U \subseteq T => U = T
  BY <1>1, <1>2, SmallestSet
<1>4. T \in SUBSET S /\ IsFiniteSet(T) /\ Bytes(T) \notin Nat
  BY <1>2, FS_Subset DEF C
<1>5. Bytes(T) = IF T = {} THEN 0 ELSE Some(T).layout.size + Bytes(T \ {Some(T)})
  BY <1>4, BytesUnfold
<1>6. CASE T = {}
  BY <1>4, <1>5, <1>6
<1>7. CASE T # {}
  <2>1. Some(T) \in Regions /\ Some(T) \in T
    BY <1>4, <1>7, SomeIsIn
  <2>2. Some(T).layout.size \in Nat
    BY <2>1, LayoutAssumption DEF Regions
  <2>3. Bytes(T \ {Some(T)}) \in Nat
    BY <1>3, <1>4, <2>1 DEF C
  <2> QED BY <1>4, <1>5, <1>7, <2>2, <2>3
<1> QED BY <1>6, <1>7

(* and does not depend on the order: any region can be taken out first.     *)
LEMMA BytesRemove ==
  ASSUME NEW S \in SUBSET Regions, IsFiniteSet(S), NEW x \in S
  PROVE  Bytes(S) = x.layout.size + Bytes(S \ {x})
<1> DEFINE Out(T, y) == Bytes(T) = y.layout.size + Bytes(T \ {y})
           C == {T \in SUBSET S : \E y \in T : ~Out(T, y)}
<1>1. SUFFICES ASSUME C # {} PROVE FALSE
  <2>1. CASE C = {}
    <3>1. S \in SUBSET S /\ S \notin C
      BY <2>1
    <3> QED BY <3>1
  <2> QED BY <2>1
<1>2. C \in SUBSET (SUBSET S)
  OBVIOUS
<1> HIDE DEF C, Out
<1>3. PICK T \in C : \A U \in C : U \subseteq T => U = T
  BY <1>1, <1>2, SmallestSet
<1>4. T \in SUBSET S /\ IsFiniteSet(T) /\ \E y \in T : ~Out(T, y)
  BY <1>2, FS_Subset DEF C
<1>5. PICK y \in T : ~Out(T, y)
  BY <1>4
<1> DEFINE c == Some(T)
<1>6. c \in T /\ Bytes(T) = c.layout.size + Bytes(T \ {c})
  BY <1>4, <1>5, BytesUnfold, SomeIsIn
<1> HIDE DEF c
<1>7. c # y
  BY <1>5, <1>6 DEF Out
<1>8. T \ {c} \notin C /\ T \ {y} \notin C
  BY <1>3, <1>6
<1>9. Out(T \ {c}, y) /\ Out(T \ {y}, c)
  BY <1>4, <1>5, <1>6, <1>7, <1>8 DEF C
<1> DEFINE R == (T \ {c}) \ {y}
<1>10. R = (T \ {y}) \ {c}
  OBVIOUS
<1>11. /\ Bytes(T \ {c}) = y.layout.size + Bytes(R)
       /\ Bytes(T \ {y}) = c.layout.size + Bytes(R)
  BY <1>9, <1>10 DEF Out
<1>12. R \in SUBSET Regions /\ IsFiniteSet(R)
  BY <1>4, FS_Subset
<1> HIDE DEF R
<1>13. Bytes(R) \in Nat /\ c.layout.size \in Nat /\ y.layout.size \in Nat
  <2>1. c \in Regions /\ y \in Regions
    BY <1>4, <1>5, <1>6
  <2>2. c.layout.size \in Nat /\ y.layout.size \in Nat
    BY <2>1, LayoutAssumption DEF Regions
  <2> QED BY <1>12, <2>2, BytesType
<1>14. Bytes(T) = y.layout.size + Bytes(T \ {y})
  BY <1>6, <1>11, <1>13
<1> QED BY <1>5, <1>14 DEF Out

-----------------------------------------------------------------------------
(***************************************************************************)
(* Which call has which region.  A call gets at most one, the calls of a   *)
(* thread are numbered downwards, and a thread that is about to count its  *)
(* bytes has the region its locals describe.                               *)
(***************************************************************************)
OwnRegion(t) == Region(chunk[t], seen[t], Layout(t), <<t, calls[t]>>)

OnePerCall == \A r, s \in granted : r.by = s.by => r = s

EarlierCalls ==
  \A r \in granted : \A t \in Threads :
    r.by[1] = t =>
      /\ r.by[2] >= calls[t]
      /\ pc[t] \notin {"idle", "account"} => r.by[2] > calls[t]

HasRegion == \A t \in Threads : pc[t] = "account" => OwnRegion(t) \in granted

OwnInv == OnePerCall /\ EarlierCalls /\ HasRegion

(* The regions whose call has counted their bytes.                          *)
Settled ==
  {r \in granted : \A t \in Threads : pc[t] = "account" => r.by # <<t, calls[t]>>}

UsedInv == IsFiniteSet(granted) /\ memory_used = Bytes(Settled)

(* What a region of t's current call is made of.                            *)
LEMMA OwnRegionFields ==
  ASSUME NEW t \in Threads
  PROVE  /\ OwnRegion(t).by = <<t, calls[t]>>
         /\ OwnRegion(t).by[1] = t /\ OwnRegion(t).by[2] = calls[t]
         /\ OwnRegion(t).chunk = chunk[t] /\ OwnRegion(t).layout = Layout(t)
         /\ OwnRegion(t).start = Aligned(seen[t], Layout(t))
         /\ OwnRegion(t).end = NextOffset(seen[t], Layout(t))
  BY DEF OwnRegion, Region

(* The parts of a region.                                                   *)
LEMMA RegionFields ==
  ASSUME TypeOK, NEW r \in granted
  PROVE  /\ r \in Regions /\ r.by[1] \in Threads /\ r.by[2] \in Nat
         /\ r.by = <<r.by[1], r.by[2]>>
         /\ r.start \in Nat /\ r.end \in Nat /\ r.layout \in Layouts
<1>1. r \in Regions
  BY DEF TypeOK
<1>2. r.by \in Threads \X Nat /\ r.start \in Nat /\ r.end \in Nat /\ r.layout \in Layouts
  BY <1>1 DEF Regions
<1> QED BY <1>1, <1>2

(* A step of t that hands out nothing, is neither a new call nor its end,   *)
(* and leaves the others alone.                                             *)
LEMMA QuietOwn ==
  ASSUME TypeOK, OwnInv, UsedInv, NEW t \in Threads, NEW to \in PcValues,
         pc[t] \notin {"idle", "account"}, to # "account", Goto(t, to),
         UNCHANGED <<granted, calls, memory_used>>,
         \A u \in Threads \ {t} :
           chunk'[u] = chunk[u] /\ seen'[u] = seen[u] /\ call'[u] = call[u]
  PROVE  OwnInv' /\ UsedInv'
<1>1. /\ pc'[t] = to
      /\ \A u \in Threads \ {t} : pc'[u] = pc[u]
  BY DEF TypeOK, Goto
<1>2. OnePerCall'
  BY DEF OwnInv, OnePerCall
<1>3. EarlierCalls'
  BY <1>1 DEF OwnInv, EarlierCalls
<1>4. HasRegion'
  <2>1. ASSUME NEW u \in Threads \ {t} PROVE OwnRegion(u)' = OwnRegion(u)
    BY <1>1 DEF OwnRegion, Region, Layout, NextOffset, Aligned
  <2> QED BY <1>1, <2>1 DEF OwnInv, HasRegion
<1>5. Settled' = Settled
  BY <1>1 DEF Settled
<1> QED BY <1>2, <1>3, <1>4, <1>5 DEF OwnInv, UsedInv

(* A call gets a number that no region has yet.                             *)
LEMMA CallOwn ==
  ASSUME TypeOK, OwnInv, UsedInv, NEW t \in Threads, Call(t)
  PROVE  OwnInv' /\ UsedInv'
<1> USE DEF Call, Goto, shared
<1>1. /\ pc[t] = "idle" /\ pc'[t] = "get_chunk"
      /\ \A u \in Threads \ {t} : pc'[u] = pc[u]
  BY DEF TypeOK
<1>2. /\ calls'[t] = calls[t] - 1 /\ calls[t] \in Nat
      /\ \A u \in Threads \ {t} : calls'[u] = calls[u] /\ call'[u] = call[u]
  BY BoundAssumption DEF TypeOK
<1>3. OnePerCall'
  BY DEF OwnInv, OnePerCall
<1>4. EarlierCalls'
  <2> SUFFICES ASSUME NEW r \in granted, NEW u \in Threads, r.by[1] = u
               PROVE  /\ r.by[2] >= calls'[u]
                      /\ pc'[u] \notin {"idle", "account"} => r.by[2] > calls'[u]
    BY DEF EarlierCalls
  <2>1. r.by[2] \in Nat /\ r.by[2] >= calls[u]
        /\ (pc[u] \notin {"idle", "account"} => r.by[2] > calls[u])
    BY RegionFields DEF OwnInv, EarlierCalls
  <2> QED BY <1>1, <1>2, <2>1
<1>5. HasRegion'
  <2>1. ASSUME NEW u \in Threads \ {t} PROVE OwnRegion(u)' = OwnRegion(u)
    BY <1>1, <1>2 DEF OwnRegion, Region, Layout, NextOffset, Aligned
  <2> QED BY <1>1, <1>2, <2>1 DEF OwnInv, HasRegion
<1>6. Settled' = Settled
  BY <1>1, <1>2 DEF Settled
<1> QED BY <1>3, <1>4, <1>5, <1>6 DEF OwnInv, UsedInv

(* The compare-and-swap gives the call its region, not yet counted.         *)
LEMMA CasBumpOwn ==
  ASSUME TypeOK, OwnInv, UsedInv, NEW t \in Threads, CasBump(t)
  PROVE  OwnInv' /\ UsedInv'
<1> USE DEF CasBump, Goto
<1>1. /\ pc[t] = "cas" /\ pc'[t] = "account"
      /\ \A u \in Threads \ {t} : pc'[u] = pc[u]
  BY DEF TypeOK
<1>2. granted' = granted \union {OwnRegion(t)} /\ calls' = calls
  BY DEF OwnRegion
<1>3. /\ OwnRegion(t).by = <<t, calls[t]>>
      /\ OwnRegion(t).by[1] = t /\ OwnRegion(t).by[2] = calls[t]
  BY OwnRegionFields
<1>4. calls[t] \in Nat
  BY BoundAssumption DEF TypeOK
<1>5. \A r \in granted : r.by # <<t, calls[t]>>
  <2> SUFFICES ASSUME NEW r \in granted, r.by = <<t, calls[t]>> PROVE FALSE
    OBVIOUS
  <2>1. r.by[1] = t /\ r.by[2] = calls[t]
    OBVIOUS
  <2>2. r.by[2] > calls[t]
    BY <1>1, <2>1 DEF OwnInv, EarlierCalls
  <2> QED BY <1>4, <2>1, <2>2
<1>6. OnePerCall'
  BY <1>2, <1>3, <1>5 DEF OwnInv, OnePerCall
<1>7. EarlierCalls'
  <2> SUFFICES ASSUME NEW r \in granted', NEW u \in Threads, r.by[1] = u
               PROVE  /\ r.by[2] >= calls[u]
                      /\ pc'[u] \notin {"idle", "account"} => r.by[2] > calls[u]
    BY <1>2 DEF EarlierCalls
  <2>1. CASE r \in granted
    BY <1>1, <2>1 DEF OwnInv, EarlierCalls
  <2>2. CASE r = OwnRegion(t)
    BY <1>1, <1>3, <1>4, <2>2
  <2> QED BY <1>2, <2>1, <2>2
<1>8. HasRegion'
  <2>1. \A u \in Threads : OwnRegion(u)' = OwnRegion(u)
    BY DEF OwnRegion, Region, Layout, NextOffset, Aligned
  <2> QED BY <1>1, <1>2, <2>1 DEF OwnInv, HasRegion
<1>9. Settled' = Settled
  BY <1>1, <1>2, <1>3, <1>5 DEF Settled
<1>10. IsFiniteSet(granted')
  BY <1>2, FS_AddElement DEF UsedInv
<1> QED BY <1>6, <1>7, <1>8, <1>9, <1>10 DEF OwnInv, UsedInv

(* fetch_add counts the bytes of the one region that was not counted.       *)
LEMMA AccountOwn ==
  ASSUME TypeOK, OwnInv, UsedInv, NEW t \in Threads, Account(t)
  PROVE  /\ OwnInv' /\ UsedInv'
         /\ Settled' = Settled \union {OwnRegion(t)} /\ OwnRegion(t) \notin Settled
<1> USE DEF Account, Return, ForgetLocals, Goto
<1>1. /\ pc[t] = "account" /\ pc'[t] = "idle"
      /\ \A u \in Threads \ {t} :
           pc'[u] = pc[u] /\ chunk'[u] = chunk[u] /\ seen'[u] = seen[u]
           /\ call'[u] = call[u]
      /\ calls' = calls /\ granted' = granted
  BY DEF TypeOK
<1>2. OnePerCall'
  BY <1>1 DEF OwnInv, OnePerCall
<1>3. EarlierCalls'
  BY <1>1 DEF OwnInv, EarlierCalls
<1>4. HasRegion'
  <2>1. ASSUME NEW u \in Threads \ {t} PROVE OwnRegion(u)' = OwnRegion(u)
    BY <1>1 DEF OwnRegion, Region, Layout, NextOffset, Aligned
  <2> QED BY <1>1, <2>1 DEF OwnInv, HasRegion
<1> DEFINE r == OwnRegion(t)
<1>5. r \in granted /\ r.by = <<t, calls[t]>> /\ r.layout = Layout(t)
  BY <1>1, OwnRegionFields DEF OwnInv, HasRegion
<1> HIDE DEF r
<1>6. r \notin Settled
  BY <1>1, <1>5 DEF Settled
<1>7. Settled' = Settled \union {r}
  <2>1. ASSUME NEW s \in granted, s # r PROVE s \in Settled' <=> s \in Settled
    <3>1. s.by # <<t, calls[t]>>
      BY <1>5, <2>1 DEF OwnInv, OnePerCall
    <3> QED BY <1>1, <3>1 DEF Settled
  <2>2. r \in Settled'
    BY <1>1, <1>5 DEF Settled
  <2>3. Settled \subseteq granted /\ Settled' \subseteq granted
    BY <1>1 DEF Settled
  <2> QED BY <1>5, <2>1, <2>2, <2>3
<1>8. memory_used' = Bytes(Settled')
  <2> DEFINE S == Settled \union {r}
  <2>1. S \in SUBSET Regions /\ IsFiniteSet(S) /\ S \ {r} = Settled /\ r \in S
    <3>1. S \in SUBSET granted
      BY <1>5 DEF Settled
    <3>2. IsFiniteSet(S)
      BY <3>1, FS_Subset DEF UsedInv
    <3> QED BY <1>6, <3>1, <3>2 DEF TypeOK
  <2>2. PICK Q : Q = S
    OBVIOUS
  <2>3. PICK x : x = r
    OBVIOUS
  <2>4. Q \in SUBSET Regions /\ IsFiniteSet(Q) /\ x \in Q
    BY <2>1, <2>2, <2>3
  <2>5. Bytes(Q) = x.layout.size + Bytes(Q \ {x})
    BY <2>4, BytesRemove
  <2>6. Bytes(S) = r.layout.size + Bytes(Settled)
    BY <2>1, <2>2, <2>3, <2>5
  <2>7. Bytes(Settled) = memory_used /\ memory_used \in Nat /\ Layout(t).size \in Nat
    BY StateFacts, LayoutAssumption DEF UsedInv, TypeOK
  <2>8. memory_used' = memory_used + Layout(t).size
    OBVIOUS
  <2>9. Bytes(Settled') = Bytes(S)
    BY <1>7
  <2> HIDE DEF S
  <2> QED BY <1>5, <2>6, <2>7, <2>8, <2>9
<1>9. OwnInv' /\ UsedInv'
  <2>1. Bytes(Settled)' = Bytes(Settled')
    OBVIOUS
  <2> QED BY <1>1, <1>2, <1>3, <1>4, <1>8, <2>1 DEF OwnInv, UsedInv
<1> QED BY <1>6, <1>7, <1>9 DEF r

(* Nothing is handed out at first.                                          *)
LEMMA InitOwn == Init => OwnInv /\ UsedInv
<1> SUFFICES ASSUME Init PROVE OwnInv /\ UsedInv
  OBVIOUS
<1>1. OwnInv
  BY DEF Init, OwnInv, OnePerCall, EarlierCalls, HasRegion
<1>2. Settled = {} /\ granted = {} /\ memory_used = 0
  BY DEF Init, Settled
<1>3. Bytes({}) = 0
  BY FS_EmptySet, BytesUnfold
<1> QED BY <1>1, <1>2, <1>3, FS_EmptySet DEF UsedInv

(* Every step keeps the account of the calls.                               *)
LEMMA NextOwn == IInv /\ OwnInv /\ UsedInv /\ [Next]_vars => OwnInv' /\ UsedInv'
<1> SUFFICES ASSUME IInv, OwnInv, UsedInv, [Next]_vars PROVE OwnInv' /\ UsedInv'
  OBVIOUS
<1>1. TypeOK
  BY DEF IInv
<1>2. ASSUME NEW t \in Threads, GetChunk(t) PROVE OwnInv' /\ UsedInv'
  <2>1. "load_bump" \in PcValues
    BY DEF PcValues
  <2> QED BY <1>1, <1>2, <2>1, QuietOwn DEF GetChunk, TypeOK, shared
<1>3. ASSUME NEW t \in Threads, LoadBump(t) PROVE OwnInv' /\ UsedInv'
  <2> DEFINE to == IF Fits(bump[chunk[t]], Layout(t)) THEN "cas" ELSE "lock"
  <2>1. to \in PcValues /\ to # "account" /\ Goto(t, to)
    BY <1>3 DEF PcValues, LoadBump
  <2> HIDE DEF to
  <2> QED BY <1>1, <1>3, <2>1, QuietOwn DEF LoadBump, TypeOK, shared
<1>4. ASSUME NEW t \in Threads, CasFails(t) PROVE OwnInv' /\ UsedInv'
  <2>1. "get_chunk" \in PcValues
    BY DEF PcValues
  <2> QED BY <1>1, <1>4, <2>1, QuietOwn DEF CasFails, ForgetLocals, TypeOK, shared
<1>5. ASSUME NEW t \in Threads, LockChunks(t) PROVE OwnInv' /\ UsedInv'
  <2>1. "recheck" \in PcValues
    BY DEF PcValues
  <2> QED BY <1>1, <1>5, <2>1, QuietOwn DEF LockChunks, TypeOK
<1>6. ASSUME NEW t \in Threads, RecheckFits(t) PROVE OwnInv' /\ UsedInv'
  <2>1. "get_chunk" \in PcValues
    BY DEF PcValues
  <2> QED BY <1>1, <1>6, <2>1, QuietOwn DEF RecheckFits, ForgetLocals, TypeOK
<1>7. ASSUME NEW t \in Threads, RecheckFull(t) PROVE OwnInv' /\ UsedInv'
  <2> DEFINE to == IF call[t].entry = "alloc_raw" THEN "panicked" ELSE "failed"
  <2>1. to \in PcValues /\ to # "account" /\ Goto(t, to)
    BY <1>7 DEF PcValues, RecheckFull
  <2> HIDE DEF to
  <2> QED BY <1>1, <1>7, <2>1, QuietOwn DEF RecheckFull, TypeOK
<1>8. ASSUME NEW t \in Threads, RecheckGrows(t) PROVE OwnInv' /\ UsedInv'
  <2>1. "count" \in PcValues
    BY DEF PcValues
  <2> QED BY <1>1, <1>8, <2>1, QuietOwn DEF RecheckGrows, TypeOK, shared
<1>a. ASSUME NEW t \in Threads, CountChunk(t) PROVE OwnInv' /\ UsedInv'
  <2>1. "publish" \in PcValues
    BY DEF PcValues
  <2> QED BY <1>1, <1>a, <2>1, QuietOwn DEF CountChunk, TypeOK
<1>9. ASSUME NEW t \in Threads, PublishChunk(t) PROVE OwnInv' /\ UsedInv'
  <2>1. "get_chunk" \in PcValues
    BY DEF PcValues
  <2> QED BY <1>1, <1>9, <2>1, QuietOwn DEF PublishChunk, ForgetLocals, TypeOK
<1>10. ASSUME NEW t \in Threads, ReturnErr(t) PROVE OwnInv' /\ UsedInv'
  <2>1. "idle" \in PcValues
    BY DEF PcValues
  <2> QED BY <1>1, <1>10, <2>1, QuietOwn DEF ReturnErr, Return, ForgetLocals, TypeOK, shared
<1>11. CASE UNCHANGED vars
  BY <1>11 DEF vars, shared, OwnInv, UsedInv, OnePerCall, EarlierCalls, HasRegion,
     OwnRegion, Region, Layout, NextOffset, Aligned, Settled
<1> QED BY <1>1, <1>2, <1>3, <1>4, <1>5, <1>6, <1>7, <1>8, <1>a, <1>9, <1>10, <1>11,
        CallOwn, CasBumpOwn, AccountOwn DEF Next, Step

(* Whenever nobody is between the compare-and-swap and the fetch_add, the   *)
(* counter memory_used is the number of bytes handed out.                   *)
THEOREM MemoryUsedIsExact == Spec => []MemoryUsedExact
<1>1. IInv /\ UsedInv => MemoryUsedExact
  <2> SUFFICES ASSUME UsedInv, \A t \in Threads : pc[t] # "account"
               PROVE  memory_used = MapThenSumSet(LAMBDA r : r.layout.size, granted)
    BY DEF MemoryUsedExact
  <2>1. Settled = granted
    BY DEF Settled
  <2> QED BY <2>1 DEF UsedInv, Bytes
<1> QED BY <1>1, InitOwn, NextOwn, Invariance, PTL DEF Spec

-----------------------------------------------------------------------------
(* The memory of skip-list nodes.  A step of the store is a step of the     *)
(* arena, so that regions are disjoint here too; it remains to show that a  *)
(* node is written inside the region of its own call, once.                 *)

(* A store is an arena with bytes.                                          *)
LEMMA StoreStepIsArenaStep == [StoreNext]_nodeVars => [Next]_vars
  BY DEF StoreNext, ArenaStep, WriteNode, KeepBlank, AddChunk, Next, Step,
     nodeVars

(* So the invariants of the arena hold in a store.                          *)
LEMMA StoreHasArena == StoreSpec => [](IInv /\ OwnInv /\ UsedInv)
<1>1. StoreInit => Init
  BY DEF StoreInit
<1> QED BY <1>1, InitInv, NextInv, InitOwn, NextOwn, StoreStepIsArenaStep, PTL
        DEF StoreSpec

(* A store implements the arena: what is proved of the arena is so of it.   *)
THEOREM StoreImplementsArena == StoreSpec => Spec
<1>1. StoreInit => Init
  BY DEF StoreInit
<1> QED BY <1>1, StoreStepIsArenaStep, PTL DEF StoreSpec, Spec

-----------------------------------------------------------------------------
(* Every chunk has bytes, and every node written is where a call whose      *)
(* bytes are counted has its region.                                        *)
Owners == [chunk : Nat, start : Nat]

Contents ==
  [part : {"blank", "header", "tower", "key", "value"}, owner : Owners, at : Int]

Chunks == [0 .. BlockSize - 1 -> Contents]

MemOk == mem \in Seq(Chunks) /\ Len(mem) = Len(bump)

Home(w, r) ==
  r.chunk = w.chunk /\ r.start = w.start /\ r.layout = BuildLayout(w.node)

WrittenOk ==
  \A w \in written : w.node \in Nodes /\ \E r \in Settled : Home(w, r)

StoreInv == MemOk /\ WrittenOk /\ NodesIntact

-----------------------------------------------------------------------------
(* The parts of a node follow one another from its start to the end of the  *)
(* layout that build_layout asks for; the length in the header is the key's *)
(* unless the key is too long for its field.                                *)
LEMMA Parts ==
  ASSUME NEW node \in Nodes, NEW start \in Nat,
         NEW tower, tower = TowerPtr(start),
         NEW key, key = KeyPtr(start, HeaderOf(node)),
         NEW value, value = ValuePtr(start, HeaderOf(node))
  PROVE  /\ tower \in Nat /\ key \in Nat /\ value \in Nat
         /\ node.key \in Nat /\ node.value \in Nat
         /\ start < tower /\ tower <= key /\ key <= value
         /\ value <= key + node.key
         /\ node.key < KeyRange => value = key + node.key
         /\ BuildLayout(node).size \in Nat
         /\ BuildLayout(node).align = PtrSize
         /\ value + node.value = start + BuildLayout(node).size
<1>1. /\ node.height \in Nat /\ node.key \in Nat /\ node.value \in Nat
      /\ PtrSize \in Nat /\ HeaderSize \in Nat \ {0} /\ KeyRange \in Nat \ {0}
  BY NodeAssumption
<1> DEFINE tall == node.height * PtrSize
           len == KeyLen(node)
<1>2. tall \in Nat
  BY <1>1
<1>3. len \in Nat /\ len <= node.key /\ (node.key < KeyRange => len = node.key)
  <2>1. len = node.key % KeyRange
    BY DEF KeyLen
  <2>2. /\ node.key \div KeyRange \in Nat /\ len \in 0 .. KeyRange - 1
        /\ node.key = KeyRange * (node.key \div KeyRange) + len
    BY <1>1, <2>1, DivMod
  <2>3. KeyRange * (node.key \div KeyRange) \in Nat
    BY <1>1, <2>2
  <2>4. ASSUME node.key < KeyRange PROVE len = node.key
    BY <1>1, <2>1, <2>4
  <2> HIDE DEF len
  <2> QED BY <1>1, <2>2, <2>3, <2>4
<1>4. /\ tower = start + HeaderSize
      /\ key = start + HeaderSize + tall
      /\ value = start + HeaderSize + tall + len
      /\ BuildLayout(node).size = HeaderSize + tall + len + node.value
      /\ BuildLayout(node).align = PtrSize
  BY DEF TowerPtr, KeyPtr, ValuePtr, HeaderOf, BuildLayout
<1> HIDE DEF tall, len
<1> QED BY <1>1, <1>2, <1>3, <1>4

(* Writing a node leaves the bytes below it alone, and those behind its     *)
(* layout too unless its key is too long.                                   *)
LEMMA WritesInside ==
  ASSUME NEW bytes, NEW node \in Nodes, NEW start \in Nat, NEW owner,
         NEW b \in DOMAIN bytes, b \in Int,
         \/ b < start
         \/ node.key < KeyRange /\ start + BuildLayout(node).size <= b
  PROVE  WrittenOver(bytes, start, node, owner)[b] = bytes[b]
<1> DEFINE h == HeaderOf(node)
           tower == TowerPtr(start)
           key == KeyPtr(start, h)
           value == ValuePtr(start, h)
<1>1. /\ tower \in Nat /\ key \in Nat /\ value \in Nat
      /\ node.key \in Nat /\ node.value \in Nat
      /\ start < tower /\ tower <= key /\ key <= value
      /\ node.key < KeyRange => value = key + node.key
      /\ value + node.value = start + BuildLayout(node).size
  BY Parts
<1>2. WrittenOver(bytes, start, node, owner)[b] =
        IF b \in value .. value + node.value - 1
          THEN [part |-> "value", owner |-> owner, at |-> b - value]
        ELSE IF b \in key .. key + node.key - 1
          THEN [part |-> "key", owner |-> owner, at |-> b - key]
        ELSE IF b \in tower .. key - 1
          THEN [part |-> "tower", owner |-> owner, at |-> b - tower]
        ELSE IF b \in start .. tower - 1
          THEN [part |-> "header", owner |-> owner, at |-> b - start]
        ELSE bytes[b]
  BY DEF WrittenOver
<1> HIDE DEF tower, key, value, h
<1>3. /\ b \notin value .. value + node.value - 1
      /\ b \notin key .. key + node.key - 1
      /\ b \notin tower .. key - 1
      /\ b \notin start .. tower - 1
  BY <1>1
<1> QED BY <1>2, <1>3

(* And what it writes are the four parts, the key up to its length in the   *)
(* header.                                                                  *)
PartsWritten(bytes, start, node, owner, b) ==
  LET h == HeaderOf(node)
      tower == TowerPtr(start)
      key == KeyPtr(start, h)
      value == ValuePtr(start, h)
      byte == WrittenOver(bytes, start, node, owner)[b]
  IN  /\ b \in start .. tower - 1 =>
           byte = [part |-> "header", owner |-> owner, at |-> b - start]
      /\ b \in tower .. key - 1 =>
           byte = [part |-> "tower", owner |-> owner, at |-> b - tower]
      /\ b \in key .. value - 1 =>
           byte = [part |-> "key", owner |-> owner, at |-> b - key]
      /\ b \in value .. value + node.value - 1 =>
           byte = [part |-> "value", owner |-> owner, at |-> b - value]

(* The order of the writes and the lengths do not spoil a part.             *)
LEMMA WritesParts ==
  ASSUME NEW bytes, NEW node \in Nodes, NEW start \in Nat, NEW owner,
         NEW b \in DOMAIN bytes, b \in Int
  PROVE  PartsWritten(bytes, start, node, owner, b)
<1> DEFINE h == HeaderOf(node)
           tower == TowerPtr(start)
           key == KeyPtr(start, h)
           value == ValuePtr(start, h)
           byte == WrittenOver(bytes, start, node, owner)[b]
<1>1. /\ tower \in Nat /\ key \in Nat /\ value \in Nat
      /\ node.key \in Nat /\ node.value \in Nat
      /\ start < tower /\ tower <= key /\ key <= value
      /\ value <= key + node.key
  BY Parts
<1>2. byte =
        IF b \in value .. value + node.value - 1
          THEN [part |-> "value", owner |-> owner, at |-> b - value]
        ELSE IF b \in key .. key + node.key - 1
          THEN [part |-> "key", owner |-> owner, at |-> b - key]
        ELSE IF b \in tower .. key - 1
          THEN [part |-> "tower", owner |-> owner, at |-> b - tower]
        ELSE IF b \in start .. tower - 1
          THEN [part |-> "header", owner |-> owner, at |-> b - start]
        ELSE bytes[b]
  BY DEF WrittenOver
<1> HIDE DEF tower, key, value, byte, h
<1>3. ASSUME b \in start .. tower - 1
      PROVE  /\ b \notin value .. value + node.value - 1
             /\ b \notin key .. key + node.key - 1
             /\ b \notin tower .. key - 1
  BY <1>1, <1>3
<1>4. ASSUME b \in tower .. key - 1
      PROVE  /\ b \notin value .. value + node.value - 1
             /\ b \notin key .. key + node.key - 1
  BY <1>1, <1>4
<1>5. ASSUME b \in key .. value - 1
      PROVE  /\ b \notin value .. value + node.value - 1
             /\ b \in key .. key + node.key - 1
  BY <1>1, <1>5
<1>6. /\ b \in start .. tower - 1 =>
           byte = [part |-> "header", owner |-> owner, at |-> b - start]
      /\ b \in tower .. key - 1 =>
           byte = [part |-> "tower", owner |-> owner, at |-> b - tower]
      /\ b \in key .. value - 1 =>
           byte = [part |-> "key", owner |-> owner, at |-> b - key]
      /\ b \in value .. value + node.value - 1 =>
           byte = [part |-> "value", owner |-> owner, at |-> b - value]
  BY <1>2, <1>3, <1>4, <1>5
<1> QED BY <1>6 DEF PartsWritten, tower, key, value, byte, h

(* A chunk remains one.                                                     *)
LEMMA WritesContents ==
  ASSUME NEW bytes \in Chunks, NEW node \in Nodes, NEW start \in Nat,
         NEW owner \in Owners
  PROVE  WrittenOver(bytes, start, node, owner) \in Chunks
<1> DEFINE h == HeaderOf(node)
           tower == TowerPtr(start)
           key == KeyPtr(start, h)
           value == ValuePtr(start, h)
<1>1. tower \in Nat /\ key \in Nat /\ value \in Nat
  BY Parts
<1>2. \A part \in {"header", "tower", "key", "value"}, b \in 0 .. BlockSize - 1,
        from \in Nat : [part |-> part, owner |-> owner, at |-> b - from] \in Contents
  BY DEF Contents
<1>3. DOMAIN WrittenOver(bytes, start, node, owner) = 0 .. BlockSize - 1
      /\ WrittenOver(bytes, start, node, owner)
           = [b \in 0 .. BlockSize - 1 |-> WrittenOver(bytes, start, node, owner)[b]]
  BY DEF WrittenOver, Chunks
<1>4. ASSUME NEW b \in 0 .. BlockSize - 1
      PROVE  WrittenOver(bytes, start, node, owner)[b] \in Contents
  <2>1. WrittenOver(bytes, start, node, owner)[b] =
          IF b \in value .. value + node.value - 1
            THEN [part |-> "value", owner |-> owner, at |-> b - value]
          ELSE IF b \in key .. key + node.key - 1
            THEN [part |-> "key", owner |-> owner, at |-> b - key]
          ELSE IF b \in tower .. key - 1
            THEN [part |-> "tower", owner |-> owner, at |-> b - tower]
          ELSE IF b \in start .. tower - 1
            THEN [part |-> "header", owner |-> owner, at |-> b - start]
          ELSE bytes[b]
    BY DEF WrittenOver, Chunks
  <2> HIDE DEF h, tower, key, value
  <2>2. bytes[b] \in Contents
    BY DEF Chunks
  <2>3. /\ [part |-> "value", owner |-> owner, at |-> b - value] \in Contents
        /\ [part |-> "key", owner |-> owner, at |-> b - key] \in Contents
        /\ [part |-> "tower", owner |-> owner, at |-> b - tower] \in Contents
        /\ [part |-> "header", owner |-> owner, at |-> b - start] \in Contents
    BY <1>1, <1>2
  <2> QED BY <2>1, <2>2, <2>3, Zenon
<1> QED BY <1>3, <1>4, Zenon DEF Chunks

(* The sum of two aligned numbers is aligned: the header leaves the tower   *)
(* aligned.                                                                 *)
LEMMA AlignedSum ==
  ASSUME NEW x \in Nat, NEW y \in Nat, NEW a \in Nat \ {0}, x % a = 0, y % a = 0
  PROVE  (x + y) % a = 0
<1>1. /\ x \div a \in Nat /\ x = a * (x \div a) + (x % a)
      /\ y \div a \in Nat /\ y = a * (y \div a) + (y % a)
  BY DivMod
<1> DEFINE p == x \div a
           q == y \div a
<1>2. p \in Nat /\ q \in Nat /\ x = a * p + 0 /\ y = a * q + 0
  BY <1>1
<1> HIDE DEF p, q
<1>3. a * p \in Nat /\ a * q \in Nat /\ a * (p + q) = a * p + a * q
  BY <1>2
<1>4. x + y = a * (p + q)
  BY <1>2, <1>3
<1> QED BY <1>2, <1>4, ModOfMultiple


-----------------------------------------------------------------------------
(* A node whose bytes no step changes stays intact.                         *)
LEMMA IntactKept ==
  ASSUME NEW w, w.node \in Nodes, w.start \in Nat, Intact(w),
         \A b \in w.start .. (w.start + BuildLayout(w.node).size) - 1 :
           b \in DOMAIN mem[w.chunk] =>
             b \in DOMAIN mem'[w.chunk] /\ mem'[w.chunk][b] = mem[w.chunk][b]
  PROVE  Intact(w)'
<1> DEFINE owner == [chunk |-> w.chunk, start |-> w.start]
           h == HeaderOf(w.node)
           tower == TowerPtr(w.start)
           key == KeyPtr(w.start, h)
           value == ValuePtr(w.start, h)
           end == w.start + BuildLayout(w.node).size
<1>1. /\ tower \in Nat /\ key \in Nat /\ value \in Nat /\ end \in Nat
      /\ w.node.value \in Nat
      /\ w.start < tower /\ tower <= key /\ key <= value
      /\ value + w.node.value = end
  BY Parts
<1>2. /\ Holds(w.chunk, w.start, tower, "header", owner)
      /\ tower % PtrSize = 0
      /\ Holds(w.chunk, tower, key, "tower", owner)
      /\ Holds(w.chunk, key, value, "key", owner)
      /\ Holds(w.chunk, value, value + w.node.value, "value", owner)
  BY DEF Intact
<1>3. \A b \in w.start .. end - 1 :
        b \in DOMAIN mem[w.chunk] =>
          b \in DOMAIN mem'[w.chunk] /\ mem'[w.chunk][b] = mem[w.chunk][b]
  BY Zenon
<1> HIDE DEF tower, key, value, end, h, owner
<1>4. ASSUME NEW from \in Nat, NEW to \in Nat, NEW part,
             w.start <= from, to <= end, Holds(w.chunk, from, to, part, owner)
      PROVE  Holds(w.chunk, from, to, part, owner)'
  <2> SUFFICES ASSUME NEW b \in from .. to - 1
               PROVE  /\ b \in DOMAIN mem'[w.chunk]
                      /\ mem'[w.chunk][b] = [part |-> part, owner |-> owner, at |-> b - from]
    BY DEF Holds, owner
  <2>1. b \in w.start .. end - 1
    BY <1>1, <1>4
  <2>2. /\ b \in DOMAIN mem[w.chunk]
        /\ mem[w.chunk][b] = [part |-> part, owner |-> owner, at |-> b - from]
    BY <1>4 DEF Holds
  <2> QED BY <1>3, <2>1, <2>2
<1>5. Holds(w.chunk, w.start, tower, "header", owner)'
  BY <1>1, <1>2, <1>4
<1>6. Holds(w.chunk, tower, key, "tower", owner)'
  BY <1>1, <1>2, <1>4
<1>7. Holds(w.chunk, key, value, "key", owner)'
  BY <1>1, <1>2, <1>4
<1>8. Holds(w.chunk, value, value + w.node.value, "value", owner)'
  BY <1>1, <1>2, <1>4
<1> QED BY <1>2, <1>5, <1>6, <1>7, <1>8 DEF Intact, tower, key, value, h, owner

(* Where a node is: inside its chunk, in a region of the arena.             *)
LEMMA HomeFacts ==
  ASSUME IInv, NEW r \in granted, NEW w, w.node \in Nodes, Home(w, r)
  PROVE  /\ w.start \in Nat /\ w.chunk \in 1 .. Len(bump)
         /\ BuildLayout(w.node).size \in Nat \ {0}
         /\ r.end = w.start + BuildLayout(w.node).size
         /\ r.end <= BlockSize
         /\ w.start % PtrSize = 0
<1>1. r \in Regions /\ r.layout \in Layouts
  BY RegionFields DEF IInv
<1>2. /\ r.chunk \in 1 .. Len(bump) /\ r.start % r.layout.align = 0
      /\ r.end = r.start + r.layout.size /\ r.end <= bump[r.chunk]
  BY DEF IInv, RegionsFit
<1>3. bump[r.chunk] \in 0 .. BlockSize /\ BlockSize \in Nat
  BY <1>2, PolicyAssumption DEF IInv, TypeOK
<1>4. r.start \in Nat /\ r.end \in Nat /\ r.layout.size \in Nat \ {0}
  BY <1>1, LayoutAssumption DEF Regions
<1>5. BuildLayout(w.node).align = PtrSize
  BY DEF BuildLayout
<1> QED BY <1>2, <1>3, <1>4, <1>5 DEF Home

(* A node that was just written inside its region is intact.                *)
LEMMA NewIsIntact ==
  ASSUME NEW w, w.node \in Nodes, w.start \in Nat, w.start % PtrSize = 0,
         NEW bytes, DOMAIN bytes = 0 .. BlockSize - 1,
         w.start + BuildLayout(w.node).size <= BlockSize,
         mem'[w.chunk] = WrittenOver(bytes, w.start, w.node,
                                     [chunk |-> w.chunk, start |-> w.start])
  PROVE  Intact(w)'
<1> DEFINE owner == [chunk |-> w.chunk, start |-> w.start]
           h == HeaderOf(w.node)
           tower == TowerPtr(w.start)
           key == KeyPtr(w.start, h)
           value == ValuePtr(w.start, h)
           end == value + w.node.value
           Byte(part, b, from) == [part |-> part, owner |-> owner, at |-> b - from]
<1>1. /\ tower \in Nat /\ key \in Nat /\ value \in Nat /\ end \in Nat
      /\ w.node.value \in Nat /\ BuildLayout(w.node).size \in Nat
      /\ w.start < tower /\ tower <= key /\ key <= value /\ value <= end
      /\ end = w.start + BuildLayout(w.node).size
  BY Parts
<1>2. DOMAIN mem'[w.chunk] = 0 .. BlockSize - 1 /\ BlockSize \in Nat
  BY PolicyAssumption DEF WrittenOver
<1>3. tower % PtrSize = 0
  BY NodeAssumption, AlignedSum DEF TowerPtr
<1>4. /\ tower = TowerPtr(w.start)
      /\ key = KeyPtr(w.start, HeaderOf(w.node))
      /\ value = ValuePtr(w.start, HeaderOf(w.node))
      /\ end = value + w.node.value
      /\ mem'[w.chunk] = WrittenOver(bytes, w.start, w.node, owner)
  OBVIOUS
<1> HIDE DEF tower, key, value, end, h, owner
<1>5. ASSUME NEW b \in w.start .. end - 1
      PROVE  /\ b \in DOMAIN mem'[w.chunk]
             /\ b \in w.start .. tower - 1 => mem'[w.chunk][b] = Byte("header", b, w.start)
             /\ b \in tower .. key - 1 => mem'[w.chunk][b] = Byte("tower", b, tower)
             /\ b \in key .. value - 1 => mem'[w.chunk][b] = Byte("key", b, key)
             /\ b \in value .. end - 1 => mem'[w.chunk][b] = Byte("value", b, value)
  <2>1. b \in 0 .. BlockSize - 1 /\ b \in Int
    BY <1>1, <1>2
  <2>2. b \in DOMAIN bytes /\ b \in DOMAIN mem'[w.chunk]
    BY <1>2, <2>1
  <2>3. PICK byte : byte = mem'[w.chunk][b]
    OBVIOUS
  <2>4. byte = WrittenOver(bytes, w.start, w.node, owner)[b]
    BY <1>4, <2>3
  <2>5. /\ b \in w.start .. tower - 1 => byte = Byte("header", b, w.start)
        /\ b \in tower .. key - 1 => byte = Byte("tower", b, tower)
        /\ b \in key .. value - 1 => byte = Byte("key", b, key)
        /\ b \in value .. value + w.node.value - 1 => byte = Byte("value", b, value)
    <3>1. /\ b \in w.start .. tower - 1 =>
               byte = [part |-> "header", owner |-> owner, at |-> b - w.start]
          /\ b \in tower .. key - 1 =>
               byte = [part |-> "tower", owner |-> owner, at |-> b - tower]
          /\ b \in key .. value - 1 =>
               byte = [part |-> "key", owner |-> owner, at |-> b - key]
          /\ b \in value .. value + w.node.value - 1 =>
               byte = [part |-> "value", owner |-> owner, at |-> b - value]
      <4>1. PartsWritten(bytes, w.start, w.node, owner, b)
        BY <2>1, <2>2, WritesParts
      <4> QED BY <1>4, <2>4, <4>1 DEF PartsWritten
    <3> QED BY <3>1
  <2>6. end - 1 = value + w.node.value - 1
    BY <1>1, <1>4
  <2> QED BY <2>2, <2>3, <2>5, <2>6
<1>6. ASSUME NEW from \in Nat, NEW to \in Nat, NEW part,
             \A b \in from .. to - 1 :
               b \in DOMAIN mem'[w.chunk] /\ mem'[w.chunk][b] = Byte(part, b, from)
      PROVE  Holds(w.chunk, from, to, part, owner)'
  BY <1>6 DEF Holds, owner
<1>7. Holds(w.chunk, w.start, tower, "header", owner)'
  <2>1. \A b \in w.start .. tower - 1 : b \in w.start .. end - 1
    BY <1>1
  <2> QED BY <1>1, <1>5, <1>6, <2>1
<1>8. Holds(w.chunk, tower, key, "tower", owner)'
  <2>1. \A b \in tower .. key - 1 : b \in w.start .. end - 1
    BY <1>1
  <2> QED BY <1>1, <1>5, <1>6, <2>1
<1>9. Holds(w.chunk, key, value, "key", owner)'
  <2>1. \A b \in key .. value - 1 : b \in w.start .. end - 1
    BY <1>1
  <2> QED BY <1>1, <1>5, <1>6, <2>1
<1>10. Holds(w.chunk, value, end, "value", owner)'
  <2>1. \A b \in value .. end - 1 : b \in w.start .. end - 1
    BY <1>1
  <2> QED BY <1>1, <1>5, <1>6, <2>1
<1> QED BY <1>3, <1>7, <1>8, <1>9, <1>10 DEF Intact, tower, key, value, end, h, owner

-----------------------------------------------------------------------------
(* alloc_raw's region becomes a node: the other nodes of the chunk are in   *)
(* other regions, and only the end of a key too long for its field reaches  *)
(* one of them.                                                             *)
LEMMA WriteNodeInv ==
  ASSUME IInv, OwnInv, UsedInv, StoreInv, NEW t \in Threads, WriteNode(t)
  PROVE  StoreInv'
<1> DEFINE r == OwnRegion(t)
           at == [chunk |-> chunk[t], start |-> Aligned(seen[t], Layout(t))]
<1>0. TypeOK /\ Account(t) /\ pc[t] = "account"
  BY DEF IInv, WriteNode, Account
<1>1. /\ r \in granted /\ r \notin Settled /\ Settled' = Settled \union {r}
      /\ r.chunk = at.chunk /\ r.start = at.start /\ r.layout = Layout(t)
  BY <1>0, AccountOwn, OwnRegionFields DEF OwnInv, HasRegion
<1>2. PICK node \in Nodes :
        /\ BuildLayout(node) = Layout(t)
        /\ mem' = [mem EXCEPT ![at.chunk] = WrittenOver(@, at.start, node, at)]
        /\ written' = written \union
             {[chunk |-> at.chunk, start |-> at.start, node |-> node]}
  BY DEF WriteNode
<1>3. PICK c : c = at.chunk
  OBVIOUS
<1>4. PICK start : start = at.start
  OBVIOUS
<1>5. PICK w : w = [chunk |-> c, start |-> start, node |-> node]
  OBVIOUS
<1>6. PICK bytes : bytes = mem[c]
  OBVIOUS
<1>7. at = [chunk |-> c, start |-> start] /\ bump' = bump
  BY <1>0, <1>3, <1>4 DEF Account
<1>8. /\ written' = written \union {w} /\ w.chunk = c /\ w.start = start /\ w.node = node
      /\ mem' = [mem EXCEPT ![c] = WrittenOver(bytes, start, node,
                                               [chunk |-> c, start |-> start])]
  BY <1>2, <1>3, <1>4, <1>5, <1>6, <1>7
<1>9. Home(w, r)
  BY <1>1, <1>2, <1>3, <1>4, <1>8 DEF Home
<1> HIDE DEF r, at
<1>10. /\ start \in Nat /\ c \in 1 .. Len(bump) /\ BuildLayout(node).size \in Nat \ {0}
       /\ r.end = start + BuildLayout(node).size /\ r.end <= BlockSize
       /\ start % PtrSize = 0
  BY <1>1, <1>8, <1>9, HomeFacts
<1>11. /\ c \in DOMAIN mem /\ bytes \in Chunks /\ DOMAIN bytes = 0 .. BlockSize - 1
       /\ DOMAIN mem' = DOMAIN mem /\ Len(mem') = Len(mem)
       /\ mem'[c] = WrittenOver(bytes, start, node, [chunk |-> c, start |-> start])
       /\ \A d \in DOMAIN mem : d # c => mem'[d] = mem[d]
  <2>1. mem \in Seq(Chunks) /\ Len(mem) = Len(bump) /\ Len(bump) \in Nat
    BY <1>0 DEF StoreInv, MemOk, TypeOK
  <2>2. c \in DOMAIN mem /\ bytes \in Chunks
    BY <1>6, <1>10, <2>1
  <2> QED BY <1>8, <2>1, <2>2 DEF Chunks
<1>12. MemOk'
  <2>1. mem \in Seq(Chunks) /\ Len(mem) = Len(bump) /\ Len(bump) \in Nat
    BY <1>0 DEF StoreInv, MemOk, TypeOK
  <2>2. c \in Nat /\ c \in 1 .. Len(mem)
    BY <1>10, <2>1
  <2>3. [chunk |-> c, start |-> start] \in Owners
    BY <1>10, <2>2 DEF Owners
  <2>4. mem'[c] \in Chunks
    BY <1>10, <1>11, <2>3, WritesContents
  <2>5. mem' \in Seq(Chunks)
    BY <1>8, <1>11, <2>1, <2>2, <2>4
  <2> QED BY <1>7, <1>11, <2>1, <2>5 DEF MemOk
<1>13. WrittenOk'
  BY <1>1, <1>8, <1>9 DEF StoreInv, WrittenOk, Home
<1>14. Intact(w)'
  BY <1>8, <1>10, <1>11, NewIsIntact
<1>15. ASSUME NEW v \in written, Intact(v),
              ~(v.chunk = c /\ start < v.start /\ node.key >= KeyRange)
       PROVE  Intact(v)'
  <2>1. PICK s \in Settled : Home(v, s)
    BY DEF StoreInv, WrittenOk
  <2>2. v.node \in Nodes /\ s \in granted /\ s # r
    BY <1>1, <2>1 DEF StoreInv, WrittenOk, Settled
  <2>3. /\ v.start \in Nat /\ v.chunk \in 1 .. Len(bump)
        /\ BuildLayout(v.node).size \in Nat \ {0}
        /\ s.end = v.start + BuildLayout(v.node).size
    BY <2>1, <2>2, HomeFacts
  <2>4. CASE v.chunk # c
    <3>1. mem'[v.chunk] = mem[v.chunk]
      BY <1>11, <2>3, <2>4 DEF StoreInv, MemOk
    <3> QED BY <1>15, <2>2, <2>3, <3>1, IntactKept
  <2>5. CASE v.chunk = c
    <3>1. s.chunk = r.chunk /\ s.start = v.start /\ r.start = start
      BY <1>8, <1>9, <2>1, <2>5 DEF Home
    <3>2. s.end <= start \/ r.end <= v.start
      BY <1>1, <2>2, <3>1 DEF IInv, NoOverlap
    <3>3. node.key \in Nat /\ KeyRange \in Nat
      BY NodeAssumption
    <3>4. ASSUME NEW b \in v.start .. (v.start + BuildLayout(v.node).size) - 1,
                 b \in DOMAIN mem[v.chunk]
          PROVE  b \in DOMAIN mem'[v.chunk] /\ mem'[v.chunk][b] = mem[v.chunk][b]
      <4>1. b \in Int /\ b \in DOMAIN bytes /\ b \in DOMAIN mem'[c]
        BY <1>6, <1>11, <2>3, <2>5, <3>4 DEF WrittenOver
      <4>2. CASE s.end <= start
        <5>1. b < start
          BY <1>10, <2>3, <4>1, <4>2
        <5>2. WrittenOver(bytes, start, node, [chunk |-> c, start |-> start])[b] = bytes[b]
          BY <1>10, <4>1, <5>1, WritesInside
        <5> QED BY <1>6, <1>11, <2>5, <4>1, <5>2
      <4>3. CASE r.end <= v.start
        <5>1. start + BuildLayout(node).size <= b
          BY <1>10, <2>3, <4>1, <4>3
        <5>2. start < v.start
          BY <1>10, <2>3, <4>3
        <5>3. node.key < KeyRange
          BY <1>15, <2>5, <3>3, <5>2
        <5>4. WrittenOver(bytes, start, node, [chunk |-> c, start |-> start])[b] = bytes[b]
          BY <1>10, <4>1, <5>1, <5>3, WritesInside
        <5> QED BY <1>6, <1>11, <2>5, <4>1, <5>4
      <4> QED BY <3>2, <4>2, <4>3
    <3> QED BY <1>15, <2>2, <2>3, <3>4, IntactKept
  <2> QED BY <2>4, <2>5
<1>16. NodesIntact'
  <2> SUFFICES ASSUME NEW v \in written'
               PROVE  \/ Intact(v)'
                      \/ \E x \in written' :
                           x.chunk = v.chunk /\ x.start < v.start /\ x.node.key >= KeyRange
    BY DEF NodesIntact
  <2>1. CASE v = w
    BY <1>14, <2>1
  <2>2. CASE v \in written
    <3>1. \/ Intact(v)
          \/ \E x \in written :
               x.chunk = v.chunk /\ x.start < v.start /\ x.node.key >= KeyRange
      BY <2>2 DEF StoreInv, NodesIntact
    <3>2. CASE v.chunk = c /\ start < v.start /\ node.key >= KeyRange
      BY <1>8, <3>2
    <3> QED BY <1>8, <1>15, <2>2, <3>1, <3>2
  <2> QED BY <1>8, <2>1, <2>2
<1> QED BY <1>12, <1>13, <1>16 DEF StoreInv

(* Steps that write nothing leave every node as it was.                     *)
LEMMA QuietStore ==
  ASSUME StoreInv, MemOk', written' = written,
         Settled \subseteq Settled',
         \A c \in 1 .. Len(bump) : mem'[c] = mem[c],
         \A r \in granted : r.chunk \in 1 .. Len(bump)
  PROVE  StoreInv'
<1>1. WrittenOk'
  BY DEF StoreInv, WrittenOk, Home
<1>2. NodesIntact'
  <2> SUFFICES ASSUME NEW v \in written, Intact(v) PROVE Intact(v)'
    BY DEF StoreInv, NodesIntact
  <2>1. PICK s \in Settled : Home(v, s)
    BY DEF StoreInv, WrittenOk
  <2>2. v.chunk \in 1 .. Len(bump)
    BY <2>1 DEF Settled, Home
  <2>3. mem'[v.chunk] = mem[v.chunk]
    BY <2>2
  <2> QED BY <2>3 DEF Intact, Holds
<1> QED BY <1>1, <1>2 DEF StoreInv

(* A caller of alloc_raw_fallback has its region and writes nothing.        *)
LEMMA KeepBlankInv ==
  ASSUME IInv, OwnInv, UsedInv, StoreInv, NEW t \in Threads, KeepBlank(t)
  PROVE  StoreInv'
<1>1. TypeOK /\ Account(t) /\ UNCHANGED <<mem, written, bump>>
  BY DEF IInv, KeepBlank, Account
<1>2. Settled \subseteq Settled'
  BY <1>1, AccountOwn
<1>3. MemOk'
  BY <1>1 DEF StoreInv, MemOk
<1> QED BY <1>1, <1>2, <1>3, QuietStore DEF IInv, RegionsFit

(* A chunk more leaves the others where they are.                           *)
LEMMA AddChunkInv ==
  ASSUME IInv, StoreInv, NEW t \in Threads, AddChunk(t)
  PROVE  StoreInv'
<1>1. /\ mem' = Append(mem, NewChunk) /\ written' = written
      /\ bump' = Append(bump, 0) /\ granted' = granted /\ calls' = calls
      /\ pc[t] = "publish" /\ pc' = [pc EXCEPT ![t] = "get_chunk"]
  BY DEF AddChunk, PublishChunk, Goto
<1>2. bump \in Seq(0 .. BlockSize) /\ Len(bump) \in Nat /\ Len(bump') = Len(bump) + 1
  BY <1>1 DEF IInv, TypeOK
<1>3. Settled' = Settled
  BY <1>1 DEF Settled, IInv, TypeOK
<1>4. /\ Len(mem') = Len(mem) + 1 /\ Len(mem) = Len(bump)
      /\ \A c \in 1 .. Len(bump) : mem'[c] = mem[c]
      /\ mem'[Len(mem) + 1] = NewChunk
  BY <1>1, <1>2 DEF StoreInv, MemOk
<1>5. MemOk'
  <2>1. NewChunk \in Chunks
    BY DEF NewChunk, Chunks, Blank, Contents, Owners, Nowhere
  <2> QED BY <1>1, <1>2, <1>4, <2>1 DEF StoreInv, MemOk
<1> QED BY <1>1, <1>3, <1>4, <1>5, QuietStore DEF IInv, RegionsFit

(* Nor do the other steps of the arena touch a byte or take a region back.  *)
LEMMA ArenaStepInv ==
  ASSUME IInv, OwnInv, StoreInv, NEW t \in Threads, ArenaStep(t)
  PROVE  StoreInv'
<1>1. UNCHANGED <<mem, written>> /\ TypeOK
  BY DEF ArenaStep, IInv
<1>2. Len(bump') = Len(bump) /\ bump \in Seq(0 .. BlockSize)
  BY DEF ArenaStep, Call, GetChunk, LoadBump, CasBump, CasFails, LockChunks,
     RecheckFits, RecheckFull, RecheckGrows, CountChunk, ReturnErr, shared, IInv, TypeOK
<1>3. Settled \subseteq Settled'
  <2>1. granted \subseteq granted'
    BY DEF ArenaStep, Call, GetChunk, LoadBump, CasBump, CasFails, LockChunks,
       RecheckFits, RecheckFull, RecheckGrows, CountChunk, ReturnErr, shared
  <2>2. \/ pc'[t] # "account" /\ \A u \in Threads \ {t} : calls'[u] = calls[u]
        \/ CasBump(t)
    BY <1>1 DEF ArenaStep, Call, GetChunk, LoadBump, CasFails, LockChunks,
       RecheckFits, RecheckFull, RecheckGrows, CountChunk, ReturnErr, Return, Goto, TypeOK
  <2>3. \A u \in Threads \ {t} : pc'[u] = pc[u]
    BY <1>1 DEF ArenaStep, Call, GetChunk, LoadBump, CasBump, CasFails, LockChunks,
       RecheckFits, RecheckFull, RecheckGrows, CountChunk, ReturnErr, Return, Goto, TypeOK
  <2>4. CASE pc'[t] # "account" /\ \A u \in Threads \ {t} : calls'[u] = calls[u]
    BY <2>1, <2>3, <2>4 DEF Settled
  <2>5. CASE CasBump(t)
    <3>1. /\ pc[t] = "cas" /\ calls' = calls
      BY <2>5 DEF CasBump
    <3>2. ASSUME NEW r \in granted PROVE r.by # <<t, calls[t]>>
      <4> SUFFICES ASSUME r.by = <<t, calls[t]>> PROVE FALSE
        OBVIOUS
      <4>1. r.by[1] = t /\ r.by[2] = calls[t] /\ calls[t] \in Nat
        BY <1>1, BoundAssumption DEF TypeOK
      <4>2. r.by[2] > calls[t]
        BY <3>1, <4>1 DEF OwnInv, EarlierCalls
      <4> QED BY <4>1, <4>2
    <3> QED BY <2>1, <2>3, <3>1, <3>2 DEF Settled
  <2> QED BY <2>2, <2>4, <2>5
<1>4. MemOk'
  BY <1>1, <1>2 DEF StoreInv, MemOk
<1> QED BY <1>1, <1>3, <1>4, QuietStore DEF IInv, RegionsFit

(* The first chunk is there and nothing is written.                         *)
LEMMA InitStore == StoreInit => StoreInv
<1> SUFFICES ASSUME StoreInit PROVE StoreInv
  OBVIOUS
<1>1. mem = <<NewChunk>> /\ bump = <<0>> /\ written = {}
  BY DEF StoreInit, Init
<1>2. NewChunk \in Chunks
  BY DEF NewChunk, Chunks, Blank, Contents, Owners, Nowhere
<1>3. MemOk
  BY <1>1, <1>2 DEF MemOk
<1> QED BY <1>1, <1>3 DEF StoreInv, WrittenOk, NodesIntact

(* Every step of a store keeps the nodes.                                   *)
LEMMA NextStore ==
  IInv /\ OwnInv /\ UsedInv /\ StoreInv /\ [StoreNext]_nodeVars => StoreInv'
<1> SUFFICES ASSUME IInv, OwnInv, UsedInv, StoreInv, [StoreNext]_nodeVars
             PROVE  StoreInv'
  OBVIOUS
<1>1. CASE UNCHANGED nodeVars
  BY <1>1 DEF nodeVars, vars, shared, StoreInv, MemOk, WrittenOk, NodesIntact,
     Settled, Home, Intact, Holds
<1> QED BY <1>1, WriteNodeInv, KeepBlankInv, AddChunkInv, ArenaStepInv DEF StoreNext

(* Whatever other threads allocate and write around it, a node's header,    *)
(* tower, key and value are what its insert wrote, unless the key of a node *)
(* below it in the chunk was too long for the field of its length.          *)
THEOREM NodesStayIntact == StoreSpec => []NodesIntact
<1>1. StoreInv => NodesIntact
  BY DEF StoreInv
<1> QED BY <1>1, StoreHasArena, InitStore, NextStore, PTL DEF StoreSpec
=============================================================================

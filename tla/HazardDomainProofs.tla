------------------------ MODULE HazardDomainProofs ------------------------
(***************************************************************************)
(* Proofs about the records of a hazard-pointer domain: the types, that    *)
(* one thread at most holds the LOCK_BIT, that the list of all records     *)
(* loses none, and that a record has one owner as long as no thread went   *)
(* on with a stale head.                                                   *)
(***************************************************************************)
EXTENDS HazardDomain, WellFoundedInduction, FiniteSetTheorems, TLAPS

-----------------------------------------------------------------------------
(* The types, with what a thread's place says of its variables.             *)

AcquirePcs == {"load", "fetch_or", "wild", "steal", "unlock", "cut", "gather",
               "push_rec", "count"}

(* An acquiring thread wants something.                                     *)
AcquirerWants ==
  \A t \in Threads : pc[t] \in AcquirePcs => t \in Acquirers /\ want[t] >= 1

(* What is pushed or given back is not empty.                               *)
GotIsNotEmpty ==
  /\ \A t \in Threads :
       pc[t] \in {"push_rec", "count", "release", "push"} => got[t] # <<>>
  /\ \A h \in handles : h.recs # <<>>

(* What a thread saw is not null, or has no tag.                            *)
SeenIsFit ==
  \A t \in Threads :
    /\ pc[t] = "fetch_or" => seen[t] # Untagged(Null)
    /\ pc[t] \in {"unlock", "push"} => ~seen[t].lock

TypeInv == TypeOK /\ AcquirerWants /\ GotIsNotEmpty /\ SeenIsFit

(* The last of a sequence that is not empty.                                *)
LEMMA LastFacts ==
  ASSUME NEW s \in Seq(Recs), s # <<>>
  PROVE  Last(s) \in Recs /\ Last(s) = s[Len(s)] /\ Len(s) \in Nat \ {0}
  BY DEF Last

(* What Append does to a sequence, element by element.                      *)
LEMMA AppendFacts ==
  ASSUME NEW s \in Seq(Recs), NEW x \in Recs
  PROVE  /\ Append(s, x) \in Seq(Recs)
         /\ Append(s, x) # <<>>
         /\ Len(s) \in Nat
         /\ Len(Append(s, x)) = Len(s) + 1
         /\ \A i \in 1 .. Len(s) : Append(s, x)[i] = s[i]
         /\ Append(s, x)[Len(s) + 1] = x
         /\ Last(Append(s, x)) = x
  BY DEF Last

(* Null is no record, and an untagged pointer is one or null.               *)
LEMMA PointerFacts ==
  /\ Null \in RecOrNull
  /\ \A r \in Recs : r # Null /\ r \in RecOrNull
  /\ \A r \in RecOrNull : r # Null => r \in Recs
  /\ \A r \in RecOrNull : /\ Untagged(r) \in TaggedPtr
                          /\ Untagged(r).ptr = r
                          /\ ~Untagged(r).lock
  /\ \A p \in TaggedPtr : /\ p.ptr \in RecOrNull
                          /\ p.lock \in BOOLEAN
                          /\ ~p.lock => p = Untagged(p.ptr)
  BY SizeAssumption DEF RecOrNull, Recs, Null, Untagged, TaggedPtr

(* The first state has the types.                                           *)
LEMMA InitTypeInv == Init => TypeInv
<1> SUFFICES ASSUME Init PROVE TypeInv
  OBVIOUS
<1>1. /\ Untagged(Null) \in TaggedPtr /\ Null \in RecOrNull
      /\ MaxAcquires \in Nat /\ MaxDrops \in Nat /\ 0 \in 0 .. MaxRecs
  BY SizeAssumption, PointerFacts
<1>3. TypeOK
  <2>1. ops \in [Threads -> Nat] /\ got \in [Threads -> Seq(Recs)]
    BY <1>1 DEF Init
  <2>2. /\ seen \in [Threads -> TaggedPtr] /\ avail_head \in TaggedPtr
        /\ first \in [Threads -> RecOrNull] /\ tail \in [Threads -> RecOrNull]
        /\ head \in RecOrNull /\ next \in [Recs -> RecOrNull]
        /\ available \in [Recs -> RecOrNull] /\ made \in 0 .. MaxRecs
    BY <1>1 DEF Init
  <2>3. /\ pc \in [Threads -> PcValues] /\ \A t \in Threads : pc[t] = "idle"
        /\ want \in [Threads -> Nat] /\ n \in [Threads -> Nat] /\ count \in Nat
        /\ handles = {} /\ stale \in BOOLEAN
    BY DEF Init, PcValues
  <2> QED
    BY <2>1, <2>2, <2>3 DEF TypeOK
<1>2. AcquirerWants /\ GotIsNotEmpty /\ SeenIsFit
  BY DEF Init, AcquirerWants, GotIsNotEmpty, SeenIsFit, AcquirePcs
<1> QED
  BY <1>2, <1>3 DEF TypeInv

(* The types are kept, one action at a time.                                *)
LEMMA NextTypeInv == TypeInv /\ [Next]_vars => TypeInv'
<1> SUFFICES ASSUME TypeInv, [Next]_vars PROVE TypeInv'
  OBVIOUS
<1> USE DEF TypeInv, TypeOK, AcquirerWants, GotIsNotEmpty, SeenIsFit,
            AcquirePcs, PcValues, recs, avail, local, Goto, Forget
<1>0. CASE UNCHANGED vars
  BY <1>0 DEF vars
<1>1. ASSUME NEW t \in Threads, AcquireMany(t) PROVE TypeInv'
  <2>1. TypeOK'
    BY <1>1, PointerFacts, SizeAssumption DEF AcquireMany
  <2>2. AcquirerWants' /\ GotIsNotEmpty' /\ SeenIsFit'
    BY <1>1, PointerFacts, SizeAssumption DEF AcquireMany
  <2> QED
    BY <2>1, <2>2 DEF TypeInv
<1>2. ASSUME NEW t \in Threads, LoadAvail(t) PROVE TypeInv'
  <2>1. TypeOK'
    BY <1>2, PointerFacts, SizeAssumption DEF LoadAvail
  <2>2. AcquirerWants' /\ GotIsNotEmpty' /\ SeenIsFit'
    BY <1>2, PointerFacts, SizeAssumption DEF LoadAvail
  <2> QED
    BY <2>1, <2>2 DEF TypeInv
<1>3. ASSUME NEW t \in Threads, FetchOrBusy(t) PROVE TypeInv'
  <2>1. TypeOK'
    BY <1>3, PointerFacts, SizeAssumption DEF FetchOrBusy
  <2>2. AcquirerWants' /\ GotIsNotEmpty' /\ SeenIsFit'
    BY <1>3, PointerFacts, SizeAssumption DEF FetchOrBusy
  <2> QED
    BY <2>1, <2>2 DEF TypeInv
<1>4. ASSUME NEW t \in Threads, FetchOrLocks(t) PROVE TypeInv'
  <2>1. /\ pc[t] = "fetch_or"
        /\ seen[t] \in TaggedPtr
        /\ seen[t].ptr \in RecOrNull
        /\ ~seen[t].lock => seen[t].ptr # Null
    BY <1>4, PointerFacts DEF FetchOrLocks
  <2>2. avail_head' \in TaggedPtr /\ stale' \in BOOLEAN
    BY <1>4 DEF FetchOrLocks, TaggedPtr
  <2>3. TypeOK'
    BY <1>4, <2>1, <2>2, PointerFacts DEF FetchOrLocks
  <2> QED
    BY <1>4, <2>1, <2>3, PointerFacts DEF FetchOrLocks
<1>5. ASSUME NEW t \in Threads, StealMore(t) PROVE TypeInv'
  <2>1. TypeOK'
    BY <1>5, PointerFacts, SizeAssumption DEF StealMore
  <2>2. AcquirerWants' /\ GotIsNotEmpty' /\ SeenIsFit'
    BY <1>5, PointerFacts, SizeAssumption DEF StealMore
  <2> QED
    BY <2>1, <2>2 DEF TypeInv
<1>6. ASSUME NEW t \in Threads, StealEnough(t) PROVE TypeInv'
  <2>1. TypeOK'
    BY <1>6, PointerFacts, SizeAssumption DEF StealEnough
  <2>2. AcquirerWants' /\ GotIsNotEmpty' /\ SeenIsFit'
    BY <1>6, PointerFacts, SizeAssumption DEF StealEnough
  <2> QED
    BY <2>1, <2>2 DEF TypeInv
<1>7. ASSUME NEW t \in Threads, Unlock(t) PROVE TypeInv'
  <2>1. TypeOK'
    BY <1>7, PointerFacts, SizeAssumption DEF Unlock
  <2>2. AcquirerWants' /\ GotIsNotEmpty' /\ SeenIsFit'
    BY <1>7, PointerFacts, SizeAssumption DEF Unlock
  <2> QED
    BY <2>1, <2>2 DEF TypeInv
<1>8. ASSUME NEW t \in Threads, CutTail(t) PROVE TypeInv'
  <2>1. TypeOK'
    BY <1>8, PointerFacts, SizeAssumption DEF CutTail
  <2>2. AcquirerWants' /\ GotIsNotEmpty' /\ SeenIsFit'
    BY <1>8, PointerFacts, SizeAssumption DEF CutTail
  <2> QED
    BY <2>1, <2>2 DEF TypeInv
<1>9. ASSUME NEW t \in Threads, TakeStolen(t) PROVE TypeInv'
  <2>1. TypeOK'
    BY <1>9, PointerFacts, SizeAssumption DEF TakeStolen
  <2>2. AcquirerWants' /\ GotIsNotEmpty' /\ SeenIsFit'
    BY <1>9, PointerFacts, SizeAssumption DEF TakeStolen
  <2> QED
    BY <2>1, <2>2 DEF TypeInv
<1>10. ASSUME NEW t \in Threads, NewRec(t) PROVE TypeInv'
  <2>1. /\ made + 1 \in Recs /\ made' \in 0 .. MaxRecs
        /\ Untagged(head) \in TaggedPtr
    BY <1>10, PointerFacts, SizeAssumption DEF NewRec, Recs
  <2>2. PICK r \in Recs : r = made + 1
    BY <2>1
  <2>3. Append(got[t], r) \in Seq(Recs) /\ Append(got[t], r) # <<>>
    BY AppendFacts
  <2>4. got' = [got EXCEPT ![t] = Append(@, r)]
    BY <1>10, <2>2 DEF NewRec
  <2>5. TypeOK'
    BY <1>10, <2>1, <2>3, <2>4 DEF NewRec
  <2> QED
    BY <1>10, <2>3, <2>4, <2>5 DEF NewRec
<1>11. ASSUME NEW t \in Threads, PushRec(t) PROVE TypeInv'
  <2>1. Last(got[t]) \in Recs /\ seen[t].ptr \in RecOrNull
    BY <1>11, PointerFacts, LastFacts DEF PushRec
  <2> QED
    BY <1>11, <2>1, PointerFacts DEF PushRec
<1>12. ASSUME NEW t \in Threads, PushRecFails(t) PROVE TypeInv'
  <2>1. TypeOK'
    BY <1>12, PointerFacts, SizeAssumption DEF PushRecFails
  <2>2. AcquirerWants' /\ GotIsNotEmpty' /\ SeenIsFit'
    BY <1>12, PointerFacts, SizeAssumption DEF PushRecFails
  <2> QED
    BY <2>1, <2>2 DEF TypeInv
<1>13. ASSUME NEW t \in Threads, CountRec(t) PROVE TypeInv'
  <2>1. Last(got[t]) \in Recs
    BY <1>13, LastFacts DEF CountRec
  <2> QED
    BY <1>13, <2>1, PointerFacts DEF CountRec
<1>14. ASSUME NEW t \in Threads, ReturnHandle(t) PROVE TypeInv'
  <2>1. TypeOK'
    BY <1>14, PointerFacts, SizeAssumption DEF ReturnHandle
  <2>2. AcquirerWants' /\ GotIsNotEmpty' /\ SeenIsFit'
    BY <1>14, PointerFacts, SizeAssumption DEF ReturnHandle
  <2> QED
    BY <2>1, <2>2 DEF TypeInv
<1>15. ASSUME NEW t \in Threads, DropArray(t) PROVE TypeInv'
  <2>1. TypeOK'
    <3>1. PICK h \in handles : got' = [got EXCEPT ![t] = h.recs] /\ handles' = handles \ {h}
      BY <1>15 DEF DropArray
    <3>2. h.recs \in Seq(Recs) /\ handles' \subseteq handles
      BY <3>1
    <3>3. got' \in [Threads -> Seq(Recs)]
      BY <3>1, <3>2
    <3>4. /\ UNCHANGED <<head, next, count, made, avail_head, available, want, seen,
                         first, tail, n, stale>>
          /\ ops' = [ops EXCEPT ![t] = @ - 1] /\ ops[t] > 0
      BY <1>15 DEF DropArray
    <3>5. \E to \in {"release", "panicked"} : pc' = [pc EXCEPT ![t] = to]
      BY <1>15 DEF DropArray
    <3>6. pc' \in [Threads -> PcValues] /\ pc'[t] \in {"release", "panicked"}
          /\ \A u \in Threads : u # t => pc'[u] = pc[u]
      BY <3>5
    <3>7. ops' \in [Threads -> Nat]
      BY <3>4
    <3> QED
      BY <3>2, <3>3, <3>4, <3>6, <3>7
  <2>2. AcquirerWants' /\ GotIsNotEmpty' /\ SeenIsFit'
    BY <1>15, PointerFacts, SizeAssumption DEF DropArray
  <2> QED
    BY <2>1, <2>2 DEF TypeInv
<1>16. ASSUME NEW t \in Threads, DropSingle(t) PROVE TypeInv'
  <2>1. TypeOK'
    <3>1. /\ UNCHANGED <<head, next, count, made, avail_head, available, want, seen,
                         first, tail, n, got, stale>>
          /\ ops' \in [Threads -> Nat] /\ handles' \subseteq handles
          /\ pc' = [pc EXCEPT ![t] = "panicked"]
      BY <1>16 DEF DropSingle
    <3> QED
      BY <3>1
  <2>2. AcquirerWants' /\ GotIsNotEmpty' /\ SeenIsFit'
    BY <1>16, PointerFacts, SizeAssumption DEF DropSingle
  <2> QED
    BY <2>1, <2>2 DEF TypeInv
<1>17. ASSUME NEW t \in Threads, LoadForRelease(t) PROVE TypeInv'
  <2>1. TypeOK'
    BY <1>17, PointerFacts, SizeAssumption DEF LoadForRelease
  <2>2. AcquirerWants' /\ GotIsNotEmpty' /\ SeenIsFit'
    BY <1>17, PointerFacts, SizeAssumption DEF LoadForRelease
  <2> QED
    BY <2>1, <2>2 DEF TypeInv
<1>18. ASSUME NEW t \in Threads, PushAvailable(t) PROVE TypeInv'
  <2>1. TypeOK'
    BY <1>18, PointerFacts, SizeAssumption DEF PushAvailable
  <2>2. AcquirerWants' /\ GotIsNotEmpty' /\ SeenIsFit'
    BY <1>18, PointerFacts, SizeAssumption DEF PushAvailable
  <2> QED
    BY <2>1, <2>2 DEF TypeInv
<1>19. ASSUME NEW t \in Threads, PushFails(t) PROVE TypeInv'
  <2>1. TypeOK'
    BY <1>19, PointerFacts, SizeAssumption DEF PushFails
  <2>2. AcquirerWants' /\ GotIsNotEmpty' /\ SeenIsFit'
    BY <1>19, PointerFacts, SizeAssumption DEF PushFails
  <2> QED
    BY <2>1, <2>2 DEF TypeInv
<1> QED
  BY <1>0, <1>1, <1>2, <1>3, <1>4, <1>5, <1>6, <1>7, <1>8, <1>9, <1>10, <1>11, <1>12, <1>13, <1>14, <1>15, <1>16, <1>17, <1>18, <1>19
  DEF Next, Begin, AcquireStep, ReleaseStep

-----------------------------------------------------------------------------
(* The LOCK_BIT.                                                            *)

Holds(t) == pc[t] \in {"steal", "unlock", "wild"}

(* Whoever works on the list of available records has set the bit, and is   *)
(* alone.                                                                   *)
LockInv ==
  /\ \A t \in Threads : Holds(t) => avail_head.lock
  /\ \A t, u \in Threads : Holds(t) /\ Holds(u) => t = u
  /\ avail_head.lock => \E t \in Threads : Holds(t)

(* A step that leaves the bit and the set of holders alone.                 *)
LEMMA LockKept ==
  ASSUME LockInv, avail_head'.lock <=> avail_head.lock,
         \A u \in Threads : Holds(u)' <=> Holds(u)
  PROVE  LockInv'
  BY DEF LockInv

(* fetch_or is the only step that takes the lock, and takes it only if it   *)
(* finds the bit clear; the store of Unlock is the only one that gives it   *)
(* back.  A push succeeds on a head that is not locked, and leaves it so.   *)
LEMMA NextLockInv == TypeInv /\ LockInv /\ [Next]_vars => LockInv'
<1> SUFFICES ASSUME TypeInv, LockInv, [Next]_vars PROVE LockInv'
  OBVIOUS
<1>1. pc \in [Threads -> PcValues] /\ avail_head \in TaggedPtr
  BY DEF TypeInv, TypeOK
<1>2. ASSUME NEW t \in Threads, FetchOrLocks(t) PROVE LockInv'
  <2>1. /\ ~avail_head.lock
        /\ avail_head'.lock
        /\ \E to \in {"wild", "steal"} : pc' = [pc EXCEPT ![t] = to]
    BY <1>1, <1>2 DEF FetchOrLocks, Goto, TaggedPtr
  <2>2. Holds(t)' /\ \A u \in Threads : u # t => ~Holds(u)'
    BY <1>1, <2>1 DEF Holds, LockInv
  <2> QED
    BY <2>1, <2>2 DEF LockInv
<1>3. ASSUME NEW t \in Threads, StealEnough(t) PROVE LockInv'
  BY <1>1, <1>3, LockKept DEF StealEnough, Goto, Holds, avail
<1>4. ASSUME NEW t \in Threads, Unlock(t) PROVE LockInv'
  <2>1. pc[t] = "unlock" /\ pc' = [pc EXCEPT ![t] = "cut"] /\ avail_head' = seen[t]
    BY <1>4 DEF Unlock, Goto
  <2>2. ~avail_head'.lock
    BY <2>1 DEF TypeInv, SeenIsFit
  <2>3. \A u \in Threads : ~Holds(u)'
    BY <1>1, <2>1 DEF Holds, LockInv
  <2> QED
    BY <2>2, <2>3 DEF LockInv
<1>5. ASSUME NEW t \in Threads, PushAvailable(t) PROVE LockInv'
  <2>1. pc[t] = "push" /\ pc' = [pc EXCEPT ![t] = "idle"]
        /\ avail_head = seen[t] /\ avail_head' = Untagged(got[t][1])
    BY <1>5 DEF PushAvailable, Goto
  <2>2. ~avail_head.lock /\ ~avail_head'.lock
    BY <2>1 DEF TypeInv, SeenIsFit, Untagged
  <2>3. \A u \in Threads : Holds(u)' <=> Holds(u)
    BY <1>1, <2>1 DEF Holds
  <2> QED
    BY <2>2, <2>3, LockKept
<1>6. ASSUME NEW t \in Threads,
             \/ Begin(t) \/ LoadAvail(t) \/ FetchOrBusy(t) \/ StealMore(t)
             \/ CutTail(t) \/ TakeStolen(t) \/ NewRec(t) \/ PushRec(t)
             \/ PushRecFails(t) \/ CountRec(t) \/ ReturnHandle(t)
             \/ LoadForRelease(t) \/ PushFails(t)
      PROVE  LockInv'
  <2>1. /\ avail_head' = avail_head
        /\ \/ pc' = pc
           \/ /\ ~Holds(t)
              /\ \E to \in PcValues \ {"steal", "unlock", "wild"} :
                   pc' = [pc EXCEPT ![t] = to]
    BY <1>6 DEF Begin, AcquireMany, DropArray, DropSingle, LoadAvail,
       FetchOrBusy, StealMore, CutTail, TakeStolen, NewRec, PushRec,
       PushRecFails, CountRec, ReturnHandle, LoadForRelease, PushFails,
       Goto, avail, Holds, PcValues
  <2>2. \A u \in Threads : Holds(u)' <=> Holds(u)
    BY <1>1, <2>1 DEF Holds
  <2> QED
    BY <2>1, <2>2, LockKept
<1>7. CASE UNCHANGED vars
  BY <1>7, LockKept DEF vars, avail, Holds
<1> QED
  BY <1>2, <1>3, <1>4, <1>5, <1>6, <1>7 DEF Next, AcquireStep, ReleaseStep

(* Every reachable state has the types, and at most one holder of the bit.  *)
LEMMA TypeAndLock == Spec => [](TypeInv /\ LockInv)
<1>1. Init => TypeInv /\ LockInv
  <2>1. Init => LockInv
    BY DEF Init, LockInv, Holds, Untagged
  <2> QED
    BY <2>1, InitTypeInv
<1>2. TypeInv /\ LockInv /\ [Next]_vars => TypeInv' /\ LockInv'
  BY NextTypeInv, NextLockInv
<1> QED
  BY <1>1, <1>2, PTL DEF Spec

(* Every variable of the domain keeps its type, and the pointer from which  *)
(* try_acquire_available_locked walks is a record, never null.              *)
THEOREM DomainTypeOK == Spec => []TypeOK
<1>1. TypeInv => TypeOK
  BY DEF TypeInv
<1> QED
  BY <1>1, TypeAndLock, PTL

(* However many threads acquire and release, the LOCK_BIT is set exactly    *)
(* while one thread works on the list of available records.                 *)
THEOREM LockIsExclusive == Spec => []LockHasOneHolder
<1>1. TypeInv /\ LockInv => LockHasOneHolder
  <2> SUFFICES ASSUME TypeInv, LockInv PROVE LockHasOneHolder
    OBVIOUS
  <2> DEFINE holders == {t \in Threads : pc[t] \in {"steal", "unlock", "wild"}}
  <2>1. CASE avail_head.lock
    <3>1. PICK t \in Threads : Holds(t)
      BY <2>1 DEF LockInv
    <3>2. holders = {t}
      BY <3>1 DEF Holds, LockInv
    <3> QED
      BY <2>1, <3>2, FS_Singleton DEF LockHasOneHolder
  <2>2. CASE ~avail_head.lock
    <3>1. holders = {}
      BY <2>2 DEF Holds, LockInv
    <3> QED
      BY <2>2, <3>1, FS_EmptySet DEF LockHasOneHolder
  <2> QED
    BY <2>1, <2>2
<1> QED
  BY <1>1, TypeAndLock, PTL

-----------------------------------------------------------------------------
(* Lists of records: what a walk along a field meets.                       *)

NoRepeats(s) == \A i, j \in 1 .. Len(s) : s[i] = s[j] => i = j

(* Each record of s leads to the next one.                                  *)
Run(s, link) == \A i \in 1 .. Len(s) - 1 : link[s[i]] = s[i + 1]

(* From r, link leads through the records of s and ends.                    *)
ListFrom(s, r, link) ==
  /\ s \in Seq(Recs)
  /\ NoRepeats(s)
  /\ Len(s) = 0 => r = Null
  /\ Len(s) > 0 => r = s[1] /\ link[s[Len(s)]] = Null
  /\ Run(s, link)

(* The least element of a set of numbers: induction, in a form in which it  *)
(* needs no predicate as a parameter.                                       *)
LEMMA LeastNat ==
  ASSUME NEW T \in SUBSET Nat, T # {}
  PROVE  \E m \in T : \A k \in T : m <= k
<1>1. PICK x \in T : \A y \in T : ~(<<y, x>> \in OpToRel(<, Nat))
  BY WFMin, NatLessThanWellFounded
<1>2. ASSUME NEW k \in T PROVE x <= k
  <2>1. <<k, x>> \in Nat \X Nat
    OBVIOUS
  <2>2. <<k, x>> \in OpToRel(<, Nat) <=> k < x
    BY <2>1 DEF OpToRel
  <2>3. ~(<<k, x>> \in OpToRel(<, Nat))
    BY <1>1, Zenon
  <2>4. k \in Nat /\ x \in Nat
    OBVIOUS
  <2>5. ~(k < x)
    BY <2>2, <2>3, Zenon
  <2> QED
    BY <2>4, <2>5
<1> QED
  BY <1>2

(* A sequence of distinct records is no longer than there are records.      *)
LEMMA NoRepeatsIsShort ==
  ASSUME NEW s \in Seq(Recs), NoRepeats(s)
  PROVE  Len(s) \in Nat /\ Len(s) <= MaxRecs
<1>1. Len(s) \in Nat /\ s \in [1 .. Len(s) -> Recs]
  OBVIOUS
<1>2. IsFiniteSet(1 .. Len(s)) /\ Cardinality(1 .. Len(s)) = Len(s)
  BY <1>1, FS_Interval
<1>3. IsFiniteSet(Recs) /\ Cardinality(Recs) = MaxRecs
  BY SizeAssumption, FS_Interval DEF Recs
<1>4. ASSUME MaxRecs < Len(s) PROVE FALSE
  <2>1. \E x, y \in 1 .. Len(s) : x # y /\ s[x] = s[y]
    BY <1>1, <1>2, <1>3, <1>4, FS_PigeonHole
  <2> QED
    BY <2>1 DEF NoRepeats
<1> QED
  BY <1>1, <1>4, SizeAssumption

(* The parts of a list.                                                     *)
LEMMA ListFacts ==
  ASSUME NEW r, NEW link, NEW s, ListFrom(s, r, link)
  PROVE  /\ Len(s) \in 0 .. MaxRecs
         /\ \A i \in 1 .. Len(s) : s[i] \in Recs /\ s[i] # Null
         /\ Len(s) = 0 => r = Null
         /\ Len(s) > 0 => r = s[1] /\ link[s[Len(s)]] = Null
         /\ \A i \in 1 .. Len(s) - 1 : link[s[i]] = s[i + 1]
<1>1. s \in Seq(Recs) /\ Len(s) \in 0 .. MaxRecs
  BY NoRepeatsIsShort, SizeAssumption DEF ListFrom
<1>2. \A i \in 1 .. Len(s) : s[i] \in Recs
  BY <1>1
<1> QED
  BY <1>1, <1>2, PointerFacts DEF ListFrom, Run

(* A walk of MaxRecs steps meets the list, in order, and null after it.     *)
LEMMA HopUnique ==
  ASSUME NEW r, NEW link, NEW s, ListFrom(s, r, link), NEW f, f[0] = r,
         \A i \in 1 .. MaxRecs :
           f[i] = IF f[i - 1] = Null THEN Null ELSE link[f[i - 1]]
  PROVE \A i \in 0 .. MaxRecs : f[i] = IF i < Len(s) THEN s[i + 1] ELSE Null
<1> DEFINE Bad == {i \in 0 .. MaxRecs : f[i] # IF i < Len(s) THEN s[i + 1] ELSE Null}
<1> SUFFICES ASSUME Bad # {} PROVE FALSE
  OBVIOUS
<1>1. PICK m \in Bad : \A k \in Bad : m <= k
  <2>1. Bad \in SUBSET Nat
    BY SizeAssumption
  <2> HIDE DEF Bad
  <2> QED BY <2>1, LeastNat
<1>2. m \in 0 .. MaxRecs /\ m # 0
  BY ListFacts, SizeAssumption
<1>3. f[m - 1] = IF m - 1 < Len(s) THEN s[m] ELSE Null
  BY <1>1, <1>2, SizeAssumption
<1>4. f[m] = IF f[m - 1] = Null THEN Null ELSE link[f[m - 1]]
  BY <1>2, SizeAssumption
<1>8. f[m] # IF m < Len(s) THEN s[m + 1] ELSE Null
  OBVIOUS
<1> HIDE DEF Bad
<1>5. CASE m < Len(s)
  <2>1. m \in 1 .. Len(s) - 1 /\ m - 1 < Len(s) /\ m \in 1 .. Len(s)
    BY <1>2, <1>5, SizeAssumption, ListFacts
  <2>2. f[m] = link[s[m]]
    BY <2>1, <1>3, <1>4, ListFacts
  <2> QED
    BY <2>1, <2>2, <1>8, <1>5, ListFacts
<1>6. CASE m = Len(s)
  <2>1. m \in 1 .. Len(s) /\ m - 1 < Len(s)
    BY <1>2, <1>6, SizeAssumption, ListFacts
  <2>2. f[m] = link[s[m]]
    BY <2>1, <1>3, <1>4, ListFacts
  <2> QED
    BY <2>1, <2>2, <1>8, <1>6, ListFacts
<1>7. CASE m > Len(s)
  BY <1>2, <1>3, <1>4, <1>7, <1>8, SizeAssumption, ListFacts
<1> QED
  BY <1>2, <1>5, <1>6, <1>7, SizeAssumption, ListFacts

(* The recursive function of ReachedFrom exists.                            *)
LEMMA HopExists ==
  ASSUME NEW r, NEW link, NEW s, ListFrom(s, r, link)
  PROVE  \E f : f = [i \in 0 .. MaxRecs |-> IF i = 0 THEN r
                 ELSE IF f[i - 1] = Null THEN Null ELSE link[f[i - 1]]]
<1> DEFINE g == [i \in 0 .. MaxRecs |-> IF i < Len(s) THEN s[i + 1] ELSE Null]
<1>1. ASSUME NEW i \in 0 .. MaxRecs
      PROVE  g[i] = IF i = 0 THEN r
                 ELSE IF g[i - 1] = Null THEN Null ELSE link[g[i - 1]]
  <2>1. CASE i = 0
    BY <2>1, ListFacts, SizeAssumption
  <2>2. CASE i # 0
    <3>1. i - 1 \in 0 .. MaxRecs /\ g[i - 1] = IF i - 1 < Len(s) THEN s[i] ELSE Null
      BY <2>2, SizeAssumption, ListFacts
    <3>2. g[i] = IF i < Len(s) THEN s[i + 1] ELSE Null
      OBVIOUS
    <3> HIDE DEF g
    <3>3. CASE i < Len(s)
      BY <2>2, <3>1, <3>2, <3>3, ListFacts, SizeAssumption
    <3>4. CASE i = Len(s)
      BY <2>2, <3>1, <3>2, <3>4, ListFacts, SizeAssumption
    <3>5. CASE i > Len(s)
      BY <2>2, <3>1, <3>2, <3>5, ListFacts, SizeAssumption
    <3> QED
      BY <3>3, <3>4, <3>5, ListFacts, SizeAssumption
  <2> QED BY <2>1, <2>2
<1>2. g = [i \in 0 .. MaxRecs |-> IF i = 0 THEN r
                 ELSE IF g[i - 1] = Null THEN Null ELSE link[g[i - 1]]]
  BY <1>1
<1> HIDE DEF g
<1> QED
  BY <1>2, Zenon

(* The records reached from r are those of the list.                        *)
LEMMA ReachedIsRange ==
  ASSUME NEW r, NEW link, NEW s, ListFrom(s, r, link)
  PROVE  ReachedFrom(r, link) = {s[i] : i \in 1 .. Len(s)}
<1> DEFINE P(f) == f = [i \in 0 .. MaxRecs |-> IF i = 0 THEN r
                 ELSE IF f[i - 1] = Null THEN Null ELSE link[f[i - 1]]]
           hop == CHOOSE f : P(f)
<1>1. P(hop)
  <2>1. \E f : P(f)
    BY HopExists
  <2> HIDE DEF P
  <2> QED BY <2>1, Zenon
<1>2. ReachedFrom(r, link) = {hop[i] : i \in 0 .. MaxRecs} \ {Null}
  BY Zenon DEF ReachedFrom
<1> HIDE DEF hop
<1>3. \A i \in 0 .. MaxRecs : hop[i] = IF i < Len(s) THEN s[i + 1] ELSE Null
  <2>1. hop[0] = r
    BY <1>1, SizeAssumption
  <2>2. \A i \in 1 .. MaxRecs :
           hop[i] = IF hop[i - 1] = Null THEN Null ELSE link[hop[i - 1]]
    BY <1>1, SizeAssumption
  <2> QED
    BY <2>1, <2>2, HopUnique
<1>4. \A i \in 1 .. Len(s) : i - 1 \in 0 .. MaxRecs /\ hop[i - 1] = s[i] /\ s[i] # Null
  BY <1>3, ListFacts, SizeAssumption
<1>5. ASSUME NEW x PROVE x \in ReachedFrom(r, link) <=> x \in {s[i] : i \in 1 .. Len(s)}
  <2>1. x \in ReachedFrom(r, link) <=> \E i \in 0 .. MaxRecs : x = hop[i] /\ x # Null
    BY <1>2
  <2>2. x \in {s[i] : i \in 1 .. Len(s)} <=> \E i \in 1 .. Len(s) : x = s[i]
    OBVIOUS
  <2>3. ASSUME NEW i \in 0 .. MaxRecs, x = hop[i], x # Null PROVE \E j \in 1 .. Len(s) : x = s[j]
    BY <1>3, <2>3, ListFacts, SizeAssumption
  <2> QED
    BY <1>4, <2>1, <2>2, <2>3
<1> QED
  BY <1>5

-----------------------------------------------------------------------------
(* The list of all records.                                                 *)

Pusher(t) == pc[t] = "push_rec"
Counting == {t \in Threads : pc[t] = "count"}

(* Each record that is pushed was allocated and has one pusher.             *)
PushersDiffer ==
  /\ \A t \in Threads : Pusher(t) => Last(got[t]) <= made
  /\ \A t, u \in Threads :
       Pusher(t) /\ Pusher(u) /\ Last(got[t]) = Last(got[u]) => t = u

(* H lists what was allocated and is not to be pushed any more.             *)
RecordsListed(H) ==
  /\ ListFrom(H, head, next)
  /\ \A r \in Recs :
       Contains(H, r) <=>
         r <= made /\ \A t \in Threads : Pusher(t) => Last(got[t]) # r
  /\ count + Cardinality(Counting) = Len(H)

RecordInv == PushersDiffer /\ \E H : RecordsListed(H)

(* A record in front of a sequence.                                         *)
LEMMA ConsFacts ==
  ASSUME NEW s \in Seq(Recs), NEW x \in Recs
  PROVE  \E c \in Seq(Recs) : /\ Len(s) \in Nat
                              /\ Len(c) = Len(s) + 1
                              /\ c[1] = x
                              /\ \A i \in 1 .. Len(s) : c[i + 1] = s[i]
<1> DEFINE c == [i \in 1 .. Len(s) + 1 |-> IF i = 1 THEN x ELSE s[i - 1]]
<1>1. Len(s) \in Nat /\ \A i \in 1 .. Len(s) : s[i] \in Recs
  OBVIOUS
<1>2. \A i \in 1 .. Len(s) + 1 : c[i] \in Recs
  BY <1>1
<1>3. c \in Seq(Recs) /\ Len(c) = Len(s) + 1
  BY <1>1, <1>2
<1>4. c[1] = x /\ \A i \in 1 .. Len(s) : c[i + 1] = s[i]
  BY <1>1
<1> QED
  BY <1>1, <1>3, <1>4

(* A record that is not on a list is pushed in front of it.                 *)
LEMMA PushOnList ==
  ASSUME NEW s, NEW r, NEW link, ListFrom(s, r, link),
         NEW x \in Recs, ~Contains(s, x),
         NEW new, new[x] = r, \A y \in Recs : y # x => new[y] = link[y]
  PROVE  \E c : /\ ListFrom(c, x, new)
                /\ Len(c) = Len(s) + 1
                /\ \A y \in Recs : Contains(c, y) <=> y = x \/ Contains(s, y)
<1>1. s \in Seq(Recs) /\ NoRepeats(s) /\ Run(s, link)
  BY DEF ListFrom
<1>2. PICK c \in Seq(Recs) : /\ Len(s) \in Nat
                             /\ Len(c) = Len(s) + 1
                             /\ c[1] = x
                             /\ \A i \in 1 .. Len(s) : c[i + 1] = s[i]
  BY <1>1, ConsFacts
<1>3. \A i \in 2 .. Len(c) : i - 1 \in 1 .. Len(s) /\ c[i] = s[i - 1]
  BY <1>2
<1>0. \A i \in 1 .. Len(s) : s[i] # x
  BY DEF Contains
<1>5. NoRepeats(c)
  <2> SUFFICES ASSUME NEW i \in 1 .. Len(c), NEW j \in 1 .. Len(c), c[i] = c[j]
               PROVE  i = j
    BY DEF NoRepeats
  <2>1. CASE i = 1 \/ j = 1
    <3>1. \A k \in 1 .. Len(c) : k # 1 => c[k] # c[1]
      BY <1>0, <1>2, <1>3
    <3> QED
      BY <2>1, <3>1
  <2>2. CASE i # 1 /\ j # 1
    <3>1. i \in 2 .. Len(c) /\ j \in 2 .. Len(c)
      BY <1>2, <2>2
    <3>2. i - 1 = j - 1
      BY <1>1, <1>3, <3>1 DEF NoRepeats
    <3> QED
      BY <1>2, <3>1, <3>2
  <2> QED
    BY <2>1, <2>2
<1>6. \A i \in 1 .. Len(s) : s[i] \in Recs /\ s[i] # x /\ new[s[i]] = link[s[i]]
  BY <1>0, <1>1
<1>7. ASSUME NEW i \in 1 .. Len(c) - 1 PROVE new[c[i]] = c[i + 1]
  <2>1. CASE i = 1
    BY <1>2, <2>1 DEF ListFrom
  <2>2. CASE i # 1
    <3>1. i - 1 \in 1 .. Len(s) - 1 /\ i \in 2 .. Len(c) /\ i - 1 \in 1 .. Len(s)
      BY <1>2, <2>2
    <3>2. c[i] = s[i - 1] /\ c[i + 1] = s[i] /\ link[s[i - 1]] = s[(i - 1) + 1]
      BY <1>1, <1>2, <1>3, <3>1 DEF Run
    <3> QED
      BY <1>6, <3>1, <3>2
  <2> QED
    BY <2>1, <2>2
<1>8. new[c[Len(c)]] = Null
  <2>1. CASE Len(s) = 0
    BY <1>2, <2>1 DEF ListFrom
  <2>2. CASE Len(s) # 0
    <3>1. c[Len(c)] = s[Len(s)] /\ Len(s) \in 1 .. Len(s)
      BY <1>2, <2>2
    <3> QED
      BY <1>2, <1>6, <2>2, <3>1 DEF ListFrom
  <2> QED
    BY <2>1, <2>2
<1>9. ListFrom(c, x, new)
  BY <1>2, <1>5, <1>7, <1>8 DEF ListFrom, Run
<1>10. ASSUME NEW y \in Recs PROVE Contains(c, y) <=> y = x \/ Contains(s, y)
  <2>1. Contains(c, y) <=> \E i \in 1 .. Len(c) : c[i] = y
    BY DEF Contains
  <2>2. Contains(s, y) <=> \E i \in 1 .. Len(s) : s[i] = y
    BY DEF Contains
  <2>3. ASSUME NEW i \in 1 .. Len(c), c[i] = y, y # x
        PROVE  \E j \in 1 .. Len(s) : s[j] = y
    BY <1>2, <1>3, <2>3
  <2>4. ASSUME NEW i \in 1 .. Len(s), s[i] = y
        PROVE  \E j \in 1 .. Len(c) : c[j] = y
    <3>1. i + 1 \in 1 .. Len(c) /\ c[i + 1] = y
      BY <1>2, <2>4
    <3> QED
      BY <3>1
  <2>5. 1 \in 1 .. Len(c) /\ c[1] = x
    BY <1>2
  <2> QED
    BY <2>1, <2>2, <2>3, <2>4, <2>5
<1> QED
  BY <1>2, <1>9, <1>10

(* A step that pushes and counts nothing.                                   *)
LEMMA RecordsKept ==
  ASSUME RecordInv, UNCHANGED <<head, next, count, made>>,
         \A u \in Threads : /\ Pusher(u)' <=> Pusher(u)
                            /\ pc'[u] = "count" <=> pc[u] = "count"
                            /\ Pusher(u) => got'[u] = got[u]
  PROVE  RecordInv'
<1>1. PICK H : RecordsListed(H)
  BY DEF RecordInv
<1>2. PushersDiffer'
  BY DEF RecordInv, PushersDiffer
<1>3. Counting' = Counting
  BY DEF Counting
<1>4. RecordsListed(H)'
  <2>1. ListFrom(H, head, next)'
    BY <1>1 DEF RecordsListed
  <2>2. ASSUME NEW r \in Recs
        PROVE  Contains(H, r) <=>
                 r <= made' /\ \A t \in Threads : Pusher(t)' => Last(got'[t]) # r
    BY <1>1 DEF RecordsListed
  <2>3. count' + Cardinality(Counting') = Len(H)
    BY <1>1, <1>3 DEF RecordsListed
  <2> QED
    BY <2>1, <2>2, <2>3 DEF RecordsListed
<1> QED
  BY <1>2, <1>4 DEF RecordInv

(* A new record is the next number; its maker is to push it.                *)
LEMMA NewRecRecords ==
  ASSUME TypeInv, RecordInv, NEW t \in Threads, NewRec(t)
  PROVE  RecordInv'
<1>1. PICK H : RecordsListed(H)
  BY DEF RecordInv
<1>2. /\ pc[t] = "gather" /\ pc' = [pc EXCEPT ![t] = "push_rec"]
      /\ made < MaxRecs /\ made' = made + 1
      /\ got' = [got EXCEPT ![t] = Append(@, made + 1)]
      /\ UNCHANGED <<head, next, count>>
  BY DEF NewRec, Goto
<1>3. /\ made \in Nat /\ made \in 0 .. MaxRecs /\ pc \in [Threads -> PcValues]
      /\ got \in [Threads -> Seq(Recs)]
  BY SizeAssumption DEF TypeInv, TypeOK
<1>4. PICK x \in Recs : x = made + 1
  BY <1>2, <1>3, SizeAssumption DEF Recs
<1>5. Last(got'[t]) = x
  <2>1. PICK g \in Seq(Recs) : g = got[t]
    BY <1>3
  <2>2. got'[t] = Append(g, x)
    BY <1>2, <1>3, <1>4, <2>1
  <2> QED
    BY <2>2, AppendFacts
<1>6. /\ pc'[t] = "push_rec"
      /\ \A u \in Threads : u # t => pc'[u] = pc[u] /\ got'[u] = got[u]
  BY <1>2, <1>3
<1>7. \A u \in Threads : Pusher(u) => Last(got[u]) <= made
  BY DEF RecordInv, PushersDiffer
<1>8. \A u \in Threads : Pusher(u) => u # t /\ Last(got[u]) \in Recs
  BY <1>2, <1>3, LastFacts DEF Pusher, TypeInv, GotIsNotEmpty
<1>9. PushersDiffer'
  <2>1. ASSUME NEW u \in Threads, Pusher(u)' PROVE Last(got'[u]) <= made'
    <3>1. CASE u = t
      BY <1>2, <1>3, <1>4, <1>5, <3>1
    <3>2. CASE u # t
      <4>1. Pusher(u) /\ got'[u] = got[u]
        BY <1>6, <2>1, <3>2 DEF Pusher
      <4>2. PICK y \in Recs : y = Last(got[u])
        BY <1>8, <4>1
      <4> QED
        BY <1>2, <1>3, <1>7, <4>1, <4>2, SizeAssumption DEF Recs
    <3> QED
      BY <3>1, <3>2
  <2>2. ASSUME NEW u \in Threads, NEW v \in Threads, Pusher(u)', Pusher(v)',
               Last(got'[u]) = Last(got'[v])
        PROVE  u = v
    <3>1. \A w \in Threads : w # t /\ Pusher(w)' => Last(got'[w]) # x
      <4> SUFFICES ASSUME NEW w \in Threads, w # t, Pusher(w)'
                   PROVE  Last(got'[w]) # x
        OBVIOUS
      <4>1. Pusher(w) /\ got'[w] = got[w]
        BY <1>6 DEF Pusher
      <4>2. Last(got[w]) <= made
        BY <1>7, <4>1
      <4> QED
        BY <1>3, <1>4, <4>1, <4>2
    <3>2. CASE u = t \/ v = t
      BY <1>5, <2>2, <3>1, <3>2
    <3>3. CASE u # t /\ v # t
      <4>1. Pusher(u) /\ Pusher(v) /\ Last(got[u]) = Last(got[v])
        BY <1>6, <2>2, <3>3 DEF Pusher
      <4> QED
        BY <4>1 DEF RecordInv, PushersDiffer
    <3> QED
      BY <3>2, <3>3
  <2> QED
    BY <2>1, <2>2 DEF PushersDiffer
<1>10. RecordsListed(H)'
  <2>1. ListFrom(H, head, next)'
    BY <1>1, <1>2 DEF RecordsListed
  <2>2. ASSUME NEW r \in Recs
        PROVE  Contains(H, r) <=>
                 r <= made' /\ \A u \in Threads : Pusher(u)' => Last(got'[u]) # r
    <3>1. Contains(H, r) <=>
            r <= made /\ \A u \in Threads : Pusher(u) => Last(got[u]) # r
      BY <1>1 DEF RecordsListed
    <3>2. (\A u \in Threads : Pusher(u)' => Last(got'[u]) # r) <=>
            r # x /\ \A u \in Threads : Pusher(u) => Last(got[u]) # r
      BY <1>5, <1>6, <1>8 DEF Pusher
    <3>3. r <= made <=> r <= made' /\ r # x
      BY <1>2, <1>3, <1>4, SizeAssumption DEF Recs
    <3> QED
      BY <3>1, <3>2, <3>3
  <2>3. Counting' = Counting
    BY <1>2, <1>6 DEF Counting
  <2>4. count' + Cardinality(Counting') = Len(H)
    BY <1>1, <1>2, <2>3 DEF RecordsListed
  <2> QED
    BY <2>1, <2>2, <2>4 DEF RecordsListed
<1> QED
  BY <1>9, <1>10 DEF RecordInv

(* The compare-and-swap on the head succeeds: the record is on the list, in *)
(* front, and its pusher is about to count it.                              *)
LEMMA PushRecRecords ==
  ASSUME TypeInv, RecordInv, NEW t \in Threads, PushRec(t)
  PROVE  RecordInv'
<1>1. PICK H : RecordsListed(H)
  BY DEF RecordInv
<1>2. /\ pc[t] = "push_rec" /\ pc' = [pc EXCEPT ![t] = "count"]
      /\ head = seen[t].ptr
      /\ next' = [next EXCEPT ![Last(got[t])] = seen[t].ptr]
      /\ head' = Last(got[t])
      /\ UNCHANGED <<count, made, got>>
  BY DEF PushRec, Goto
<1>3. /\ pc \in [Threads -> PcValues] /\ next \in [Recs -> RecOrNull]
      /\ got \in [Threads -> Seq(Recs)] /\ count \in Nat
  BY DEF TypeInv, TypeOK
<1>4. PICK x \in Recs : x = Last(got[t])
  BY <1>2, <1>3, LastFacts DEF TypeInv, GotIsNotEmpty
<1>5. /\ pc'[t] = "count"
      /\ \A u \in Threads : u # t => pc'[u] = pc[u]
  BY <1>2, <1>3
<1>6. /\ x <= made
      /\ \A u \in Threads : Pusher(u) /\ Last(got[u]) = x => u = t
  BY <1>2, <1>4 DEF RecordInv, PushersDiffer, Pusher
<1>7. /\ ListFrom(H, head, next)
      /\ ~Contains(H, x)
  BY <1>1, <1>2, <1>4 DEF RecordsListed, Pusher
<1>8. PICK c : /\ ListFrom(c, x, next')
               /\ Len(c) = Len(H) + 1
               /\ \A y \in Recs : Contains(c, y) <=> y = x \/ Contains(H, y)
  <2>1. next'[x] = head /\ \A y \in Recs : y # x => next'[y] = next[y]
    BY <1>2, <1>3, <1>4
  <2> QED
    BY <1>7, <2>1, PushOnList
<1>9. PushersDiffer'
  BY <1>2, <1>5 DEF RecordInv, PushersDiffer, Pusher
<1>10. RecordsListed(c)'
  <2>1. ListFrom(c, head, next)'
    BY <1>2, <1>4, <1>8
  <2>2. ASSUME NEW r \in Recs
        PROVE  Contains(c, r) <=>
                 r <= made' /\ \A u \in Threads : Pusher(u)' => Last(got'[u]) # r
    <3>1. Contains(H, r) <=>
            r <= made /\ \A u \in Threads : Pusher(u) => Last(got[u]) # r
      BY <1>1 DEF RecordsListed
    <3>2. (\A u \in Threads : Pusher(u)' => Last(got'[u]) # r) <=>
            \A u \in Threads : Pusher(u) /\ u # t => Last(got[u]) # r
      BY <1>2, <1>5 DEF Pusher
    <3>3. Pusher(t) /\ Last(got[t]) = x
      BY <1>2, <1>4 DEF Pusher
    <3>4. CASE r = x
      BY <1>2, <1>6, <1>8, <3>2, <3>4
    <3>5. CASE r # x
      BY <1>2, <1>8, <3>1, <3>2, <3>3, <3>5
    <3> QED
      BY <3>4, <3>5
  <2>3. Counting' = Counting \union {t} /\ t \notin Counting
    BY <1>2, <1>5 DEF Counting
  <2>4. IsFiniteSet(Counting) /\ Cardinality(Counting) \in Nat
    BY RoleAssumption, FS_Subset, FS_CardinalityType DEF Counting
  <2>5. Cardinality(Counting') = Cardinality(Counting) + 1
    BY <2>3, <2>4, FS_AddElement
  <2>6. Len(H) = count + Cardinality(Counting)
    BY <1>1 DEF RecordsListed
  <2>7. count' + Cardinality(Counting') = Len(c)
    BY <1>2, <1>3, <1>8, <2>4, <2>5, <2>6
  <2> QED
    BY <2>1, <2>2, <2>7 DEF RecordsListed
<1> QED
  BY <1>9, <1>10 DEF RecordInv

(* The count goes up by the record that its pusher counts.                  *)
LEMMA CountRecRecords ==
  ASSUME TypeInv, RecordInv, NEW t \in Threads, CountRec(t)
  PROVE  RecordInv'
<1>1. PICK H : RecordsListed(H)
  BY DEF RecordInv
<1>2. /\ pc[t] = "count" /\ pc' = [pc EXCEPT ![t] = "gather"]
      /\ count' = count + 1
      /\ UNCHANGED <<head, next, made, got>>
  BY DEF CountRec, Goto
<1>3. pc \in [Threads -> PcValues] /\ count \in Nat
  BY DEF TypeInv, TypeOK
<1>4. \A u \in Threads : Pusher(u)' <=> Pusher(u)
  BY <1>2, <1>3 DEF Pusher
<1>5. PushersDiffer'
  BY <1>2, <1>4 DEF RecordInv, PushersDiffer
<1>6. Counting' = Counting \ {t} /\ t \in Counting
  BY <1>2, <1>3 DEF Counting
<1>7. IsFiniteSet(Counting) /\ Cardinality(Counting) \in Nat
  BY RoleAssumption, FS_Subset, FS_CardinalityType DEF Counting
<1>8. Cardinality(Counting') = Cardinality(Counting) - 1
  BY <1>6, <1>7, FS_RemoveElement
<1>9. RecordsListed(H)'
  <2>1. ListFrom(H, head, next)'
    BY <1>1, <1>2 DEF RecordsListed
  <2>2. ASSUME NEW r \in Recs
        PROVE  Contains(H, r) <=>
                 r <= made' /\ \A u \in Threads : Pusher(u)' => Last(got'[u]) # r
    BY <1>1, <1>2, <1>4 DEF RecordsListed
  <2>3. Len(H) = count + Cardinality(Counting)
    BY <1>1 DEF RecordsListed
  <2>4. count' + Cardinality(Counting') = Len(H)
    BY <1>2, <1>3, <1>7, <1>8, <2>3
  <2> QED
    BY <2>1, <2>2, <2>4 DEF RecordsListed
<1> QED
  BY <1>5, <1>9 DEF RecordInv

(* The list of all records, one action at a time.                           *)
LEMMA NextRecordInv == TypeInv /\ RecordInv /\ [Next]_vars => RecordInv'
<1> SUFFICES ASSUME TypeInv, RecordInv, [Next]_vars PROVE RecordInv'
  OBVIOUS
<1>1. /\ pc \in [Threads -> PcValues] /\ got \in [Threads -> Seq(Recs)]
  BY DEF TypeInv, TypeOK
<1>2. ASSUME NEW t \in Threads, NewRec(t) PROVE RecordInv'
  BY <1>2, NewRecRecords
<1>3. ASSUME NEW t \in Threads, PushRec(t) PROVE RecordInv'
  BY <1>3, PushRecRecords
<1>4. ASSUME NEW t \in Threads, CountRec(t) PROVE RecordInv'
  BY <1>4, CountRecRecords
<1>5. ASSUME NEW t \in Threads, TakeStolen(t) \/ PushRecFails(t) PROVE RecordInv'
  <2>1. /\ UNCHANGED <<head, next, count, made, pc>>
        /\ \A u \in Threads : Pusher(u) => got'[u] = got[u]
    BY <1>1, <1>5 DEF TakeStolen, PushRecFails, recs, Pusher
  <2> QED
    BY <2>1, RecordsKept DEF Pusher
<1>6. ASSUME NEW t \in Threads,
             \/ Begin(t) \/ LoadAvail(t) \/ FetchOrBusy(t) \/ FetchOrLocks(t)
             \/ StealMore(t) \/ StealEnough(t) \/ Unlock(t) \/ CutTail(t)
             \/ ReturnHandle(t) \/ ReleaseStep(t)
      PROVE  RecordInv'
  <2> DEFINE Quiet == /\ UNCHANGED <<head, next, count, made>>
                      /\ pc[t] \notin {"push_rec", "count"}
                      /\ \A u \in Threads : u # t => got'[u] = got[u]
                      /\ \E to \in PcValues \ {"push_rec", "count"} :
                           pc' = [pc EXCEPT ![t] = to] \/ pc' = pc
  <2>1. Quiet
    <3>1. ASSUME Begin(t) PROVE Quiet
      BY <1>1, <3>1 DEF Begin, AcquireMany, DropArray, DropSingle, Goto,
                        recs, local, PcValues
    <3>2. ASSUME ReleaseStep(t) PROVE Quiet
      BY <1>1, <3>2 DEF ReleaseStep, LoadForRelease, PushAvailable, PushFails,
                        Goto, recs, PcValues
    <3>3. ASSUME \/ LoadAvail(t) \/ FetchOrBusy(t) \/ FetchOrLocks(t)
                 \/ Unlock(t) \/ CutTail(t) \/ ReturnHandle(t)
          PROVE Quiet
      BY <1>1, <3>3 DEF LoadAvail, FetchOrBusy, FetchOrLocks, Unlock, CutTail,
                        ReturnHandle, Goto, recs, PcValues
    <3>4. ASSUME StealMore(t) \/ StealEnough(t) PROVE Quiet
      BY <1>1, <3>4 DEF StealMore, StealEnough, Goto, recs, PcValues
    <3> QED
      BY <1>6, <3>1, <3>2, <3>3, <3>4
  <2>2. \A u \in Threads : /\ Pusher(u)' <=> Pusher(u)
                           /\ pc'[u] = "count" <=> pc[u] = "count"
                           /\ Pusher(u) => got'[u] = got[u]
    BY <1>1, <2>1 DEF Pusher
  <2> QED
    BY <2>1, <2>2, RecordsKept
<1>7. CASE UNCHANGED vars
  BY <1>7, RecordsKept DEF vars, recs, local, Pusher
<1> QED
  BY <1>2, <1>3, <1>4, <1>5, <1>6, <1>7 DEF Next, AcquireStep

(* The number of records on a list.                                         *)
LEMMA ListCardinality ==
  ASSUME NEW s \in Seq(Recs), NoRepeats(s)
  PROVE  Cardinality({s[i] : i \in 1 .. Len(s)}) = Len(s)
<1> DEFINE T == {s[i] : i \in 1 .. Len(s)}
<1>1. Len(s) \in Nat /\ s \in [1 .. Len(s) -> T]
  OBVIOUS
<1>2. \A i, j \in 1 .. Len(s) : s[i] = s[j] => i = j
  BY DEF NoRepeats
<1>3. \A x \in T : \E i \in 1 .. Len(s) : s[i] = x
  OBVIOUS
<1> HIDE DEF T
<1>4. s \in Injection(1 .. Len(s), T) /\ s \in Surjection(1 .. Len(s), T)
  BY <1>1, <1>2, <1>3 DEF Injection, Surjection, IsInjective
<1>5. ExistsBijection(1 .. Len(s), T)
  BY <1>4 DEF ExistsBijection, Bijection
<1>6. Cardinality(T) = Len(s)
  BY <1>1, <1>5, FS_CountingElements
<1> QED
  BY <1>6 DEF T

(* For any number of threads, no record is lost from, or twice on, the list *)
(* that a reclaimer scans, whichever calls of acquire_new_rec race, and     *)
(* count falls behind its length by the calls about to count only.          *)
THEOREM RecordListStaysIntact == Spec => []RecordListIntact
<1>1. Init => RecordInv
  <2> SUFFICES ASSUME Init PROVE RecordInv
    OBVIOUS
  <2>1. ListFrom(<<>>, head, next) /\ \A r \in Recs : ~Contains(<<>>, r) /\ ~(r <= made)
    BY SizeAssumption DEF Init, ListFrom, NoRepeats, Run, Contains, Recs
  <2>2. Counting = {} /\ \A t \in Threads : ~Pusher(t)
    BY DEF Init, Counting, Pusher
  <2>3. count + Cardinality(Counting) = Len(<<>>)
    BY <2>2, FS_EmptySet DEF Init
  <2>4. RecordsListed(<<>>)
    BY <2>1, <2>2, <2>3 DEF RecordsListed
  <2> QED
    BY <2>2, <2>4 DEF RecordInv, PushersDiffer
<1>2. TypeInv /\ RecordInv /\ [Next]_vars => RecordInv'
  BY NextRecordInv
<1>3. TypeInv /\ RecordInv => RecordListIntact
  <2> SUFFICES ASSUME TypeInv, RecordInv PROVE RecordListIntact
    OBVIOUS
  <2> DEFINE listed == ReachedFrom(head, next)
             pushing == {Last(got[t]) : t \in {u \in Threads : pc[u] = "push_rec"}}
  <2>1. PICK H : RecordsListed(H)
    BY DEF RecordInv
  <2>2. ListFrom(H, head, next)
    BY <2>1 DEF RecordsListed
  <2>3. listed = {H[i] : i \in 1 .. Len(H)}
    BY <2>2, ReachedIsRange
  <2> HIDE DEF listed
  <2>4. H \in Seq(Recs) /\ NoRepeats(H)
    BY <2>2 DEF ListFrom
  <2>5. Cardinality(listed) = Len(H)
    BY <2>3, <2>4, ListCardinality
  <2>6. ASSUME NEW r PROVE r \in listed <=> r \in (1 .. made) \ pushing
    <3>1. r \in listed => r \in Recs
      BY <2>3, <2>4
    <3>2. r \in 1 .. made => r \in Recs
      BY SizeAssumption DEF Recs, TypeInv, TypeOK
    <3>3. ASSUME r \in Recs
          PROVE  /\ r \in listed <=> Contains(H, r)
                 /\ r \in 1 .. made <=> r <= made
                 /\ r \in pushing <=> \E t \in Threads : Pusher(t) /\ Last(got[t]) = r
      <4>1. r \in listed <=> Contains(H, r)
        BY <2>3 DEF Contains
      <4>2. r \in 1 .. made <=> r <= made
        BY <3>3, SizeAssumption DEF Recs, TypeInv, TypeOK
      <4>3. r \in pushing <=> \E t \in Threads : Pusher(t) /\ Last(got[t]) = r
        BY DEF Pusher
      <4> QED
        BY <4>1, <4>2, <4>3
    <3> QED
      BY <2>1, <3>1, <3>2, <3>3 DEF RecordsListed
  <2>7. listed = (1 .. made) \ pushing
    BY <2>6
  <2>8. count = Cardinality(listed) - Cardinality(Counting)
    <3>1. count \in Nat
      BY DEF TypeInv, TypeOK
    <3>2. Cardinality(Counting) \in Nat
      BY RoleAssumption, FS_Subset, FS_CardinalityType DEF Counting
    <3> QED
      BY <2>1, <2>5, <3>1, <3>2 DEF RecordsListed
  <2> QED
    BY <2>7, <2>8 DEF RecordListIntact, listed, Counting
<1> QED
  BY <1>1, <1>2, <1>3, TypeAndLock, PTL DEF Spec

-----------------------------------------------------------------------------
(* The owners of the records, as long as no thread went on with a stale     *)
(* head.  The invariant says that there are                                 *)
(*   L      the list of available records,                                  *)
(*   chain  for each call, the records it took or made, of which got[t] is  *)
(*          what it has gathered so far,                                    *)
(*   own    the one owner of each record: the list, a call or a handle.     *)

Avail  == <<"available", 0>>
New    == <<"new", 0>>
Call(t) == <<"call", t>>
Handle(h) == <<"handle", h>>

(* An owner is one of the four, and one thread's or one handle's.           *)
LEMMA OwnerFacts ==
  /\ Avail # New
  /\ \A t : Call(t) # Avail /\ Call(t) # New
  /\ \A h : Handle(h) # Avail /\ Handle(h) # New
  /\ \A t, h : Call(t) # Handle(h)
  /\ \A t, u : Call(t) = Call(u) => t = u
  /\ \A g, h : Handle(g) = Handle(h) => g = h
  BY DEF Avail, New, Call, Handle

OwnsAll(o, s, own) == \A i \in 1 .. Len(s) : own[s[i]] = o

(* What a handle holds is a list that ends, as release_many asks.           *)
HandleOk(h) ==
  /\ NoRepeats(h.recs)
  /\ Run(h.recs, available)
  /\ available[h.recs[Len(h.recs)]] = Null

(* What has been gathered is the beginning of the call's chain.             *)
Gathered(t, c) ==
  /\ Len(got[t]) <= Len(c)
  /\ \A i \in 1 .. Len(got[t]) : got[t][i] = c[i]

AtRest(t, c) ==
  /\ pc[t] \in {"idle", "load", "fetch_or", "steal", "unlock", "panicked"} =>
       Len(c) = 0
  /\ pc[t] \in {"idle", "load", "fetch_or", "release", "push"} =>
       first[t] = Null /\ tail[t] = Null

(* The walk is on the list, which is locked.                                *)
AtSteal(t, L) ==
  /\ pc[t] \in {"steal", "unlock"} => first[t] = avail_head.ptr
  /\ pc[t] = "steal" =>
       n[t] \in 1 .. Len(L) /\ n[t] <= want[t] /\ tail[t] = L[n[t]]
  /\ pc[t] = "unlock" =>
       /\ \E k \in 1 .. Len(L) : k <= want[t] /\ tail[t] = L[k]
       /\ seen[t].ptr = available[tail[t]]

(* The run that was taken is still to be cut off.                           *)
AtCut(t, c) ==
  pc[t] = "cut" =>
    /\ Len(got[t]) = 0 /\ Len(c) \in 1 .. want[t]
    /\ first[t] = c[1] /\ tail[t] = c[Len(c)]
    /\ Run(c, available)

AtGather(t, c) ==
  pc[t] = "gather" =>
    /\ Len(c) <= want[t]
    /\ Run(c, available)
    /\ Len(c) > 0 => available[c[Len(c)]] = Null
    /\ Len(got[t]) < Len(c) => first[t] = c[Len(got[t]) + 1]
    /\ Len(got[t]) = Len(c) => first[t] = Null
    /\ Len(got[t]) = 0 => tail[t] = Null
    /\ Len(got[t]) > 0 => tail[t] = c[Len(got[t])]

(* The last record is new, and not yet linked behind the one before it.     *)
AtPush(t, c) ==
  pc[t] \in {"push_rec", "count"} =>
    /\ Len(got[t]) = Len(c) /\ Len(c) \in 1 .. want[t]
    /\ first[t] = Null
    /\ available[c[Len(c)]] = Null
    /\ \A i \in 1 .. Len(c) - 2 : available[c[i]] = c[i + 1]
    /\ Len(c) = 1 => tail[t] = Null
    /\ Len(c) > 1 => tail[t] = c[Len(c) - 1]

AtRelease(t, c) ==
  /\ pc[t] \in {"release", "push"} =>
       Len(got[t]) = Len(c) /\ Len(c) > 0 /\ Run(c, available)
  /\ pc[t] = "push" => available[c[Len(c)]] = seen[t].ptr

CallOk(t, c, L) ==
  /\ c \in Seq(Recs) /\ NoRepeats(c)
  /\ Gathered(t, c) /\ AtRest(t, c) /\ AtSteal(t, L) /\ AtCut(t, c)
  /\ AtGather(t, c) /\ AtPush(t, c) /\ AtRelease(t, c)
  /\ pc[t] # "wild"

OwnersOk(L, chain, own) ==
  /\ OwnsAll(Avail, L, own)
  /\ \A t \in Threads : OwnsAll(Call(t), chain[t], own)
  /\ \A h \in handles : OwnsAll(Handle(h), h.recs, own)
  /\ \A r \in Recs : r > made => own[r] = New /\ available[r] = Null

Owners(L, chain, own) ==
  /\ ListFrom(L, avail_head.ptr, available)
  /\ chain \in [Threads -> Seq(Recs)]
  /\ OwnersOk(L, chain, own)
  /\ \A t \in Threads : CallOk(t, chain[t], L)
  /\ \A h \in handles : HandleOk(h)

OwnerInv == stale \/ \E L, chain, own : Owners(L, chain, own)

(* A step of t leaves the variables of the other calls alone.               *)
OthersKept(t) ==
  \A u \in Threads : u # t =>
    /\ pc'[u] = pc[u] /\ want'[u] = want[u] /\ seen'[u] = seen[u]
    /\ first'[u] = first[u] /\ tail'[u] = tail[u] /\ n'[u] = n[u]
    /\ got'[u] = got[u]

(* What the owner o has, it keeps, links included.                          *)
Keeps(o, own, own2) ==
  \A r \in Recs : own[r] = o => own2[r] = o /\ available'[r] = available[r]

(* A call that is left alone, and whose records are, stays as it is.        *)
LEMMA CallKept ==
  ASSUME NEW u \in Threads, NEW c, NEW L, NEW L2, CallOk(u, c, L),
         pc'[u] = pc[u], want'[u] = want[u], seen'[u] = seen[u],
         first'[u] = first[u], tail'[u] = tail[u], n'[u] = n[u],
         got'[u] = got[u],
         \A i \in 1 .. Len(c) : available'[c[i]] = available[c[i]],
         pc[u] \in {"steal", "unlock"} =>
           /\ L2 = L /\ avail_head'.ptr = avail_head.ptr
           /\ available'[tail[u]] = available[tail[u]]
  PROVE  CallOk(u, c, L2)'
<1>1. c \in Seq(Recs) /\ NoRepeats(c) /\ Len(c) \in Nat
  BY DEF CallOk
<1>2. Gathered(u, c)' /\ AtRest(u, c)' /\ pc'[u] # "wild"
  BY DEF CallOk, Gathered, AtRest
<1>3. AtSteal(u, L2)'
  <2>1. AtSteal(u, L)
    BY DEF CallOk
  <2>2. CASE pc[u] \in {"steal", "unlock"}
    BY <2>1, <2>2 DEF AtSteal
  <2>3. CASE pc[u] \notin {"steal", "unlock"}
    BY <2>3 DEF AtSteal
  <2> QED
    BY <2>2, <2>3
<1>4. Run(c, available) => Run(c, available')
  BY <1>1 DEF Run
<1>5. Len(c) > 0 => available'[c[Len(c)]] = available[c[Len(c)]]
  BY <1>1
<1>6. AtCut(u, c)'
  BY <1>4 DEF CallOk, AtCut
<1>7. AtGather(u, c)'
  BY <1>4, <1>5 DEF CallOk, AtGather
<1>8. AtPush(u, c)'
  <2>1. \A i \in 1 .. Len(c) - 2 : available'[c[i]] = available[c[i]]
    BY <1>1
  <2> QED
    BY <1>1, <1>5, <2>1 DEF CallOk, AtPush
<1>9. AtRelease(u, c)'
  BY <1>4, <1>5 DEF CallOk, AtRelease
<1> QED
  BY <1>1, <1>2, <1>3, <1>6, <1>7, <1>8, <1>9 DEF CallOk

(* Whatever a step of t does, the owners are in order after it if they are  *)
(* for t, the list and the handles, and if the others keep what they have.  *)
LEMMA StepOwners ==
  ASSUME TypeInv, NEW t \in Threads, OthersKept(t),
         NEW L, NEW chain, NEW own, Owners(L, chain, own),
         NEW L2, NEW c, NEW own2,
         \A u \in Threads : u # t => Keeps(Call(u), own, own2),
         \A u \in Threads : u # t /\ pc[u] \in {"steal", "unlock"} =>
           /\ L2 = L /\ avail_head'.ptr = avail_head.ptr
           /\ available'[tail[u]] = available[tail[u]],
         ListFrom(L2, avail_head'.ptr, available'), OwnsAll(Avail, L2, own2),
         OwnsAll(Call(t), c, own2), CallOk(t, c, L2)',
         \A h \in handles' :
           \/ h \in handles /\ Keeps(Handle(h), own, own2)
           \/ HandleOk(h)' /\ OwnsAll(Handle(h), h.recs, own2),
         \A r \in Recs : r > made' => own2[r] = New /\ available'[r] = Null
  PROVE  \E chain2 : Owners(L2, chain2, own2)'
<1> DEFINE chain2 == [chain EXCEPT ![t] = c]
<1>0. c \in Seq(Recs) /\ chain \in [Threads -> Seq(Recs)]
  BY DEF CallOk, Owners
<1>1. /\ chain2 \in [Threads -> Seq(Recs)]
      /\ chain2[t] = c
      /\ \A u \in Threads : u # t => chain2[u] = chain[u]
  BY <1>0
<1> HIDE DEF chain2
<1>2. ASSUME NEW u \in Threads, u # t
      PROVE  /\ \A i \in 1 .. Len(chain[u]) :
                  /\ own2[chain[u][i]] = Call(u)
                  /\ available'[chain[u][i]] = available[chain[u][i]]
             /\ CallOk(u, chain[u], L)
  <2>1. \A i \in 1 .. Len(chain[u]) :
          chain[u][i] \in Recs /\ own[chain[u][i]] = Call(u)
    <3>1. chain[u] \in Seq(Recs)
      BY <1>0
    <3>2. OwnsAll(Call(u), chain[u], own)
      BY DEF Owners, OwnersOk
    <3> QED
      BY <3>1, <3>2 DEF OwnsAll
  <2> QED
    BY <1>2, <2>1 DEF Keeps, Owners
<1>3. \A u \in Threads : OwnsAll(Call(u), chain2[u], own2)
  BY <1>1, <1>2 DEF OwnsAll
<1>4. ASSUME NEW u \in Threads PROVE CallOk(u, chain2[u], L2)'
  <2>1. CASE u = t
    BY <1>1, <2>1
  <2>2. CASE u # t
    <3>1. PICK d : d = chain[u]
      OBVIOUS
    <3>2. CallOk(u, d, L2)'
      BY <1>2, <2>2, <3>1, CallKept DEF OthersKept
    <3> QED
      BY <1>1, <2>2, <3>1, <3>2
  <2> QED
    BY <2>1, <2>2
<1>5. ASSUME NEW h \in handles'
      PROVE  HandleOk(h)' /\ OwnsAll(Handle(h), h.recs, own2)
  <2>1. CASE h \in handles /\ Keeps(Handle(h), own, own2)
    <3>1. h.recs \in Seq(Recs) /\ h.recs # <<>>
      BY <2>1 DEF TypeInv, TypeOK, GotIsNotEmpty
    <3>2. PICK s \in Seq(Recs) : s = h.recs
      BY <3>1
    <3>3. Len(s) \in Nat /\ Len(s) > 0
      BY <3>1, <3>2
    <3>4. OwnsAll(Handle(h), s, own) /\ HandleOk(h)
      BY <2>1, <3>2 DEF Owners, OwnersOk
    <3>5. \A i \in 1 .. Len(s) : own2[s[i]] = Handle(h)
                                 /\ available'[s[i]] = available[s[i]]
      BY <2>1, <3>4 DEF Keeps, OwnsAll
    <3>6. Run(s, available')
      BY <3>2, <3>3, <3>4, <3>5 DEF HandleOk, Run
    <3>7. available'[s[Len(s)]] = Null
      BY <3>2, <3>3, <3>4, <3>5 DEF HandleOk
    <3> QED
      BY <3>2, <3>4, <3>5, <3>6, <3>7 DEF HandleOk, OwnsAll
  <2> QED
    BY <2>1
<1>6. OwnersOk(L2, chain2, own2)'
  BY <1>3, <1>5 DEF OwnersOk
<1>7. Owners(L2, chain2, own2)'
  BY <1>1, <1>4, <1>5, <1>6 DEF Owners
<1> QED
  BY <1>7

(* A list whose links are left alone.                                       *)
LEMMA ListKept ==
  ASSUME NEW s, NEW r, NEW link, NEW new, ListFrom(s, r, link),
         \A i \in 1 .. Len(s) : new[s[i]] = link[s[i]]
  PROVE  ListFrom(s, r, new)
<1>1. s \in Seq(Recs) /\ Len(s) \in Nat
  BY DEF ListFrom
<1>2. Run(s, new)
  BY <1>1 DEF ListFrom, Run
<1>3. Len(s) > 0 => new[s[Len(s)]] = link[s[Len(s)]]
  BY <1>1
<1> QED
  BY <1>1, <1>2, <1>3 DEF ListFrom

(* The record at which a thread walks or stops is one of the list's.        *)
LEMMA TailIsListed ==
  ASSUME NEW u \in Threads, NEW c, NEW L, CallOk(u, c, L),
         pc[u] \in {"steal", "unlock"}
  PROVE  \E k \in 1 .. Len(L) : tail[u] = L[k]
  BY DEF CallOk, AtSteal

(* A step of t that neither gives nor takes a record, and at most changes   *)
(* the links of its own ones.                                               *)
LEMMA QuietOwners ==
  ASSUME TypeInv, NEW t \in Threads, OthersKept(t),
         NEW L, NEW chain, NEW own, Owners(L, chain, own),
         \A r \in Recs : own[r] # Call(t) => available'[r] = available[r],
         avail_head'.ptr = avail_head.ptr, handles' \subseteq handles,
         made' = made, CallOk(t, chain[t], L)'
  PROVE  \E L2, chain2, own2 : Owners(L2, chain2, own2)'
<1>1. \A i \in 1 .. Len(L) :
        L[i] \in Recs /\ own[L[i]] = Avail /\ available'[L[i]] = available[L[i]]
  <2>1. L \in Seq(Recs) /\ OwnsAll(Avail, L, own)
    BY DEF Owners, OwnersOk, ListFrom
  <2> QED
    BY <2>1, OwnerFacts DEF OwnsAll
<1>2. ListFrom(L, avail_head'.ptr, available')
  BY <1>1, ListKept DEF Owners
<1>3. \A u \in Threads : u # t => Keeps(Call(u), own, own)
  BY OwnerFacts DEF Keeps
<1>4. ASSUME NEW u \in Threads, u # t, pc[u] \in {"steal", "unlock"}
      PROVE  available'[tail[u]] = available[tail[u]]
  <2>1. CallOk(u, chain[u], L)
    BY DEF Owners
  <2>2. \E k \in 1 .. Len(L) : tail[u] = L[k]
    BY <1>4, <2>1, TailIsListed
  <2> QED
    BY <1>1, <2>2
<1>5. \A h \in handles' : h \in handles /\ Keeps(Handle(h), own, own)
  BY OwnerFacts DEF Keeps
<1>6. \A r \in Recs : r > made' => own[r] = New /\ available'[r] = Null
  BY OwnerFacts DEF Owners, OwnersOk
<1>7. OwnsAll(Avail, L, own) /\ OwnsAll(Call(t), chain[t], own)
  BY DEF Owners, OwnersOk
<1>8. \E chain2 : Owners(L, chain2, own)'
  <2>1. PICK c : c = chain[t]
    OBVIOUS
  <2>2. CallOk(t, c, L)' /\ OwnsAll(Call(t), c, own)
    BY <1>7, <2>1
  <2> QED
    BY <1>2, <1>3, <1>4, <1>5, <1>6, <1>7, <2>2, StepOwners
<1> QED
  BY <1>8

(* The definitions that say where a call is.                                *)
LEMMA CallCases ==
  ASSUME NEW t \in Threads, NEW c, NEW L, CallOk(t, c, L)
  PROVE  /\ c \in Seq(Recs) /\ NoRepeats(c) /\ Gathered(t, c)
         /\ AtRest(t, c) /\ AtSteal(t, L) /\ AtCut(t, c) /\ AtGather(t, c)
         /\ AtPush(t, c) /\ AtRelease(t, c) /\ Len(c) \in Nat
  BY DEF CallOk

(* What every step of a thread t has in common.                             *)
LEMMA StepOthers ==
  ASSUME TypeInv, NEW t \in Threads,
         \/ Begin(t) \/ AcquireStep(t) \/ ReleaseStep(t)
  PROVE  OthersKept(t)
<1> USE DEF TypeInv, TypeOK, OthersKept, Goto, Forget, recs, avail, local
<1>1. ASSUME Begin(t) PROVE OthersKept(t)
  BY <1>1 DEF Begin, AcquireMany, DropArray, DropSingle
<1>2. ASSUME LoadAvail(t) \/ FetchOrBusy(t) \/ FetchOrLocks(t) PROVE OthersKept(t)
  BY <1>2 DEF LoadAvail, FetchOrBusy, FetchOrLocks
<1>3. ASSUME StealMore(t) \/ StealEnough(t) \/ Unlock(t) PROVE OthersKept(t)
  BY <1>3 DEF StealMore, StealEnough, Unlock
<1>4. ASSUME CutTail(t) \/ TakeStolen(t) \/ NewRec(t) PROVE OthersKept(t)
  BY <1>4 DEF CutTail, TakeStolen, NewRec
<1>5. ASSUME PushRec(t) \/ PushRecFails(t) PROVE OthersKept(t)
  BY <1>5 DEF PushRec, PushRecFails
<1>6. ASSUME CountRec(t) \/ ReturnHandle(t) PROVE OthersKept(t)
  BY <1>6 DEF CountRec, ReturnHandle
<1>7. ASSUME ReleaseStep(t) PROVE OthersKept(t)
  BY <1>7 DEF ReleaseStep, LoadForRelease, PushAvailable, PushFails
<1> QED
  BY <1>1, <1>2, <1>3, <1>4, <1>5, <1>6, <1>7 DEF AcquireStep

(* The thread types that the steps below need.                              *)
LEMMA LocalTypes ==
  ASSUME TypeInv
  PROVE  /\ pc \in [Threads -> PcValues] /\ want \in [Threads -> Nat]
         /\ seen \in [Threads -> TaggedPtr]
         /\ first \in [Threads -> RecOrNull] /\ tail \in [Threads -> RecOrNull]
         /\ n \in [Threads -> Nat] /\ got \in [Threads -> Seq(Recs)]
         /\ available \in [Recs -> RecOrNull] /\ avail_head \in TaggedPtr
         /\ \A t \in Threads : got[t] \in Seq(Recs) /\ Len(got[t]) \in Nat
  BY DEF TypeInv, TypeOK

-----------------------------------------------------------------------------
(* One lemma per action: its owners are in order.  First the actions up to  *)
(* the lock.                                                                *)
LEMMA LoadOwners ==
  ASSUME TypeInv, NEW t \in Threads,
         \/ AcquireMany(t) \/ LoadAvail(t) \/ FetchOrBusy(t) \/ DropSingle(t),
         NEW L, NEW chain, NEW own, Owners(L, chain, own)
  PROVE  \E L2, chain2, own2 : Owners(L2, chain2, own2)'
<1>1. OthersKept(t)
  BY StepOthers DEF Begin, AcquireStep
<1>2. PICK c : c = chain[t]
  OBVIOUS
<1>3. CallOk(t, c, L)
  BY <1>2 DEF Owners
<1>4. /\ UNCHANGED <<avail_head, available, made, first, tail, got>>
      /\ handles' \subseteq handles
      /\ pc[t] \in {"idle", "load", "fetch_or"}
      /\ pc'[t] \in {"load", "gather", "fetch_or", "panicked"}
  BY LocalTypes DEF AcquireMany, LoadAvail, FetchOrBusy, DropSingle, Goto,
     recs, avail, local
<1>5. /\ c \in Seq(Recs) /\ NoRepeats(c) /\ Len(c) = 0
      /\ first[t] = Null /\ tail[t] = Null /\ Len(got[t]) = 0
  BY <1>3, <1>4, CallCases, LocalTypes DEF AtRest, Gathered
<1>6. want'[t] \in Nat
  BY NextTypeInv DEF Next, Begin, AcquireStep, TypeInv, TypeOK
<1>7. CallOk(t, c, L)'
  BY <1>4, <1>5, <1>6 DEF CallOk, Gathered, AtRest, AtSteal, AtCut, AtGather, AtPush,
     AtRelease, Run
<1> QED
  BY <1>1, <1>2, <1>4, <1>7, QuietOwners

(* fetch_or takes the lock; if what was loaded is still the head, the walk  *)
(* starts at the first record of the list.                                  *)
LEMMA LockOwners ==
  ASSUME TypeInv, NEW t \in Threads, FetchOrLocks(t), ~stale',
         NEW L, NEW chain, NEW own, Owners(L, chain, own)
  PROVE  \E L2, chain2, own2 : Owners(L2, chain2, own2)'
<1>1. OthersKept(t)
  BY StepOthers DEF AcquireStep
<1>2. PICK c : c = chain[t]
  OBVIOUS
<1>3. CallOk(t, c, L)
  BY <1>2 DEF Owners
<1>4. /\ pc[t] = "fetch_or" /\ seen[t] = avail_head /\ ~avail_head.lock
      /\ UNCHANGED <<available, made, handles, got, want>>
      /\ avail_head'.ptr = avail_head.ptr
      /\ n'[t] = 1 /\ first'[t] = avail_head.ptr /\ tail'[t] = avail_head.ptr
      /\ pc'[t] = "steal"
  BY LocalTypes DEF FetchOrLocks, Goto, recs, TaggedPtr
<1>5. c \in Seq(Recs) /\ NoRepeats(c) /\ Len(c) = 0 /\ Len(got[t]) = 0
  BY <1>3, <1>4, CallCases, LocalTypes DEF AtRest, Gathered
<1>6. Len(L) \in Nat /\ Len(L) > 0 /\ avail_head.ptr = L[1]
  <2>1. avail_head.ptr # Null
    BY <1>4, LocalTypes, PointerFacts DEF TypeInv, SeenIsFit
  <2>2. /\ Len(L) \in Nat
        /\ Len(L) = 0 => avail_head.ptr = Null
        /\ Len(L) > 0 => avail_head.ptr = L[1]
    BY DEF Owners, ListFrom
  <2> QED
    BY <2>1, <2>2
<1>7. want[t] \in Nat /\ want[t] >= 1
  BY <1>4, LocalTypes DEF TypeInv, AcquirerWants, AcquirePcs
<1>8. CallOk(t, c, L)'
  BY <1>4, <1>5, <1>6, <1>7 DEF CallOk, Gathered, AtRest, AtSteal, AtCut,
     AtGather, AtPush, AtRelease
<1> QED
  BY <1>1, <1>2, <1>4, <1>8, QuietOwners

(* The walk goes on along the list, up to as many records as are wanted.    *)
LEMMA StealOwners ==
  ASSUME TypeInv, NEW t \in Threads, StealMore(t) \/ StealEnough(t),
         NEW L, NEW chain, NEW own, Owners(L, chain, own)
  PROVE  \E L2, chain2, own2 : Owners(L2, chain2, own2)'
<1>1. OthersKept(t)
  BY StepOthers DEF AcquireStep
<1>2. PICK c : c = chain[t]
  OBVIOUS
<1>3. CallOk(t, c, L)
  BY <1>2 DEF Owners
<1>4. /\ pc[t] = "steal"
      /\ UNCHANGED <<avail_head, available, made, handles, got, want, first>>
  BY DEF StealMore, StealEnough, recs, avail
<1>5. /\ c \in Seq(Recs) /\ NoRepeats(c) /\ Len(c) = 0 /\ Len(got[t]) = 0
      /\ first[t] = avail_head.ptr
      /\ n[t] \in 1 .. Len(L) /\ n[t] <= want[t] /\ tail[t] = L[n[t]]
  BY <1>3, <1>4, CallCases, LocalTypes DEF AtRest, Gathered, AtSteal
<1>6. /\ L \in Seq(Recs) /\ Len(L) \in Nat
      /\ available[L[Len(L)]] = Null
      /\ \A i \in 1 .. Len(L) - 1 : available[L[i]] = L[i + 1]
  BY <1>5 DEF Owners, ListFrom, Run
<1>7. ASSUME StealMore(t) PROVE CallOk(t, c, L)'
  <2>1. /\ pc'[t] = "steal" /\ n'[t] = n[t] + 1 /\ n[t] < want[t]
        /\ tail'[t] = available[tail[t]] /\ available[tail[t]] # Null
    BY <1>4, <1>7, LocalTypes DEF StealMore
  <2>2. n[t] # Len(L)
    BY <1>5, <1>6, <2>1
  <2>3. n[t] \in 1 .. Len(L) - 1
    BY <1>5, <1>6, <2>2
  <2>4. tail'[t] = L[n'[t]] /\ n'[t] \in 1 .. Len(L) /\ n'[t] <= want'[t]
    BY <1>4, <1>5, <1>6, <2>1, <2>3, LocalTypes
  <2> QED
    BY <1>4, <1>5, <2>1, <2>4 DEF CallOk, Gathered, AtRest, AtSteal, AtCut,
       AtGather, AtPush, AtRelease
<1>8. ASSUME StealEnough(t) PROVE CallOk(t, c, L)'
  <2>1. /\ pc'[t] = "unlock" /\ tail' = tail
        /\ seen'[t] = Untagged(available[tail[t]])
    BY <1>8, LocalTypes DEF StealEnough, Goto
  <2>2. seen'[t].ptr = available'[tail'[t]]
    BY <1>4, <2>1 DEF Untagged
  <2>3. \E k \in 1 .. Len(L) : k <= want'[t] /\ tail'[t] = L[k]
    BY <1>4, <1>5, <2>1
  <2> QED
    BY <1>4, <1>5, <2>1, <2>2, <2>3 DEF CallOk, Gathered, AtRest, AtSteal,
       AtCut, AtGather, AtPush, AtRelease
<1> QED
  BY <1>1, <1>2, <1>4, <1>7, <1>8, QuietOwners

(* A list is cut in two, behind its k-th record.                            *)
Splits(s, r, link, k, a, b) ==
  /\ Len(a) = k /\ NoRepeats(a) /\ Run(a, link)
  /\ a[1] = r /\ a[k] = s[k]
  /\ ListFrom(b, link[s[k]], link)
  /\ \A i \in 1 .. Len(a) : \E j \in 1 .. k : a[i] = s[j]
  /\ \A i \in 1 .. Len(b) : \E j \in k + 1 .. Len(s) : b[i] = s[j]

(* Every list can be cut behind any of its records.                         *)
LEMMA SplitList ==
  ASSUME NEW s, NEW r, NEW link, ListFrom(s, r, link), NEW k \in 1 .. Len(s)
  PROVE  \E a, b \in Seq(Recs) : Splits(s, r, link, k, a, b)
<1> DEFINE a == [i \in 1 .. k |-> s[i]]
           b == [i \in 1 .. Len(s) - k |-> s[i + k]]
<1>1. /\ s \in Seq(Recs) /\ Len(s) \in Nat /\ k \in Nat /\ k >= 1 /\ k <= Len(s)
      /\ Len(s) - k \in Nat
      /\ \A i \in 1 .. Len(s) : s[i] \in Recs
  BY DEF ListFrom
<1>2. \A i, j \in 1 .. Len(s) : s[i] = s[j] => i = j
  BY DEF ListFrom, NoRepeats
<1>3. /\ r = s[1]
      /\ link[s[Len(s)]] = Null
      /\ \A i \in 1 .. Len(s) - 1 : link[s[i]] = s[i + 1]
  BY <1>1 DEF ListFrom, Run
<1>4. a \in Seq(Recs) /\ Len(a) = k /\ \A i \in 1 .. k : a[i] = s[i]
  BY <1>1
<1>5. /\ b \in Seq(Recs) /\ Len(b) = Len(s) - k
      /\ \A i \in 1 .. Len(s) - k : b[i] = s[i + k]
  <2>1. \A i \in 1 .. Len(s) - k : i + k \in 1 .. Len(s) /\ s[i + k] \in Recs
    BY <1>1
  <2> QED
    BY <1>1, <2>1
<1> HIDE DEF a, b
<1>6. NoRepeats(a) /\ Run(a, link)
  BY <1>1, <1>2, <1>3, <1>4 DEF NoRepeats, Run
<1>7. NoRepeats(b)
  <2> SUFFICES ASSUME NEW i \in 1 .. Len(b), NEW j \in 1 .. Len(b), b[i] = b[j]
               PROVE  i = j
    BY DEF NoRepeats
  <2>1. i + k \in 1 .. Len(s) /\ j + k \in 1 .. Len(s) /\ s[i + k] = s[j + k]
    BY <1>1, <1>5
  <2>2. i + k = j + k
    BY <1>2, <2>1
  <2> QED
    BY <1>1, <1>5, <2>2
<1>8. ASSUME NEW i \in 1 .. Len(b) - 1 PROVE link[b[i]] = b[i + 1]
  <2>1. i + k \in 1 .. Len(s) - 1 /\ i \in 1 .. Len(s) - k
        /\ i + 1 \in 1 .. Len(s) - k /\ (i + k) + 1 = (i + 1) + k
    BY <1>1, <1>5
  <2>2. link[s[i + k]] = s[(i + k) + 1]
    BY <1>3, <2>1
  <2> QED
    BY <1>5, <2>1, <2>2
<1>9. Len(b) = 0 => link[s[k]] = Null
  BY <1>1, <1>3, <1>5
<1>10. Len(b) > 0 => link[s[k]] = b[1] /\ link[b[Len(b)]] = Null
  <2> SUFFICES ASSUME Len(b) > 0 PROVE link[s[k]] = b[1] /\ link[b[Len(b)]] = Null
    OBVIOUS
  <2>1. k \in 1 .. Len(s) - 1 /\ 1 \in 1 .. Len(s) - k
        /\ Len(b) \in 1 .. Len(s) - k /\ Len(b) + k = Len(s) /\ 1 + k = k + 1
    BY <1>1, <1>5
  <2> QED
    BY <1>3, <1>5, <2>1
<1>11. ListFrom(b, link[s[k]], link)
  BY <1>5, <1>7, <1>8, <1>9, <1>10 DEF ListFrom, Run
<1>12. \A i \in 1 .. Len(b) : \E j \in k + 1 .. Len(s) : b[i] = s[j]
  <2> SUFFICES ASSUME NEW i \in 1 .. Len(b)
               PROVE  \E j \in k + 1 .. Len(s) : b[i] = s[j]
    OBVIOUS
  <2>1. i + k \in k + 1 .. Len(s) /\ b[i] = s[i + k]
    BY <1>1, <1>5
  <2> QED
    BY <2>1
<1>13. /\ a[1] = r /\ a[k] = s[k]
       /\ \A i \in 1 .. Len(a) : \E j \in 1 .. k : a[i] = s[j]
  BY <1>1, <1>3, <1>4
<1> QED
  BY <1>4, <1>5, <1>6, <1>11, <1>12, <1>13 DEF Splits

(* The store that unlocks the list gives the run to the thread: the list is *)
(* cut in two, and nobody else walks on it.                                 *)
LEMMA UnlockOwners ==
  ASSUME TypeInv, LockInv, NEW t \in Threads, Unlock(t),
         NEW L, NEW chain, NEW own, Owners(L, chain, own)
  PROVE  \E L2, chain2, own2 : Owners(L2, chain2, own2)'
<1>1. OthersKept(t)
  BY StepOthers DEF AcquireStep
<1>2. CallOk(t, chain[t], L) /\ ListFrom(L, avail_head.ptr, available)
  BY DEF Owners
<1>3. /\ pc[t] = "unlock" /\ pc'[t] = "cut" /\ avail_head' = seen[t]
      /\ UNCHANGED <<available, made, handles, got, want, first, tail>>
  BY LocalTypes DEF Unlock, Goto, recs
<1>4. /\ Len(got[t]) = 0 /\ first[t] = avail_head.ptr
      /\ seen[t].ptr = available[tail[t]]
  BY <1>2, <1>3, CallCases, LocalTypes DEF AtRest, Gathered, AtSteal
<1>5. PICK k \in 1 .. Len(L) : k <= want[t] /\ tail[t] = L[k]
  BY <1>2, <1>3, CallCases DEF AtSteal
<1>6. PICK a \in Seq(Recs), b \in Seq(Recs) :
        Splits(L, avail_head.ptr, available, k, a, b)
  BY <1>2, SplitList
<1>7. L \in Seq(Recs) /\ Len(L) \in Nat /\ NoRepeats(L)
  BY <1>2 DEF ListFrom
<1>8. \A i \in 1 .. Len(L) : L[i] \in Recs /\ own[L[i]] = Avail
  BY <1>7 DEF Owners, OwnersOk, OwnsAll
<1> DEFINE InRun(r) == \E j \in 1 .. k : r = L[j]
           own2 == [r \in Recs |-> IF InRun(r) THEN Call(t) ELSE own[r]]
<1>9. \A r \in Recs : /\ InRun(r) => own2[r] = Call(t) /\ own[r] = Avail
                      /\ ~InRun(r) => own2[r] = own[r]
  BY <1>7, <1>8
<1>10. \A j \in k + 1 .. Len(L) : ~InRun(L[j]) /\ L[j] \in Recs /\ own[L[j]] = Avail
  BY <1>7, <1>8 DEF NoRepeats
<1>11. \A j \in 1 .. k : InRun(L[j]) /\ L[j] \in Recs
  BY <1>7, <1>8
<1> HIDE DEF InRun, own2
<1>12. OwnsAll(Call(t), a, own2)
  BY <1>6, <1>9, <1>11 DEF OwnsAll, Splits
<1>13. OwnsAll(Avail, b, own2)
  <2> SUFFICES ASSUME NEW i \in 1 .. Len(b) PROVE own2[b[i]] = Avail
    BY DEF OwnsAll
  <2>1. PICK j \in k + 1 .. Len(L) : b[i] = L[j]
    BY <1>6 DEF Splits
  <2>2. ~InRun(L[j]) /\ L[j] \in Recs /\ own[L[j]] = Avail
    BY <1>10
  <2>3. own2[L[j]] = own[L[j]]
    BY <1>9, <2>2
  <2> QED
    BY <2>1, <2>2, <2>3
<1>14. ListFrom(b, avail_head'.ptr, available')
  BY <1>3, <1>4, <1>5, <1>6 DEF Splits
<1>15. CallOk(t, a, b)'
  <2>1. AtCut(t, a)'
    BY <1>3, <1>4, <1>5, <1>6, LocalTypes DEF AtCut, Splits
  <2> QED
    BY <1>3, <1>4, <1>6, <2>1 DEF CallOk, Gathered, AtRest, AtSteal,
       AtGather, AtPush, AtRelease, Splits
<1>16. \A u \in Threads : u # t => Keeps(Call(u), own, own2)
  BY <1>3, <1>9, OwnerFacts DEF Keeps
<1>17. \A u \in Threads : u # t => pc[u] \notin {"steal", "unlock"}
  BY <1>3 DEF LockInv, Holds
<1>18. \A h \in handles' : h \in handles /\ Keeps(Handle(h), own, own2)
  BY <1>3, <1>9, OwnerFacts DEF Keeps
<1>19. \A r \in Recs : r > made' => own2[r] = New /\ available'[r] = Null
  BY <1>3, <1>9, OwnerFacts DEF Owners, OwnersOk
<1>20. \E chain2 : Owners(b, chain2, own2)'
  BY <1>1, <1>12, <1>13, <1>14, <1>15, <1>16, <1>17, <1>18, <1>19, StepOwners
<1> QED
  BY <1>20

(* The empty sequence is one of records.                                    *)
LEMMA EmptyFacts == \E d \in Seq(Recs) : d = <<>> /\ Len(d) = 0
<1>1. <<>> \in Seq(Recs) /\ Len(<<>>) = 0
  OBVIOUS
<1> QED
  BY <1>1

(* The facts on a call's chain that the steps below use.                    *)
LEMMA ChainFacts ==
  ASSUME NEW L, NEW chain, NEW own, Owners(L, chain, own), NEW t \in Threads
  PROVE  /\ CallOk(t, chain[t], L) /\ chain[t] \in Seq(Recs)
         /\ Len(chain[t]) \in Nat /\ NoRepeats(chain[t])
         /\ \A i \in 1 .. Len(chain[t]) :
              chain[t][i] \in Recs /\ own[chain[t][i]] = Call(t)
<1>1. chain[t] \in Seq(Recs) /\ CallOk(t, chain[t], L) /\ OwnsAll(Call(t), chain[t], own)
  BY DEF Owners, OwnersOk
<1> QED
  BY <1>1 DEF OwnsAll, CallOk

(* The run is cut off: the link of its last record, which nobody else has.  *)
LEMMA CutOwners ==
  ASSUME TypeInv, NEW t \in Threads, CutTail(t),
         NEW L, NEW chain, NEW own, Owners(L, chain, own)
  PROVE  \E L2, chain2, own2 : Owners(L2, chain2, own2)'
<1>1. OthersKept(t)
  BY StepOthers DEF AcquireStep
<1>2. PICK c : c = chain[t]
  OBVIOUS
<1>3. /\ CallOk(t, c, L) /\ c \in Seq(Recs) /\ Len(c) \in Nat /\ NoRepeats(c)
      /\ \A i \in 1 .. Len(c) : c[i] \in Recs /\ own[c[i]] = Call(t)
  BY <1>2, ChainFacts
<1>4. /\ pc[t] = "cut" /\ pc'[t] = "gather" /\ tail'[t] = Null
      /\ available' = [available EXCEPT ![tail[t]] = Null]
      /\ UNCHANGED <<avail_head, made, handles, got, want, first>>
  BY LocalTypes DEF CutTail, Goto, recs
<1>5. /\ Len(got[t]) = 0 /\ Len(c) \in 1 .. want[t]
      /\ first[t] = c[1] /\ tail[t] = c[Len(c)] /\ Run(c, available)
  BY <1>3, <1>4, CallCases DEF AtCut
<1>6. /\ available'[c[Len(c)]] = Null
      /\ \A r \in Recs : r # c[Len(c)] => available'[r] = available[r]
  BY <1>3, <1>4, <1>5, LocalTypes
<1>7. \A r \in Recs : own[r] # Call(t) => available'[r] = available[r]
  BY <1>3, <1>5, <1>6
<1>8. Run(c, available')
  <2>1. \A i \in 1 .. Len(c) - 1 : c[i] \in Recs /\ c[i] # c[Len(c)]
    BY <1>3, <1>5 DEF NoRepeats
  <2> QED
    BY <1>5, <1>6, <2>1 DEF Run
<1>9. CallOk(t, c, L)'
  <2>1. AtGather(t, c)'
    BY <1>3, <1>4, <1>5, <1>6, <1>8, LocalTypes DEF AtGather
  <2> QED
    BY <1>3, <1>4, <1>5, <2>1 DEF CallOk, Gathered, AtRest, AtSteal, AtCut,
       AtPush, AtRelease
<1> QED
  BY <1>1, <1>2, <1>4, <1>7, <1>9, QuietOwners

(* The next stolen record is gathered.                                      *)
LEMMA TakeOwners ==
  ASSUME TypeInv, NEW t \in Threads, TakeStolen(t),
         NEW L, NEW chain, NEW own, Owners(L, chain, own)
  PROVE  \E L2, chain2, own2 : Owners(L2, chain2, own2)'
<1>1. OthersKept(t)
  BY StepOthers DEF AcquireStep
<1>2. PICK c : c = chain[t]
  OBVIOUS
<1>3. /\ CallOk(t, c, L) /\ c \in Seq(Recs) /\ Len(c) \in Nat /\ NoRepeats(c)
      /\ \A i \in 1 .. Len(c) : c[i] \in Recs /\ own[c[i]] = Call(t)
  BY <1>2, ChainFacts
<1>4. /\ pc[t] = "gather" /\ pc' = pc /\ first[t] # Null
      /\ got'[t] = Append(got[t], first[t]) /\ tail'[t] = first[t]
      /\ first'[t] = available[first[t]]
      /\ UNCHANGED <<avail_head, available, made, handles, want>>
  BY LocalTypes DEF TakeStolen, recs, avail
<1>5. PICK m \in Nat : m = Len(got[t])
  BY LocalTypes
<1>6. /\ m <= Len(c) /\ m # Len(c)
      /\ first[t] = c[m + 1] /\ first[t] \in Recs
      /\ Len(c) <= want[t] /\ Run(c, available)
      /\ available[c[Len(c)]] = Null
  <2>1. /\ m <= Len(c) /\ m # Len(c)
        /\ first[t] = c[m + 1]
        /\ Len(c) <= want[t] /\ Run(c, available)
        /\ available[c[Len(c)]] = Null
    BY <1>3, <1>4, <1>5, CallCases DEF AtGather, Gathered
  <2> QED
    BY <1>3, <2>1
<1>7. /\ Len(got'[t]) = m + 1
      /\ \A i \in 1 .. m + 1 : got'[t][i] = c[i]
  <2>1. /\ Len(got'[t]) = m + 1 /\ got'[t][m + 1] = c[m + 1]
        /\ \A i \in 1 .. m : got'[t][i] = got[t][i]
    BY <1>4, <1>5, <1>6, AppendFacts, LocalTypes
  <2>2. \A i \in 1 .. m : got[t][i] = c[i]
    BY <1>3, <1>5, CallCases DEF Gathered
  <2> QED
    BY <2>1, <2>2
<1>8. /\ m + 1 < Len(c) => first'[t] = c[m + 2]
      /\ m + 1 = Len(c) => first'[t] = Null
  <2>1. m + 1 < Len(c) => m + 1 \in 1 .. Len(c) - 1 /\ (m + 1) + 1 = m + 2
    BY <1>3, <1>6
  <2> QED
    BY <1>4, <1>6, <2>1 DEF Run
<1>9. CallOk(t, c, L)'
  <2>1. AtGather(t, c)'
    BY <1>3, <1>4, <1>6, <1>7, <1>8 DEF AtGather
  <2>2. Gathered(t, c)'
    BY <1>3, <1>6, <1>7 DEF Gathered
  <2> QED
    BY <1>3, <1>4, <2>1, <2>2 DEF CallOk, AtRest, AtSteal, AtCut,
       AtPush, AtRelease
<1> QED
  BY <1>1, <1>2, <1>4, <1>9, QuietOwners

(* The pushes on the list of all records, and the failing ones, leave the   *)
(* owners alone.                                                            *)
LEMMA PushRecOwners ==
  ASSUME TypeInv, NEW t \in Threads, PushRec(t) \/ PushRecFails(t) \/ PushFails(t),
         NEW L, NEW chain, NEW own, Owners(L, chain, own)
  PROVE  \E L2, chain2, own2 : Owners(L2, chain2, own2)'
<1>1. OthersKept(t)
  BY StepOthers DEF AcquireStep, ReleaseStep
<1>2. PICK c : c = chain[t]
  OBVIOUS
<1>3. CallOk(t, c, L)
  BY <1>2, ChainFacts
<1>4. /\ UNCHANGED <<avail_head, available, made, handles, got, want, first, tail>>
      /\ \/ pc[t] = "push_rec" /\ pc'[t] \in {"push_rec", "count"}
         \/ pc[t] = "push" /\ pc'[t] = "release"
  BY LocalTypes DEF PushRec, PushRecFails, PushFails, Goto, recs, avail
<1>5. CallOk(t, c, L)'
  BY <1>3, <1>4 DEF CallOk, Gathered, AtRest, AtSteal, AtCut, AtGather, AtPush,
     AtRelease
<1> QED
  BY <1>1, <1>2, <1>4, <1>5, QuietOwners

(* The new record is linked behind the one gathered before it.              *)
LEMMA CountOwners ==
  ASSUME TypeInv, NEW t \in Threads, CountRec(t),
         NEW L, NEW chain, NEW own, Owners(L, chain, own)
  PROVE  \E L2, chain2, own2 : Owners(L2, chain2, own2)'
<1>1. OthersKept(t)
  BY StepOthers DEF AcquireStep
<1>2. PICK c : c = chain[t]
  OBVIOUS
<1>3. /\ CallOk(t, c, L) /\ c \in Seq(Recs) /\ Len(c) \in Nat /\ NoRepeats(c)
      /\ \A i \in 1 .. Len(c) : c[i] \in Recs /\ own[c[i]] = Call(t)
  BY <1>2, ChainFacts
<1>4. /\ pc[t] = "count" /\ pc'[t] = "gather" /\ tail'[t] = Last(got[t])
      /\ available' = IF tail[t] = Null THEN available
                      ELSE [available EXCEPT ![tail[t]] = Last(got[t])]
      /\ UNCHANGED <<avail_head, made, handles, got, want, first>>
  BY LocalTypes DEF CountRec, Goto
<1>5. /\ Len(got[t]) = Len(c) /\ Len(c) \in 1 .. want[t]
      /\ first[t] = Null /\ available[c[Len(c)]] = Null
      /\ \A i \in 1 .. Len(c) - 2 : available[c[i]] = c[i + 1]
      /\ Len(c) = 1 => tail[t] = Null
      /\ Len(c) > 1 => tail[t] = c[Len(c) - 1]
  BY <1>3, <1>4, CallCases DEF AtPush
<1>6. Last(got[t]) = c[Len(c)]
  <2>1. got[t][Len(got[t])] = c[Len(c)]
    BY <1>3, <1>5, CallCases DEF Gathered
  <2> QED
    BY <2>1 DEF Last
<1>7. CASE Len(c) = 1
  <2>1. available' = available
    BY <1>4, <1>5, <1>7
  <2>2. AtGather(t, c)'
    BY <1>4, <1>5, <1>6, <1>7, <2>1 DEF AtGather, Run
  <2>3. CallOk(t, c, L)'
    BY <1>3, <1>4, <1>5, <2>2 DEF CallOk, Gathered, AtRest, AtSteal, AtCut,
       AtPush, AtRelease
  <2> QED
    BY <1>1, <1>2, <1>4, <2>1, <2>3, QuietOwners
<1>8. CASE Len(c) > 1
  <2>1. Len(c) - 1 \in 1 .. Len(c) /\ tail[t] = c[Len(c) - 1] /\ tail[t] \in Recs
        /\ own[tail[t]] = Call(t) /\ tail[t] # Null
    BY <1>3, <1>5, <1>8, PointerFacts
  <2>2. /\ available'[tail[t]] = c[Len(c)]
        /\ \A r \in Recs : r # tail[t] => available'[r] = available[r]
    BY <1>4, <1>6, <2>1, LocalTypes
  <2>3. \A r \in Recs : own[r] # Call(t) => available'[r] = available[r]
    BY <2>1, <2>2
  <2>4. available'[c[Len(c)]] = Null
    <3>1. Len(c) \in 1 .. Len(c) /\ Len(c) # Len(c) - 1
      BY <1>3, <1>8
    <3>2. c[Len(c)] # c[Len(c) - 1] /\ c[Len(c)] \in Recs
      BY <1>3, <2>1, <3>1 DEF NoRepeats
    <3> QED
      BY <1>5, <2>1, <2>2, <3>2
  <2>5. ASSUME NEW i \in 1 .. Len(c) - 1 PROVE available'[c[i]] = c[i + 1]
    <3>1. CASE i = Len(c) - 1
      BY <1>3, <2>1, <2>2, <3>1
    <3>2. CASE i # Len(c) - 1
      <4>1. i \in 1 .. Len(c) - 2 /\ i \in 1 .. Len(c)
        BY <1>3, <3>2
      <4>2. c[i] # c[Len(c) - 1] /\ c[i] \in Recs
        BY <1>3, <2>1, <3>2, <4>1 DEF NoRepeats
      <4> QED
        BY <1>5, <2>1, <2>2, <4>1, <4>2
    <3> QED
      BY <3>1, <3>2
  <2>6. AtGather(t, c)'
    BY <1>3, <1>4, <1>5, <1>6, <1>8, <2>4, <2>5 DEF AtGather, Run
  <2>7. CallOk(t, c, L)'
    BY <1>3, <1>4, <1>5, <2>6 DEF CallOk, Gathered, AtRest, AtSteal, AtCut,
       AtPush, AtRelease
  <2> QED
    BY <1>1, <1>2, <1>4, <2>3, <2>7, QuietOwners
<1>9. Len(c) = 1 \/ Len(c) > 1
  BY <1>3, <1>5, LocalTypes
<1> QED
  BY <1>7, <1>8, <1>9

(* The last record given back is linked to the head of the list.            *)
LEMMA LoadForReleaseOwners ==
  ASSUME TypeInv, NEW t \in Threads, LoadForRelease(t),
         NEW L, NEW chain, NEW own, Owners(L, chain, own)
  PROVE  \E L2, chain2, own2 : Owners(L2, chain2, own2)'
<1>1. OthersKept(t)
  BY StepOthers DEF ReleaseStep
<1>2. PICK c : c = chain[t]
  OBVIOUS
<1>3. /\ CallOk(t, c, L) /\ c \in Seq(Recs) /\ Len(c) \in Nat /\ NoRepeats(c)
      /\ \A i \in 1 .. Len(c) : c[i] \in Recs /\ own[c[i]] = Call(t)
  BY <1>2, ChainFacts
<1>4. /\ pc[t] = "release" /\ pc'[t] = "push" /\ seen'[t] = avail_head
      /\ available' = [available EXCEPT ![Last(got[t])] = avail_head.ptr]
      /\ UNCHANGED <<avail_head, made, handles, got, want, first, tail>>
  BY LocalTypes DEF LoadForRelease, Goto, recs
<1>5. /\ Len(got[t]) = Len(c) /\ Len(c) > 0 /\ Run(c, available)
      /\ first[t] = Null /\ tail[t] = Null
  BY <1>3, <1>4, CallCases DEF AtRelease, AtRest
<1>6. Last(got[t]) = c[Len(c)]
  <2>1. got[t][Len(got[t])] = c[Len(c)]
    BY <1>3, <1>5, CallCases DEF Gathered
  <2> QED
    BY <2>1 DEF Last
<1>7. /\ c[Len(c)] \in Recs /\ own[c[Len(c)]] = Call(t)
      /\ available'[c[Len(c)]] = avail_head.ptr
      /\ \A r \in Recs : r # c[Len(c)] => available'[r] = available[r]
  BY <1>3, <1>4, <1>5, <1>6, LocalTypes
<1>8. \A r \in Recs : own[r] # Call(t) => available'[r] = available[r]
  BY <1>7
<1>9. Run(c, available')
  <2>1. \A i \in 1 .. Len(c) - 1 : c[i] \in Recs /\ c[i] # c[Len(c)]
    BY <1>3, <1>5 DEF NoRepeats
  <2> QED
    BY <1>5, <1>7, <2>1 DEF Run
<1>10. CallOk(t, c, L)'
  <2>1. AtRelease(t, c)'
    BY <1>4, <1>5, <1>7, <1>9 DEF AtRelease
  <2> QED
    BY <1>3, <1>4, <1>5, <2>1 DEF CallOk, Gathered, AtRest, AtSteal, AtCut,
       AtGather, AtPush
<1> QED
  BY <1>1, <1>2, <1>4, <1>8, <1>10, QuietOwners

(* A new record joins the chain of the call that made it.                   *)
LEMMA NewRecOwners ==
  ASSUME TypeInv, NEW t \in Threads, NewRec(t),
         NEW L, NEW chain, NEW own, Owners(L, chain, own)
  PROVE  \E L2, chain2, own2 : Owners(L2, chain2, own2)'
<1>1. OthersKept(t)
  BY StepOthers DEF AcquireStep
<1>2. PICK c : c = chain[t]
  OBVIOUS
<1>3. /\ CallOk(t, c, L) /\ c \in Seq(Recs) /\ Len(c) \in Nat /\ NoRepeats(c)
      /\ \A i \in 1 .. Len(c) : c[i] \in Recs /\ own[c[i]] = Call(t)
  BY <1>2, ChainFacts
<1>4. PICK x \in Recs : x = made + 1
  BY SizeAssumption DEF NewRec, Recs, TypeInv, TypeOK
<1>5. /\ pc[t] = "gather" /\ pc'[t] = "push_rec" /\ first[t] = Null
      /\ got'[t] = Append(got[t], x) /\ Len(got[t]) < want[t]
      /\ made \in Nat /\ made' = made + 1
      /\ UNCHANGED <<avail_head, available, handles, want, first, tail>>
  BY <1>4, LocalTypes DEF NewRec, Goto, avail, TypeInv, TypeOK
<1>6. own[x] = New /\ available[x] = Null
  BY <1>4, <1>5 DEF Owners, OwnersOk, Recs
<1>7. /\ Len(got[t]) = Len(c) /\ Run(c, available)
      /\ Len(got[t]) = 0 => tail[t] = Null
      /\ Len(got[t]) > 0 => tail[t] = c[Len(got[t])]
  <2>1. /\ Len(got[t]) \in Nat /\ Len(got[t]) <= Len(c) /\ Run(c, available)
        /\ Len(got[t]) < Len(c) => first[t] = c[Len(got[t]) + 1]
        /\ Len(got[t]) = 0 => tail[t] = Null
        /\ Len(got[t]) > 0 => tail[t] = c[Len(got[t])]
    BY <1>3, <1>5, CallCases, LocalTypes DEF AtGather, Gathered
  <2>2. ~(Len(got[t]) < Len(c))
    <3> SUFFICES ASSUME Len(got[t]) < Len(c) PROVE FALSE
      OBVIOUS
    <3>1. Len(got[t]) + 1 \in 1 .. Len(c)
      BY <1>3, <2>1
    <3> QED
      BY <1>3, <1>5, <2>1, <3>1, PointerFacts
  <2> QED
    BY <1>3, <2>1, <2>2
<1>8. PICK d \in Seq(Recs) : d = Append(c, x)
  BY <1>3, AppendFacts
<1>9. /\ Len(d) = Len(c) + 1 /\ d[Len(c) + 1] = x
      /\ \A i \in 1 .. Len(c) : d[i] = c[i] /\ c[i] # x
  BY <1>3, <1>6, <1>8, AppendFacts, OwnerFacts
<1>10. NoRepeats(d)
  BY <1>3, <1>9 DEF NoRepeats
<1>11. Gathered(t, d)'
  <2>1. /\ Len(got'[t]) = Len(c) + 1 /\ got'[t][Len(c) + 1] = x
        /\ \A i \in 1 .. Len(c) : got'[t][i] = got[t][i]
    BY <1>5, <1>7, AppendFacts, LocalTypes
  <2>2. \A i \in 1 .. Len(c) : got[t][i] = c[i]
    BY <1>3, <1>7, CallCases DEF Gathered
  <2> QED
    BY <1>3, <1>9, <2>1, <2>2 DEF Gathered
<1>12. AtPush(t, d)'
  <2>1. Len(got'[t]) = Len(d) /\ Len(d) \in 1 .. want'[t]
    BY <1>3, <1>5, <1>7, <1>9, AppendFacts, LocalTypes
  <2>2. \A i \in 1 .. Len(d) - 2 : available'[d[i]] = d[i + 1]
    <3> SUFFICES ASSUME NEW i \in 1 .. Len(d) - 2
                 PROVE  available'[d[i]] = d[i + 1]
      OBVIOUS
    <3>1. i \in 1 .. Len(c) - 1 /\ i \in 1 .. Len(c) /\ i + 1 \in 1 .. Len(c)
      BY <1>3, <1>9
    <3> QED
      BY <1>5, <1>7, <1>9, <3>1 DEF Run
  <2>3. /\ Len(d) = 1 => tail'[t] = Null
        /\ Len(d) > 1 => tail'[t] = d[Len(d) - 1]
    BY <1>3, <1>5, <1>7, <1>9
  <2> QED
    BY <1>3, <1>5, <1>6, <1>9, <2>1, <2>2, <2>3 DEF AtPush
<1>13. CallOk(t, d, L)'
  BY <1>5, <1>10, <1>11, <1>12 DEF CallOk, AtRest, AtSteal, AtCut, AtGather,
     AtRelease
<1> DEFINE own2 == [r \in Recs |-> IF r = x THEN Call(t) ELSE own[r]]
<1>14. own2[x] = Call(t) /\ \A r \in Recs : r # x => own2[r] = own[r]
  OBVIOUS
<1> HIDE DEF own2
<1>15. OwnsAll(Call(t), d, own2)
  <2> SUFFICES ASSUME NEW i \in 1 .. Len(d) PROVE own2[d[i]] = Call(t)
    BY DEF OwnsAll
  <2>1. CASE i = Len(c) + 1
    BY <1>9, <1>14, <2>1
  <2>2. CASE i # Len(c) + 1
    BY <1>3, <1>9, <1>14, <2>2
  <2> QED
    BY <2>1, <2>2
<1>16. \A r \in Recs : own[r] # New => own2[r] = own[r]
  BY <1>6, <1>14
<1>17. /\ ListFrom(L, avail_head'.ptr, available')
       /\ OwnsAll(Avail, L, own2)
  <2>1. ListFrom(L, avail_head.ptr, available) /\ OwnsAll(Avail, L, own)
    BY DEF Owners, OwnersOk
  <2>2. \A i \in 1 .. Len(L) : L[i] \in Recs
    BY <2>1, ListFacts
  <2> QED
    BY <1>5, <1>16, <2>1, <2>2, OwnerFacts DEF OwnsAll
<1>18. \A u \in Threads : u # t => Keeps(Call(u), own, own2)
  BY <1>5, <1>16, OwnerFacts DEF Keeps
<1>19. \A h \in handles' : h \in handles /\ Keeps(Handle(h), own, own2)
  BY <1>5, <1>16, OwnerFacts DEF Keeps
<1>20. \A r \in Recs : r > made' => own2[r] = New /\ available'[r] = Null
  <2>1. \A r \in Recs : r > made' => r > made /\ r # x
    BY <1>4, <1>5 DEF Recs
  <2> QED
    BY <1>5, <1>14, <2>1 DEF Owners, OwnersOk
<1>21. \E chain2 : Owners(L, chain2, own2)'
  BY <1>1, <1>5, <1>13, <1>15, <1>17, <1>18, <1>19, <1>20, StepOwners
<1> QED
  BY <1>21

(* The gathered chain becomes a handle.                                     *)
LEMMA ReturnOwners ==
  ASSUME TypeInv, NEW t \in Threads, ReturnHandle(t),
         NEW L, NEW chain, NEW own, Owners(L, chain, own)
  PROVE  \E L2, chain2, own2 : Owners(L2, chain2, own2)'
<1>1. OthersKept(t)
  BY StepOthers DEF AcquireStep
<1>2. PICK c : c = chain[t]
  OBVIOUS
<1>3. /\ CallOk(t, c, L) /\ c \in Seq(Recs) /\ Len(c) \in Nat /\ NoRepeats(c)
      /\ \A i \in 1 .. Len(c) : c[i] \in Recs /\ own[c[i]] = Call(t)
  BY <1>2, ChainFacts
<1>4. PICK h : h = [recs |-> got[t], maker |-> <<t, ops[t]>>]
  OBVIOUS
<1>5. PICK s \in Seq(Recs) : s = got[t]
  BY LocalTypes
<1>6. /\ pc[t] = "gather" /\ pc'[t] = "idle" /\ h.recs = s
      /\ handles' = handles \union {h} /\ got'[t] = <<>>
      /\ first'[t] = Null /\ tail'[t] = Null /\ Len(got[t]) = want[t]
      /\ UNCHANGED <<avail_head, available, made>>
  BY <1>4, <1>5, LocalTypes DEF ReturnHandle, Goto, recs, avail
<1>7. /\ Len(s) = Len(c) /\ Len(s) > 0 /\ Run(c, available)
      /\ available[c[Len(c)]] = Null
      /\ \A i \in 1 .. Len(s) : s[i] = c[i]
  <2>1. /\ Len(s) \in Nat /\ Len(s) <= Len(c) /\ Len(c) <= want[t]
        /\ \A i \in 1 .. Len(s) : s[i] = c[i]
        /\ Run(c, available)
        /\ Len(c) > 0 => available[c[Len(c)]] = Null
    BY <1>3, <1>5, <1>6, CallCases DEF AtGather, Gathered
  <2>2. want[t] \in Nat /\ want[t] >= 1
    BY <1>6, LocalTypes DEF TypeInv, AcquirerWants, AcquirePcs
  <2> QED
    BY <1>3, <1>5, <1>6, <2>1, <2>2
<1>8. HandleOk(h)'
  <2>1. NoRepeats(s)
    BY <1>3, <1>7 DEF NoRepeats
  <2>2. Run(s, available)
    BY <1>3, <1>7 DEF Run
  <2>3. available[s[Len(s)]] = Null
    BY <1>3, <1>7
  <2> QED
    BY <1>6, <2>1, <2>2, <2>3 DEF HandleOk
<1> DEFINE own2 == [r \in Recs |-> IF own[r] = Call(t) THEN Handle(h) ELSE own[r]]
<1>9. \A r \in Recs : /\ own[r] = Call(t) => own2[r] = Handle(h)
                      /\ own[r] # Call(t) => own2[r] = own[r]
  OBVIOUS
<1> HIDE DEF own2
<1>10. OwnsAll(Handle(h), h.recs, own2)
  BY <1>3, <1>6, <1>7, <1>9 DEF OwnsAll
<1>11. PICK d \in Seq(Recs) : d = <<>> /\ Len(d) = 0
  BY EmptyFacts
<1>12. CallOk(t, d, L)'
  BY <1>6, <1>11 DEF CallOk, Gathered, AtRest, AtSteal, AtCut, AtGather, AtPush,
     AtRelease, NoRepeats
<1>13. OwnsAll(Call(t), d, own2)
  BY <1>11 DEF OwnsAll
<1>14. /\ ListFrom(L, avail_head'.ptr, available')
       /\ OwnsAll(Avail, L, own2)
  <2>1. ListFrom(L, avail_head.ptr, available) /\ OwnsAll(Avail, L, own)
    BY DEF Owners, OwnersOk
  <2>2. \A i \in 1 .. Len(L) : L[i] \in Recs
    BY <2>1, ListFacts
  <2> QED
    BY <1>6, <1>9, <2>1, <2>2, OwnerFacts DEF OwnsAll
<1>15. \A u \in Threads : u # t => Keeps(Call(u), own, own2)
  BY <1>6, <1>9, OwnerFacts DEF Keeps
<1>16. \A g \in handles' : \/ g \in handles /\ Keeps(Handle(g), own, own2)
                           \/ HandleOk(g)' /\ OwnsAll(Handle(g), g.recs, own2)
  <2> SUFFICES ASSUME NEW g \in handles'
               PROVE  \/ g \in handles /\ Keeps(Handle(g), own, own2)
                      \/ HandleOk(g)' /\ OwnsAll(Handle(g), g.recs, own2)
    OBVIOUS
  <2>1. CASE g = h
    BY <1>8, <1>10, <2>1
  <2>2. CASE g # h
    BY <1>6, <1>9, <2>2, OwnerFacts DEF Keeps
  <2> QED
    BY <2>1, <2>2
<1>17. \A r \in Recs : r > made' => own2[r] = New /\ available'[r] = Null
  BY <1>6, <1>9, OwnerFacts DEF Owners, OwnersOk
<1>18. \E chain2 : Owners(L, chain2, own2)'
  BY <1>1, <1>6, <1>12, <1>13, <1>14, <1>15, <1>16, <1>17, StepOwners
<1> QED
  BY <1>18

(* A handle's records go to the call that drops it; their last link is null,*)
(* so that release_many does not panic.                                     *)
LEMMA DropOwners ==
  ASSUME TypeInv, NEW t \in Threads, DropArray(t),
         NEW L, NEW chain, NEW own, Owners(L, chain, own)
  PROVE  \E L2, chain2, own2 : Owners(L2, chain2, own2)'
<1>1. OthersKept(t)
  BY StepOthers DEF Begin
<1>2. PICK h \in handles :
        /\ got' = [got EXCEPT ![t] = h.recs]
        /\ handles' = handles \ {h}
        /\ Goto(t, IF available[Last(h.recs)] = Null
                   THEN "release" ELSE "panicked")
  BY DEF DropArray
<1>3. PICK s \in Seq(Recs) : s = h.recs
  BY DEF TypeInv, TypeOK
<1>4. Len(s) \in Nat /\ Len(s) > 0
  BY <1>3 DEF TypeInv, GotIsNotEmpty
<1>5. /\ NoRepeats(s) /\ Run(s, available) /\ available[s[Len(s)]] = Null
      /\ \A i \in 1 .. Len(s) : s[i] \in Recs /\ own[s[i]] = Handle(h)
  BY <1>3 DEF Owners, OwnersOk, HandleOk, OwnsAll
<1>6. /\ pc[t] = "idle" /\ pc'[t] = "release" /\ got'[t] = s
      /\ UNCHANGED <<avail_head, available, made, first, tail>>
  BY <1>2, <1>3, <1>5, LocalTypes DEF DropArray, Goto, recs, avail, Last
<1>7. first[t] = Null /\ tail[t] = Null
  BY <1>6, ChainFacts, CallCases DEF AtRest
<1>8. CallOk(t, s, L)'
  BY <1>4, <1>5, <1>6, <1>7 DEF CallOk, Gathered, AtRest, AtSteal, AtCut,
     AtGather, AtPush, AtRelease
<1> DEFINE own2 == [r \in Recs |-> IF own[r] = Handle(h) THEN Call(t) ELSE own[r]]
<1>9. \A r \in Recs : /\ own[r] = Handle(h) => own2[r] = Call(t)
                      /\ own[r] # Handle(h) => own2[r] = own[r]
  OBVIOUS
<1> HIDE DEF own2
<1>10. OwnsAll(Call(t), s, own2)
  BY <1>5, <1>9 DEF OwnsAll
<1>14. /\ ListFrom(L, avail_head'.ptr, available')
       /\ OwnsAll(Avail, L, own2)
  <2>1. ListFrom(L, avail_head.ptr, available) /\ OwnsAll(Avail, L, own)
    BY DEF Owners, OwnersOk
  <2>2. \A i \in 1 .. Len(L) : L[i] \in Recs
    BY <2>1, ListFacts
  <2> QED
    BY <1>6, <1>9, <2>1, <2>2, OwnerFacts DEF OwnsAll
<1>15. \A u \in Threads : u # t => Keeps(Call(u), own, own2)
  BY <1>6, <1>9, OwnerFacts DEF Keeps
<1>16. \A g \in handles' : g \in handles /\ Keeps(Handle(g), own, own2)
  <2> SUFFICES ASSUME NEW g \in handles'
               PROVE  g \in handles /\ Keeps(Handle(g), own, own2)
    OBVIOUS
  <2>1. g \in handles /\ Handle(g) # Handle(h)
    BY <1>2, OwnerFacts
  <2> QED
    BY <1>6, <1>9, <2>1 DEF Keeps
<1>17. \A r \in Recs : r > made' => own2[r] = New /\ available'[r] = Null
  BY <1>6, <1>9, OwnerFacts DEF Owners, OwnersOk
<1>18. \E chain2 : Owners(L, chain2, own2)'
  BY <1>1, <1>6, <1>8, <1>10, <1>14, <1>15, <1>16, <1>17, StepOwners
<1> QED
  BY <1>18

(* Two lists, the first of which leads to the second, are one.              *)
Joins(c, s, link, d) ==
  /\ ListFrom(d, c[1], link)
  /\ \A i \in 1 .. Len(d) : \/ \E j \in 1 .. Len(c) : d[i] = c[j]
                            \/ \E j \in 1 .. Len(s) : d[i] = s[j]

(* A run whose last link is the head of a list goes in front of it.         *)
LEMMA JoinLists ==
  ASSUME NEW s, NEW r, NEW link, ListFrom(s, r, link),
         NEW c \in Seq(Recs), Len(c) > 0, NoRepeats(c), Run(c, link),
         link[c[Len(c)]] = r,
         \A i \in 1 .. Len(c), j \in 1 .. Len(s) : c[i] # s[j]
  PROVE  \E d : Joins(c, s, link, d)
<1> DEFINE k == Len(c)
           d == [i \in 1 .. k + Len(s) |-> IF i <= k THEN c[i] ELSE s[i - k]]
<1>1. /\ s \in Seq(Recs) /\ Len(s) \in Nat /\ k \in Nat /\ k >= 1
      /\ \A i \in 1 .. k : c[i] \in Recs
      /\ \A i \in 1 .. Len(s) : s[i] \in Recs
      /\ \A i, j \in 1 .. Len(s) : s[i] = s[j] => i = j
      /\ \A i, j \in 1 .. k : c[i] = c[j] => i = j
      /\ Len(s) = 0 => r = Null
      /\ Len(s) > 0 => r = s[1] /\ link[s[Len(s)]] = Null
      /\ \A i \in 1 .. Len(s) - 1 : link[s[i]] = s[i + 1]
      /\ \A i \in 1 .. k - 1 : link[c[i]] = c[i + 1]
  BY DEF ListFrom, NoRepeats, Run
<1>2. ASSUME NEW i \in 1 .. k + Len(s)
      PROVE  /\ d[i] = IF i <= k THEN c[i] ELSE s[i - k]
             /\ i <= k => i \in 1 .. k
             /\ ~(i <= k) => i - k \in 1 .. Len(s)
             /\ d[i] \in Recs
  BY <1>1
<1>3. d \in Seq(Recs) /\ Len(d) = k + Len(s)
  BY <1>1, <1>2
<1>4. link[c[k]] = r
  OBVIOUS
<1> HIDE DEF d, k
<1>5. NoRepeats(d)
  <2> SUFFICES ASSUME NEW i \in 1 .. k + Len(s), NEW j \in 1 .. k + Len(s),
                      d[i] = d[j]
               PROVE  i = j
    BY <1>3 DEF NoRepeats
  <2>1. CASE i <= k /\ j <= k
    BY <1>1, <1>2, <2>1
  <2>2. CASE ~(i <= k) /\ ~(j <= k)
    <3>1. i - k \in 1 .. Len(s) /\ j - k \in 1 .. Len(s) /\ s[i - k] = s[j - k]
      BY <1>2, <2>2
    <3>2. i - k = j - k
      BY <1>1, <3>1
    <3> QED
      BY <1>1, <3>2
  <2>3. CASE i <= k /\ ~(j <= k)
    BY <1>2, <2>3 DEF k
  <2>4. CASE ~(i <= k) /\ j <= k
    BY <1>2, <2>4 DEF k
  <2> QED
    BY <2>1, <2>2, <2>3, <2>4
<1>6. ASSUME NEW i \in 1 .. Len(d) - 1 PROVE link[d[i]] = d[i + 1]
  <2>0. i \in 1 .. k + Len(s) /\ i + 1 \in 1 .. k + Len(s)
    BY <1>1, <1>3
  <2>1. CASE i < k
    <3>1. i \in 1 .. k - 1 /\ i <= k /\ i + 1 <= k
      BY <1>1, <2>1
    <3> QED
      BY <1>1, <1>2, <2>0, <3>1
  <2>2. CASE i = k
    <3>1. i <= k /\ ~(i + 1 <= k) /\ (i + 1) - k = 1 /\ Len(s) > 0
      BY <1>1, <2>0, <2>2
    <3> QED
      BY <1>1, <1>2, <1>4, <2>0, <2>2, <3>1
  <2>3. CASE i > k
    <3>1. /\ ~(i <= k) /\ ~(i + 1 <= k) /\ i - k \in 1 .. Len(s) - 1
          /\ (i + 1) - k = (i - k) + 1
      BY <1>1, <2>0, <2>3
    <3>2. d[i] = s[i - k] /\ d[i + 1] = s[(i - k) + 1]
      BY <1>2, <2>0, <3>1
    <3>3. link[s[i - k]] = s[(i - k) + 1]
      BY <1>1, <3>1
    <3> QED
      BY <3>2, <3>3
  <2> QED
    BY <1>1, <2>1, <2>2, <2>3
<1>7. d[1] = c[1] /\ Len(d) > 0
  BY <1>1, <1>2, <1>3
<1>8. link[d[Len(d)]] = Null
  <2>1. CASE Len(s) = 0
    BY <1>1, <1>2, <1>3, <1>4, <2>1
  <2>2. CASE Len(s) > 0
    <3>1. Len(d) \in 1 .. k + Len(s) /\ ~(Len(d) <= k) /\ Len(d) - k = Len(s)
      BY <1>1, <1>3, <2>2
    <3> QED
      BY <1>1, <1>2, <2>2, <3>1
  <2> QED
    BY <1>1, <2>1, <2>2
<1>9. ListFrom(d, c[1], link)
  BY <1>1, <1>3, <1>5, <1>6, <1>7, <1>8 DEF ListFrom, Run
<1>10. \A i \in 1 .. Len(d) : \/ \E j \in 1 .. Len(c) : d[i] = c[j]
                              \/ \E j \in 1 .. Len(s) : d[i] = s[j]
  BY <1>2, <1>3 DEF k
<1>11. Joins(c, s, link, d)
  BY <1>9, <1>10 DEF Joins
<1> QED
  BY <1>11

(* A push gives the records back to the list: its compare-and-swap compares *)
(* the head to the one that the last record is linked to, untagged.         *)
LEMMA PushOwners ==
  ASSUME TypeInv, LockInv, NEW t \in Threads, PushAvailable(t),
         NEW L, NEW chain, NEW own, Owners(L, chain, own)
  PROVE  \E L2, chain2, own2 : Owners(L2, chain2, own2)'
<1>1. OthersKept(t)
  BY StepOthers DEF ReleaseStep
<1>2. PICK c : c = chain[t]
  OBVIOUS
<1>3. /\ CallOk(t, c, L) /\ c \in Seq(Recs) /\ Len(c) \in Nat /\ NoRepeats(c)
      /\ \A i \in 1 .. Len(c) : c[i] \in Recs /\ own[c[i]] = Call(t)
  BY <1>2, ChainFacts
<1>4. /\ pc[t] = "push" /\ pc'[t] = "idle" /\ avail_head = seen[t]
      /\ avail_head' = Untagged(got[t][1]) /\ got'[t] = <<>>
      /\ UNCHANGED <<available, made, handles, first, tail>>
  BY LocalTypes DEF PushAvailable, Goto, recs
<1>5. /\ Len(got[t]) = Len(c) /\ Len(c) > 0 /\ Run(c, available)
      /\ available[c[Len(c)]] = avail_head.ptr
      /\ first[t] = Null /\ tail[t] = Null /\ got[t][1] = c[1]
  BY <1>3, <1>4, CallCases DEF AtRelease, AtRest, Gathered
<1>6. /\ ListFrom(L, avail_head.ptr, available)
      /\ \A i \in 1 .. Len(L) : L[i] \in Recs /\ own[L[i]] = Avail
  <2>1. ListFrom(L, avail_head.ptr, available) /\ OwnsAll(Avail, L, own)
    BY DEF Owners, OwnersOk
  <2> QED
    BY <2>1, ListFacts DEF OwnsAll
<1>7. \A i \in 1 .. Len(c), j \in 1 .. Len(L) : c[i] # L[j]
  BY <1>3, <1>6, OwnerFacts
<1>8. PICK M : Joins(c, L, available, M)
  BY <1>3, <1>5, <1>6, <1>7, JoinLists
<1> DEFINE own2 == [r \in Recs |-> IF own[r] = Call(t) THEN Avail ELSE own[r]]
<1>9. \A r \in Recs : /\ own[r] = Call(t) => own2[r] = Avail
                      /\ own[r] # Call(t) => own2[r] = own[r]
  OBVIOUS
<1> HIDE DEF own2
<1>10. ListFrom(M, avail_head'.ptr, available')
  BY <1>4, <1>5, <1>8 DEF Joins, Untagged
<1>11. OwnsAll(Avail, M, own2)
  <2>1. /\ \A j \in 1 .. Len(c) : own2[c[j]] = Avail
        /\ \A j \in 1 .. Len(L) : own2[L[j]] = Avail
    BY <1>3, <1>6, <1>9, OwnerFacts
  <2> QED
    BY <1>8, <2>1 DEF OwnsAll, Joins
<1>12. PICK d \in Seq(Recs) : d = <<>> /\ Len(d) = 0
  BY EmptyFacts
<1>13. CallOk(t, d, M)'
  BY <1>4, <1>5, <1>12 DEF CallOk, Gathered, AtRest, AtSteal, AtCut, AtGather,
     AtPush, AtRelease, NoRepeats
<1>14. OwnsAll(Call(t), d, own2)
  BY <1>12 DEF OwnsAll
<1>15. \A u \in Threads : u # t => Keeps(Call(u), own, own2)
  BY <1>4, <1>9, OwnerFacts DEF Keeps
<1>16. \A u \in Threads : pc[u] \notin {"steal", "unlock"}
  <2>1. ~avail_head.lock
    BY <1>4 DEF TypeInv, SeenIsFit
  <2> QED
    BY <2>1 DEF LockInv, Holds
<1>17. \A h \in handles' : h \in handles /\ Keeps(Handle(h), own, own2)
  BY <1>4, <1>9, OwnerFacts DEF Keeps
<1>18. \A r \in Recs : r > made' => own2[r] = New /\ available'[r] = Null
  BY <1>4, <1>9, OwnerFacts DEF Owners, OwnersOk
<1>19. \E chain2 : Owners(M, chain2, own2)'
  BY <1>1, <1>10, <1>11, <1>13, <1>14, <1>15, <1>16, <1>17, <1>18, StepOwners
<1> QED
  BY <1>19

-----------------------------------------------------------------------------
(* The owners are in order in every state that no stale head has led to.    *)

(* Nobody owns anything in the first state.                                 *)
LEMMA InitOwnerInv == Init => OwnerInv
<1> SUFFICES ASSUME Init PROVE OwnerInv
  OBVIOUS
<1>1. PICK L \in Seq(Recs) : L = <<>> /\ Len(L) = 0
  BY EmptyFacts
<1> DEFINE chain == [t \in Threads |-> L]
           own == [r \in Recs |-> New]
<1>2. /\ chain \in [Threads -> Seq(Recs)]
      /\ \A t \in Threads : chain[t] = L
      /\ \A r \in Recs : own[r] = New
  OBVIOUS
<1> HIDE DEF chain, own
<1>3. ListFrom(L, avail_head.ptr, available)
  BY <1>1 DEF Init, ListFrom, NoRepeats, Run, Untagged
<1>4. OwnersOk(L, chain, own)
  BY <1>1, <1>2 DEF Init, OwnersOk, OwnsAll
<1>5. \A t \in Threads : CallOk(t, L, L)
  BY <1>1 DEF Init, CallOk, Gathered, AtRest, AtSteal, AtCut, AtGather, AtPush,
     AtRelease, NoRepeats
<1>6. Owners(L, chain, own)
  BY <1>2, <1>3, <1>4, <1>5 DEF Owners, Init
<1> QED
  BY <1>6 DEF OwnerInv

(* Every step keeps the owners in order, or makes `stale` true for ever.    *)
LEMMA NextOwnerInv == TypeInv /\ LockInv /\ OwnerInv /\ [Next]_vars => OwnerInv'
<1> SUFFICES ASSUME TypeInv, LockInv, OwnerInv, [Next]_vars, ~stale' PROVE OwnerInv'
  BY DEF OwnerInv
<1>1. ~stale
  BY DEF Next, vars, Begin, AcquireStep, ReleaseStep, AcquireMany, DropArray,
     DropSingle, LoadAvail, FetchOrBusy, FetchOrLocks, StealMore, StealEnough,
     Unlock, CutTail, TakeStolen, NewRec, PushRec, PushRecFails, CountRec,
     ReturnHandle, LoadForRelease, PushAvailable, PushFails
<1>2. PICK L, chain, own : Owners(L, chain, own)
  BY <1>1 DEF OwnerInv
<1>3. SUFFICES \E L2, chain2, own2 : Owners(L2, chain2, own2)'
  BY DEF OwnerInv
<1>4. ASSUME NEW t \in Threads, Begin(t)
      PROVE  \E L2, chain2, own2 : Owners(L2, chain2, own2)'
  BY <1>2, <1>4, LoadOwners, DropOwners DEF Begin
<1>5. ASSUME NEW t \in Threads, AcquireStep(t)
      PROVE  \E L2, chain2, own2 : Owners(L2, chain2, own2)'
  BY <1>2, <1>5, LoadOwners, LockOwners, StealOwners, UnlockOwners, CutOwners,
     TakeOwners, NewRecOwners, PushRecOwners, CountOwners, ReturnOwners
  DEF AcquireStep
<1>6. ASSUME NEW t \in Threads, ReleaseStep(t)
      PROVE  \E L2, chain2, own2 : Owners(L2, chain2, own2)'
  BY <1>2, <1>6, LoadForReleaseOwners, PushOwners, PushRecOwners DEF ReleaseStep
<1>7. CASE UNCHANGED vars
  <2>1. Owners(L, chain, own)'
    BY <1>2, <1>7 DEF vars, recs, avail, local, Owners, OwnersOk, CallOk,
       Gathered, AtRest, AtSteal, AtCut, AtGather, AtPush, AtRelease, HandleOk
  <2> QED
    BY <2>1
<1> QED
  BY <1>4, <1>5, <1>6, <1>7 DEF Next

(* The owners are in order throughout.                                      *)
LEMMA OwnersThroughout == Spec => []OwnerInv
  BY InitOwnerInv, NextOwnerInv, TypeAndLock, PTL DEF Spec

(* What a call has gathered is owned by it and by nothing else.             *)
LEMMA OwnedByOne ==
  ASSUME TypeInv, NEW L, NEW chain, NEW own, Owners(L, chain, own)
  PROVE  /\ \A t \in Threads : \A r \in Owned(t) : own[r] = Call(t)
         /\ \A h \in handles : \A r \in ToSet(h.recs) : own[r] = Handle(h)
<1>1. ASSUME NEW t \in Threads, NEW r \in Owned(t) PROVE own[r] = Call(t)
  <2>1. PICK i \in 1 .. Len(got[t]) : r = got[t][i]
    BY DEF Owned, ToSet
  <2>2. i \in 1 .. Len(chain[t]) /\ r = chain[t][i]
    BY <2>1, ChainFacts, CallCases, LocalTypes DEF Gathered
  <2> QED
    BY <2>2, ChainFacts
<1>2. ASSUME NEW h \in handles, NEW r \in ToSet(h.recs) PROVE own[r] = Handle(h)
  BY <1>2 DEF Owners, OwnersOk, OwnsAll, ToSet
<1> QED
  BY <1>1, <1>2

(* For any number of threads and records, a record is in one handle or one  *)
(* call at most until a thread has locked the list of available records     *)
(* and gone on with a pointer that is not its head any more.                *)
THEOREM OneOwner == Spec => []OneOwnerUnlessStale
<1>1. TypeInv /\ OwnerInv => OneOwnerUnlessStale
  <2> SUFFICES ASSUME TypeInv, OwnerInv, ~stale PROVE AtMostOneOwner
    BY DEF OneOwnerUnlessStale
  <2>1. PICK L, chain, own : Owners(L, chain, own)
    BY DEF OwnerInv
  <2>2. /\ \A t \in Threads : \A r \in Owned(t) : own[r] = Call(t)
        /\ \A h \in handles : \A r \in ToSet(h.recs) : own[r] = Handle(h)
    BY <2>1, OwnedByOne
  <2> QED
    BY <2>2, OwnerFacts DEF AtMostOneOwner
<1> QED
  BY <1>1, OwnersThroughout, TypeAndLock, PTL

(* Until then, no record of a handle is reached from avail_head, so that no *)
(* later call takes it.                                                     *)
THEOREM HandlesAreOffTheList == Spec => []OwnedIsUnavailable
<1>1. TypeInv /\ OwnerInv => OwnedIsUnavailable
  <2> SUFFICES ASSUME TypeInv, OwnerInv, ~stale, NEW h \in handles
               PROVE  ToSet(h.recs) \cap ReachedFrom(avail_head.ptr, available) = {}
    BY DEF OwnedIsUnavailable
  <2>1. PICK L, chain, own : Owners(L, chain, own)
    BY DEF OwnerInv
  <2>2. \A r \in ToSet(h.recs) : own[r] = Handle(h)
    BY <2>1, OwnedByOne
  <2>3. ListFrom(L, avail_head.ptr, available) /\ OwnsAll(Avail, L, own)
    BY <2>1 DEF Owners, OwnersOk
  <2>4. ReachedFrom(avail_head.ptr, available) = {L[i] : i \in 1 .. Len(L)}
    BY <2>3, ReachedIsRange
  <2>5. \A r \in {L[i] : i \in 1 .. Len(L)} : own[r] = Avail
    BY <2>3 DEF OwnsAll
  <2> QED
    BY <2>2, <2>4, <2>5, OwnerFacts
<1> QED
  BY <1>1, OwnersThroughout, TypeAndLock, PTL
=============================================================================

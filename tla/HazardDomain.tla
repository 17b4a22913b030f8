---------------------------- MODULE HazardDomain ----------------------------
(***************************************************************************)
(* The records of a hazard-pointer domain: crates/mem/src/hazard/domain.rs *)
(* and the handles of hazard_ptr.rs that own them.                         *)
(*                                                                         *)
(* Records are allocated once and stay on the list `head` for ever.  A     *)
(* record nobody owns waits on a second list, `avail_head`, linked through *)
(* its field `available`.  The lowest bit of avail_head is a lock: a thread*)
(* that sets it takes records off the list and stores the rest back, which *)
(* unlocks; a thread that releases records pushes them with a compare-and- *)
(* swap that only succeeds while the bit is clear.                         *)
(*                                                                         *)
(* Every access of avail_head, head, count or a record's `available` is an *)
(* action, except that a store to a record only its owner can reach is     *)
(* folded into the access before or after it.                              *)
(***************************************************************************)
EXTENDS Integers, Sequences, FiniteSets, SequencesExt

CONSTANTS
  Acquirers,   \* threads that create hazard pointers
  Releasers,   \* threads that drop them (handles may be sent between threads)
  Sizes,       \* the N's of acquire_many
  MaxRecs,     \* bound: records ever allocated
  MaxAcquires, \* bound: acquire calls per thread
  MaxDrops     \* bound: drops per thread

Threads == Acquirers \union Releasers

(* A thread makes handles or drops them, and a program has finitely many.  *)
ASSUME RoleAssumption ==
  /\ Acquirers \cap Releasers = {}
  /\ IsFiniteSet(Threads)
ASSUME SizeAssumption ==
  /\ Sizes \subseteq Nat \ {0}
  /\ MaxRecs \in Nat
  /\ MaxAcquires \in Nat
  /\ MaxDrops \in Nat

Null == 0
Recs == 1 .. MaxRecs
RecOrNull == Recs \union {Null}

(* A pointer and its LOCK_BIT.                                              *)
TaggedPtr == [ptr : RecOrNull, lock : BOOLEAN]
Untagged(r) == [ptr |-> r, lock |-> FALSE]

VARIABLES
  head, next, count,   \* the list of all records, its links and its length
  avail_head,          \* the list of available records, with the LOCK_BIT
  available,           \* its links
  made,                \* records allocated: 1 .. made
  pc, ops,             \* where a thread is, calls it has left
  want,                \* N of the call of an acquirer
  seen,                \* the value a thread loaded from avail_head (or head)
  first, tail, n,      \* the run of records stolen from the list
  got,                 \* the records an acquirer has gathered, or a releaser
                       \* gives back
  handles,             \* handles alive and held by no call [recs, maker]; the
                       \* maker (thread and call) tells them apart
  stale                \* history: a thread locked the list and went on with a
                       \* pointer that was no longer its head

recs  == <<head, next, count, made>>
avail == <<avail_head, available>>
local == <<want, seen, first, tail, n, got>>
vars  == <<recs, avail, pc, ops, local, handles, stale>>

-----------------------------------------------------------------------------
Init ==
  /\ head = Null
  /\ next = [r \in Recs |-> Null]
  /\ count = 0
  /\ avail_head = Untagged(Null)
  /\ available = [r \in Recs |-> Null]
  /\ made = 0
  /\ pc = [t \in Threads |-> "idle"]
  /\ ops = [t \in Threads |-> IF t \in Acquirers THEN MaxAcquires ELSE MaxDrops]
  /\ want = [t \in Threads |-> 0]
  /\ seen = [t \in Threads |-> Untagged(Null)]
  /\ first = [t \in Threads |-> Null]
  /\ tail = [t \in Threads |-> Null]
  /\ n = [t \in Threads |-> 0]
  /\ got = [t \in Threads |-> <<>>]
  /\ handles = {}
  /\ stale = FALSE

Goto(t, to) == pc' = [pc EXCEPT ![t] = to]

(* `seen` is not read again before it is set.                               *)
Forget(t) == seen' = [seen EXCEPT ![t] = Untagged(Null)]

-----------------------------------------------------------------------------
(* `acquire_many` and `try_acquire_available`                               *)

AcquireMany(t) ==
  /\ t \in Acquirers
  /\ pc[t] = "idle"
  /\ ops[t] > 0
  /\ ops' = [ops EXCEPT ![t] = @ - 1]
  /\ \E size \in Sizes : want' = [want EXCEPT ![t] = size]
  /\ Goto(t, "load")
  /\ UNCHANGED <<recs, avail, seen, first, tail, n, got, handles, stale>>

(* Mutant: no test for null.                                                *)
MutantLoadAvail(t) ==
  /\ pc[t] = "load"
  /\ seen' = [seen EXCEPT ![t] = avail_head]
  /\ Goto(t, "fetch_or")
  /\ UNCHANGED <<recs, avail, ops, want, first, tail, n, got,
                 handles, stale>>

(* A null pointer ends the attempt; a null pointer with the bit set is not  *)
(* null.                                                                    *)
LoadAvail(t) ==
  /\ pc[t] = "load"
  /\ seen' = [seen EXCEPT ![t] = avail_head]
  /\ Goto(t, IF avail_head = Untagged(Null) THEN "gather" ELSE "fetch_or")
  /\ UNCHANGED <<recs, avail, ops, want, first, tail, n, got,
                 handles, stale>>

(* fetch_or finds the bit set: start over.                                  *)
FetchOrBusy(t) ==
  /\ pc[t] = "fetch_or"
  /\ avail_head.lock
  /\ Goto(t, "load")
  /\ Forget(t)
  /\ UNCHANGED <<recs, avail, ops, want, first, tail, n, got,
                 handles, stale>>

(* Mutant: the bit that fetch_or returned is not looked at.                 *)
MutantFetchOrLocks(t) ==
  /\ pc[t] = "fetch_or"
  /\ avail_head' = [avail_head EXCEPT !.lock = TRUE]
  /\ first' = [first EXCEPT ![t] = seen[t].ptr]
  /\ tail' = [tail EXCEPT ![t] = seen[t].ptr]
  /\ n' = [n EXCEPT ![t] = 1]
  /\ Goto(t, IF seen[t].lock THEN "wild" ELSE "steal")
  /\ Forget(t)
  /\ stale' = (stale \/ seen[t] # avail_head)
  /\ UNCHANGED <<recs, available, ops, want, got, handles>>

(* fetch_or sets the bit.  The thread goes on with the pointer it loaded    *)
(* earlier, not with the one fetch_or returned: if that was loaded while    *)
(* another thread held the lock it is tagged, and following it is           *)
(* undefined.  The model stops the thread there with the bit still set (a   *)
(* debug build panics on the misaligned pointer).                           *)
FetchOrLocks(t) ==
  /\ pc[t] = "fetch_or"
  /\ ~avail_head.lock
  /\ avail_head' = [avail_head EXCEPT !.lock = TRUE]
  /\ first' = [first EXCEPT ![t] = seen[t].ptr]
  /\ tail' = [tail EXCEPT ![t] = seen[t].ptr]
  /\ n' = [n EXCEPT ![t] = 1]
  /\ Goto(t, IF seen[t].lock THEN "wild" ELSE "steal")
  /\ Forget(t)
  /\ stale' = (stale \/ seen[t] # avail_head)
  /\ UNCHANGED <<recs, available, ops, want, got, handles>>

(* `try_acquire_available_locked`: walk to the last record to steal,        *)
StealMore(t) ==
  /\ pc[t] = "steal"
  /\ available[tail[t]] # Null
  /\ n[t] < want[t]
  /\ tail' = [tail EXCEPT ![t] = available[tail[t]]]
  /\ n' = [n EXCEPT ![t] = @ + 1]
  /\ UNCHANGED <<recs, avail, pc, ops, want, seen, first, got, handles, stale>>

(* Mutant: the last stolen record stays on the list.                        *)
MutantStealEnough(t) ==
  /\ pc[t] = "steal"
  /\ available[tail[t]] = Null \/ n[t] = want[t]
  /\ seen' = [seen EXCEPT ![t] = Untagged(tail[t])]
  /\ n' = [n EXCEPT ![t] = 0]
  /\ Goto(t, "unlock")
  /\ UNCHANGED <<recs, avail, ops, want, first, tail, got, handles, stale>>

(* read what follows it,                                                    *)
StealEnough(t) ==
  /\ pc[t] = "steal"
  /\ available[tail[t]] = Null \/ n[t] = want[t]
  /\ seen' = [seen EXCEPT ![t] = Untagged(available[tail[t]])]
  /\ n' = [n EXCEPT ![t] = 0]
  /\ Goto(t, "unlock")
  /\ UNCHANGED <<recs, avail, ops, want, first, tail, got, handles, stale>>

(* Mutant: the bit is written back.                                         *)
MutantUnlock(t) ==
  /\ pc[t] = "unlock"
  /\ avail_head' = [seen[t] EXCEPT !.lock = TRUE]
  /\ Forget(t)
  /\ Goto(t, "cut")
  /\ UNCHANGED <<recs, available, ops, want, first, tail, n, got,
                 handles, stale>>

(* store that in avail_head, which unlocks it,                              *)
Unlock(t) ==
  /\ pc[t] = "unlock"
  /\ avail_head' = seen[t]
  /\ Forget(t)
  /\ Goto(t, "cut")
  /\ UNCHANGED <<recs, available, ops, want, first, tail, n, got,
                 handles, stale>>

(* and cut the stolen run off.                                              *)
CutTail(t) ==
  /\ pc[t] = "cut"
  /\ available' = [available EXCEPT ![tail[t]] = Null]
  /\ tail' = [tail EXCEPT ![t] = Null]
  /\ Goto(t, "gather")
  /\ UNCHANGED <<recs, avail_head, ops, want, seen, first, n, got,
                 handles, stale>>

(* The closure of acquire_many: take the next stolen record,                *)
TakeStolen(t) ==
  /\ pc[t] = "gather"
  /\ Len(got[t]) < want[t]
  /\ first[t] # Null
  /\ got' = [got EXCEPT ![t] = Append(@, first[t])]
  /\ tail' = [tail EXCEPT ![t] = first[t]]
  /\ first' = [first EXCEPT ![t] = available[first[t]]]
  /\ UNCHANGED <<recs, avail, pc, ops, want, seen, n, handles, stale>>

(* or make a new one (`acquire_new_rec`: the list head is loaded here),     *)
NewRec(t) ==
  /\ pc[t] = "gather"
  /\ Len(got[t]) < want[t]
  /\ first[t] = Null
  /\ made < MaxRecs
  /\ made' = made + 1
  /\ got' = [got EXCEPT ![t] = Append(@, made + 1)]
  /\ seen' = [seen EXCEPT ![t] = Untagged(head)]
  /\ Goto(t, "push_rec")
  /\ UNCHANGED <<head, next, count, avail, ops, want, first, tail, n,
                 handles, stale>>

(* Mutant: a store in place of the compare-and-swap.                        *)
MutantPushRec(t) ==
  /\ pc[t] = "push_rec"
  /\ next' = [next EXCEPT ![Last(got[t])] = seen[t].ptr]
  /\ head' = Last(got[t])
  /\ Forget(t)
  /\ Goto(t, "count")
  /\ UNCHANGED <<count, made, avail, ops, want, first, tail, n, got,
                 handles, stale>>

(* push it with a compare-and-swap on the list head,                        *)
PushRec(t) ==
  /\ pc[t] = "push_rec"
  /\ head = seen[t].ptr
  /\ next' = [next EXCEPT ![Last(got[t])] = seen[t].ptr]
  /\ head' = Last(got[t])
  /\ Forget(t)
  /\ Goto(t, "count")
  /\ UNCHANGED <<count, made, avail, ops, want, first, tail, n, got,
                 handles, stale>>

(* again with the new head if that fails, perhaps spuriously,               *)
PushRecFails(t) ==
  /\ pc[t] = "push_rec"
  /\ seen' = [seen EXCEPT ![t] = Untagged(head)]
  /\ UNCHANGED <<recs, avail, pc, ops, want, first, tail, n, got,
                 handles, stale>>

(* count it, and link it behind the record gathered before it.              *)
CountRec(t) ==
  /\ pc[t] = "count"
  /\ count' = count + 1
  /\ available' = IF tail[t] = Null THEN available
                  ELSE [available EXCEPT ![tail[t]] = Last(got[t])]
  /\ tail' = [tail EXCEPT ![t] = Last(got[t])]
  /\ Goto(t, "gather")
  /\ UNCHANGED <<head, next, made, avail_head, ops, want, seen, first, n, got,
                 handles, stale>>

(* The array is full: it becomes a handle (HzdPtr or HzdPtrArray).          *)
ReturnHandle(t) ==
  /\ pc[t] = "gather"
  /\ Len(got[t]) = want[t]
  /\ handles' = handles \union {[recs |-> got[t], maker |-> <<t, ops[t]>>]}
  /\ got' = [got EXCEPT ![t] = <<>>]
  /\ want' = [want EXCEPT ![t] = 0]
  /\ first' = [first EXCEPT ![t] = Null]
  /\ tail' = [tail EXCEPT ![t] = Null]
  /\ Goto(t, "idle")
  /\ UNCHANGED <<recs, avail, ops, seen, n, stale>>

-----------------------------------------------------------------------------
(* HzdPtrArray::drop, `release_many` and `push_available`                   *)

(* The drop starts; release_many panics unless the last record's link is    *)
(* null.                                                                    *)
DropArray(t) ==
  /\ t \in Releasers
  /\ pc[t] = "idle"
  /\ ops[t] > 0
  /\ ops' = [ops EXCEPT ![t] = @ - 1]
  /\ \E h \in handles :
       /\ got' = [got EXCEPT ![t] = h.recs]
       /\ handles' = handles \ {h}
       /\ Goto(t, IF available[Last(h.recs)] = Null
                  THEN "release" ELSE "panicked")
  /\ UNCHANGED <<recs, avail, want, seen, first, tail, n, stale>>

(* HzdPtr::drop, of a handle on one record, ends in todo!(): it panics and  *)
(* the record is lost.                                                      *)
DropSingle(t) ==
  /\ t \in Releasers
  /\ pc[t] = "idle"
  /\ ops[t] > 0
  /\ ops' = [ops EXCEPT ![t] = @ - 1]
  /\ \E h \in handles : Len(h.recs) = 1 /\ handles' = handles \ {h}
  /\ Goto(t, "panicked")
  /\ UNCHANGED <<recs, avail, local, stale>>

(* Load avail_head; spin while it is locked, else link the last record to   *)
(* what was seen.                                                           *)
LoadForRelease(t) ==
  /\ pc[t] = "release"
  /\ ~avail_head.lock
  /\ seen' = [seen EXCEPT ![t] = avail_head]
  /\ available' = [available EXCEPT ![Last(got[t])] = avail_head.ptr]
  /\ Goto(t, "push")
  /\ UNCHANGED <<recs, avail_head, ops, want, first, tail, n, got,
                 handles, stale>>

PushAvailable(t) ==
  /\ pc[t] = "push"
  /\ avail_head = seen[t]
  /\ avail_head' = Untagged(got[t][1])
  /\ got' = [got EXCEPT ![t] = <<>>]
  /\ Forget(t)
  /\ Goto(t, "idle")
  /\ UNCHANGED <<recs, available, ops, want, first, tail, n, handles, stale>>

PushFails(t) ==
  /\ pc[t] = "push"
  /\ avail_head # seen[t]
  /\ Forget(t)
  /\ Goto(t, "release")
  /\ UNCHANGED <<recs, avail, ops, want, first, tail, n, got,
                 handles, stale>>

-----------------------------------------------------------------------------
AcquireStep(t) ==
  \/ LoadAvail(t) \/ FetchOrBusy(t) \/ FetchOrLocks(t) \/ StealMore(t)
  \/ StealEnough(t) \/ Unlock(t) \/ CutTail(t) \/ TakeStolen(t) \/ NewRec(t)
  \/ PushRec(t) \/ PushRecFails(t) \/ CountRec(t) \/ ReturnHandle(t)

ReleaseStep(t) == LoadForRelease(t) \/ PushAvailable(t) \/ PushFails(t)

Begin(t) == AcquireMany(t) \/ DropArray(t) \/ DropSingle(t)

Next == \E t \in Threads : Begin(t) \/ AcquireStep(t) \/ ReleaseStep(t)

Spec == Init /\ [][Next]_vars

(* A thread inside a call keeps running, and a compare_exchange_weak does   *)
(* not fail spuriously for ever.                                            *)
Fairness ==
  \A t \in Threads :
    WF_vars(AcquireStep(t)) /\ WF_vars(ReleaseStep(t)) /\ SF_vars(PushRec(t))

FairSpec == Spec /\ Fairness

-----------------------------------------------------------------------------
PcValues ==
  {"idle", "load", "fetch_or", "wild", "steal", "unlock", "cut", "gather",
   "push_rec", "count", "release", "push", "panicked"}

(* The type of every variable; the pointer a thread walks from is a record. *)
TypeOK ==
  /\ head \in RecOrNull
  /\ next \in [Recs -> RecOrNull]
  /\ count \in Nat
  /\ avail_head \in TaggedPtr
  /\ available \in [Recs -> RecOrNull]
  /\ made \in 0 .. MaxRecs
  /\ pc \in [Threads -> PcValues]
  /\ ops \in [Threads -> Nat]
  /\ want \in [Threads -> Nat]
  /\ seen \in [Threads -> TaggedPtr]
  /\ first \in [Threads -> RecOrNull]
  /\ tail \in [Threads -> RecOrNull]
  /\ n \in [Threads -> Nat]
  /\ got \in [Threads -> Seq(Recs)]
  /\ handles \in SUBSET [recs : Seq(Recs), maker : Acquirers \X Nat]
  /\ stale \in BOOLEAN
  /\ \A t \in Threads : pc[t] \in {"steal", "unlock", "cut"} => tail[t] # Null

(* The records reached from r through a field.                              *)
ReachedFrom(r, link) ==
  LET hop[i \in 0 .. MaxRecs] ==
        IF i = 0 THEN r
        ELSE IF hop[i - 1] = Null THEN Null
        ELSE link[hop[i - 1]]
  IN  {hop[i] : i \in 0 .. MaxRecs} \ {Null}

Owned(t) == ToSet(got[t])

(* "A hazard pointer [...] can be owned by at most one thread at any time": *)
(* no record is in two handles, or in a handle and in a call that gathers   *)
(* or gives back records.                                                   *)
AtMostOneOwner ==
  /\ \A t, u \in Threads : t # u => Owned(t) \cap Owned(u) = {}
  /\ \A t \in Threads, h \in handles : Owned(t) \cap ToSet(h.recs) = {}
  /\ \A g, h \in handles : g # h => ToSet(g.recs) \cap ToSet(h.recs) = {}

(* A record has one owner as long as every thread that locked the list of   *)
(* available records went on with the head it had then: the stale pointer   *)
(* of try_acquire_available is all that breaks AtMostOneOwner.              *)
OneOwnerUnlessStale == ~stale => AtMostOneOwner

(* Until then that list never leads to a record that a handle owns, so that *)
(* no later acquire hands it out a second time.                             *)
OwnedIsUnavailable ==
  ~stale =>
    \A h \in handles :
      ToSet(h.recs) \cap ReachedFrom(avail_head.ptr, available) = {}

(* No record is lost from, or twice on, the list that a reclaimer scans,   *)
(* whichever acquire_new_rec calls race, and `count` is its length but for *)
(* the calls between the compare-and-swap and the fetch_add.                *)
RecordListIntact ==
  LET listed == ReachedFrom(head, next)
      pushing == {Last(got[t]) : t \in {u \in Threads : pc[u] = "push_rec"}}
      counting == {t \in Threads : pc[t] = "count"}
  IN  /\ listed = (1 .. made) \ pushing
      /\ count = Cardinality(listed) - Cardinality(counting)

(* The LOCK_BIT is set exactly while one thread works on the list of        *)
(* available records.                                                       *)
LockHasOneHolder ==
  LET holders == {t \in Threads : pc[t] \in {"steal", "unlock", "wild"}}
  IN  Cardinality(holders) = IF avail_head.lock THEN 1 ELSE 0

(* Every acquire returns (unless the bound on records stops it) and every  *)
(* drop of an array ends: nobody spins for ever on the LOCK_BIT - until a   *)
(* thread follows a stale pointer, which may leave the bit set for ever.    *)
CallsEnd ==
  \A t \in Threads :
    (pc[t] # "idle") ~>
      \/ pc[t] \in {"idle", "panicked"}
      \/ pc[t] = "gather" /\ made = MaxRecs
      \/ stale
=============================================================================

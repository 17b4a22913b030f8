------------------------ MODULE HazardProtectProofs ------------------------
(***************************************************************************)
(* Proofs about HazardProtect, for every number of readers, records,       *)
(* sources and objects, every size of handle and store buffer, and both    *)
(* builds.                                                                 *)
(***************************************************************************)
EXTENDS HazardProtect, TLAPS

-----------------------------------------------------------------------------
(* The inductive invariant                                                  *)

(* A record belongs to one slot of one handle and is on the list.           *)
SlotsApart ==
  /\ \A t \in Readers : \A k \in 1 .. Len(slots[t]) : slots[t][k] \in listed
  /\ \A t, u \in Readers : \A j \in 1 .. Len(slots[t]) : \A k \in 1 .. Len(slots[u]) :
       slots[t][j] = slots[u][k] => t = u /\ j = k

(* A store waits only for a record of the reader's own handle.              *)
StoresOwned ==
  \A t \in Readers :
    /\ Len(buf[t]) <= MaxBuf
    /\ \A j \in 1 .. Len(buf[t]) :
         \E k \in 1 .. Len(slots[t]) : buf[t][j].rec = slots[t][k]

(* What the sources hold is alive and in one source; what the reclaimer     *)
(* works on is retired.                                                     *)
ObjectsOk ==
  /\ \A s \in Sources : src[s] # Null => state[src[s]] = "live"
  /\ \A s, u \in Sources : src[s] = src[u] /\ src[s] # Null => s = u
  /\ \A o \in batch : state[o] = "retired"
  /\ rpc = "idle" => batch = {}

(* The heavy barrier waits for stores that exist, and was waited for.       *)
BarrierOk ==
  /\ \A t \in Readers : due[t] <= Len(buf[t])
  /\ rpc # "wait" => \A t \in Readers : due[t] = 0

(* The slot of a call in try_protect_ptr has the announcement, and slots    *)
(* not yet protected give no reference.                                     *)
CallOk(t) ==
  /\ pc[t] \in {"fence", "recheck"} => Announced(t, slots[t][i[t]], p[t])
  /\ pc[t] = "recheck" /\ fence => buf[t] = <<>>
  /\ pc[t] \in {"load", "announce", "fence", "recheck", "withdraw"} =>
       \A k \in i[t] .. Len(out[t]) : out[t][k] = Null
  /\ pc[t] \in {"none", "clear", "release", "panicked"} =>
       \A k \in 1 .. Len(out[t]) : out[t][k] = Null
  /\ pc[t] = "release" => i[t] = 1

CallsOk == \A t \in Readers : CallOk(t)

(* What makes the reference of slot k safe: it is announced; the            *)
(* reclaimer's barrier waits for the announcement; and the reclaimer has    *)
(* seen it or is going to.                                                  *)
HeldOk(t, k) ==
  LET o == out[t][k]
      r == slots[t][k]
  IN  o # Null =>
        /\ state[o] # "free"
        /\ Announced(t, r, o)
        /\ fence => Settled(t, r)
        /\ o \in batch /\ rpc \in {"wait", "scan"} =>
             \A j \in 1 .. Len(buf[t]) : buf[t][j].rec = r => j <= due[t]
        /\ o \in batch /\ rpc = "scan" => r \in unread \/ o \in guards

AllHeldOk == \A t \in Readers : \A k \in 1 .. Len(out[t]) : HeldOk(t, k)

IInv ==
  /\ TypeOK
  /\ SlotsApart
  /\ StoresOwned
  /\ ObjectsOk
  /\ BarrierOk
  /\ CallsOk
  /\ AllHeldOk

-----------------------------------------------------------------------------
(* Sequences                                                                *)

(* A sequence with an element more.                                         *)
LEMMA AppendProps ==
  ASSUME NEW S, NEW s \in Seq(S), NEW e \in S
  PROVE  /\ Append(s, e) \in Seq(S)
         /\ Len(Append(s, e)) = Len(s) + 1
         /\ Len(s) \in Nat
         /\ \A j \in 1 .. Len(s) : Append(s, e)[j] = s[j]
         /\ Append(s, e)[Len(s) + 1] = e
  OBVIOUS

(* A sequence without its first element.                                    *)
LEMMA TailProps ==
  ASSUME NEW S, NEW s \in Seq(S), s # <<>>
  PROVE  /\ Tail(s) \in Seq(S)
         /\ Len(s) \in Nat \ {0}
         /\ Len(Tail(s)) = Len(s) - 1
         /\ \A j \in 1 .. Len(s) - 1 : Tail(s)[j] = s[j + 1]
         /\ Head(s) = s[1]
         /\ Head(s) \in S
  OBVIOUS

(* A handle without references has None in every slot.                      *)
LEMMA NoReferencesProps ==
  ASSUME NEW n \in Nat
  PROVE  /\ NoReferences(n) \in Seq(Ptrs)
         /\ Len(NoReferences(n)) = n
         /\ \A k \in 1 .. n : NoReferences(n)[k] = Null
  BY DEF NoReferences, Ptrs

-----------------------------------------------------------------------------
(* Stores                                                                   *)

Cells == [rec : Recs, val : Ptrs]

(* A store makes its own announcement and leaves every other one as it was. *)
LEMMA StoreProps ==
  ASSUME TypeOK, NEW t \in Readers, NEW q \in Recs, NEW v \in Ptrs, Store(t, q, v)
  PROVE  /\ buf' \in [Readers -> Seq(Cells)]
         /\ Len(buf[t]) < MaxBuf
         /\ Len(buf[t]) \in Nat
         /\ Len(buf'[t]) = Len(buf[t]) + 1
         /\ \A j \in 1 .. Len(buf[t]) : buf'[t][j] = buf[t][j]
         /\ buf'[t][Len(buf[t]) + 1] = [rec |-> q, val |-> v]
         /\ \A u \in Readers : u # t => buf'[u] = buf[u]
         /\ ptr' = ptr
<1>1. buf \in [Readers -> Seq(Cells)] /\ [rec |-> q, val |-> v] \in Cells
  BY DEF TypeOK, Cells
<1>2. buf'[t] = Append(buf[t], [rec |-> q, val |-> v])
  BY <1>1 DEF Store
<1>3. buf[t] \in Seq(Cells)
  BY <1>1
<1>4. \A u \in Readers : u # t => buf'[u] = buf[u]
  BY <1>1 DEF Store
<1>5. Append(buf[t], [rec |-> q, val |-> v]) \in Seq(Cells)
  BY <1>1, <1>3, AppendProps
<1>6. buf' \in [Readers -> Seq(Cells)]
  BY <1>1, <1>5 DEF Store
<1>7. Len(buf[t]) < MaxBuf /\ ptr' = ptr
  BY DEF Store
<1>8. /\ Len(buf[t]) \in Nat
      /\ Len(buf'[t]) = Len(buf[t]) + 1
      /\ \A j \in 1 .. Len(buf[t]) : buf'[t][j] = buf[t][j]
      /\ buf'[t][Len(buf[t]) + 1] = [rec |-> q, val |-> v]
  BY <1>1, <1>2, <1>3, AppendProps
<1> QED BY <1>4, <1>6, <1>7, <1>8

(* HzdPtrRec::protect announces, in the store buffer at least.              *)
LEMMA StoreAnnounces ==
  ASSUME TypeOK, NEW t \in Readers, NEW q \in Recs, NEW v \in Ptrs, Store(t, q, v)
  PROVE  Announced(t, q, v)'
<1>1. /\ Len(buf[t]) \in Nat
      /\ Len(buf'[t]) = Len(buf[t]) + 1
      /\ buf'[t][Len(buf[t]) + 1] = [rec |-> q, val |-> v]
  BY StoreProps
<1>2. Len(buf'[t]) \in 1 .. Len(buf'[t])
  BY <1>1
<1>3. buf'[t][Len(buf'[t])].rec = q /\ buf'[t][Len(buf'[t])].val = v
  BY <1>1
<1>4. \A k \in Len(buf'[t]) + 1 .. Len(buf'[t]) : buf'[t][k].rec # q
  BY <1>1
<1> QED BY <1>2, <1>3, <1>4 DEF Announced

(* A store to one record leaves what is announced in the others.            *)
LEMMA StoreKeeps ==
  ASSUME TypeOK, NEW t \in Readers, NEW q \in Recs, NEW v \in Ptrs, Store(t, q, v),
         NEW u \in Readers, NEW r \in Recs, NEW o \in Ptrs, u # t \/ r # q
  PROVE  /\ Settled(u, r) => Settled(u, r)'
         /\ Announced(u, r, o) => Announced(u, r, o)'
         /\ \A j \in 1 .. Len(buf'[u]) :
              buf'[u][j].rec = r => j \in 1 .. Len(buf[u]) /\ buf[u][j].rec = r
<1>1. CASE u # t
  <2>1. buf'[u] = buf[u] /\ ptr' = ptr
    BY <1>1, StoreProps
  <2> QED BY <2>1 DEF Settled, Announced
<1>2. CASE u = t /\ r # q
  <2>1. /\ Len(buf[t]) \in Nat
        /\ Len(buf'[t]) = Len(buf[t]) + 1
        /\ \A j \in 1 .. Len(buf[t]) : buf'[t][j] = buf[t][j]
        /\ buf'[t][Len(buf[t]) + 1] = [rec |-> q, val |-> v]
        /\ ptr' = ptr
    BY StoreProps
  <2>2. \A j \in 1 .. Len(buf'[t]) :
          buf'[t][j].rec = r => j \in 1 .. Len(buf[t]) /\ buf[t][j].rec = r
    BY <1>2, <2>1
  <2>3. Settled(t, r) => Settled(t, r)'
    BY <2>2 DEF Settled
  <2>4. ASSUME NEW j \in 1 .. Len(buf[t]), buf[t][j].rec = r, buf[t][j].val = o,
               \A k \in j + 1 .. Len(buf[t]) : buf[t][k].rec # r
        PROVE  Announced(t, r, o)'
    <3>1. j \in 1 .. Len(buf'[t]) /\ buf'[t][j].rec = r /\ buf'[t][j].val = o
      BY <2>1, <2>4
    <3>2. ASSUME NEW k \in j + 1 .. Len(buf'[t]), buf'[t][k].rec = r PROVE FALSE
      <4>1. k \in 1 .. Len(buf'[t])
        BY <2>1
      <4>2. k \in 1 .. Len(buf[t]) /\ buf[t][k].rec = r
        BY <2>2, <3>2, <4>1
      <4>3. k \in j + 1 .. Len(buf[t])
        BY <2>1, <4>2
      <4> QED BY <2>4, <4>2, <4>3
    <3> QED BY <3>1, <3>2 DEF Announced
  <2>5. Announced(t, r, o) => Announced(t, r, o)'
    BY <2>1, <2>3, <2>4 DEF Announced
  <2> QED BY <1>2, <2>2, <2>3, <2>5
<1> QED BY <1>1, <1>2

-----------------------------------------------------------------------------
(* What several actions have in common                                      *)

(* A step of a reader that stores nothing and keeps its records.            *)
LEMMA QuietStep ==
  ASSUME IInv, UNCHANGED <<fence, src, memory, slots, listed, state, reclaimer>>
  PROVE  SlotsApart' /\ StoresOwned' /\ ObjectsOk' /\ BarrierOk'
<1>1. SlotsApart'
  BY DEF IInv, SlotsApart
<1>2. StoresOwned'
  BY DEF IInv, StoresOwned, memory
<1>3. ObjectsOk'
  BY DEF IInv, ObjectsOk, reclaimer
<1>4. BarrierOk'
  BY DEF IInv, BarrierOk, memory, reclaimer
<1> QED BY <1>1, <1>2, <1>3, <1>4

(* A step that leaves all that the call, or the reference, of a reader      *)
(* depends on.                                                              *)
LEMMA CallOkUnchanged ==
  ASSUME NEW u, CallOk(u), fence' = fence, ptr' = ptr, buf'[u] = buf[u],
         slots'[u] = slots[u], pc'[u] = pc[u], i'[u] = i[u], p'[u] = p[u],
         out'[u] = out[u]
  PROVE  CallOk(u)'
<1>1. Announced(u, slots[u][i[u]], p[u]) => Announced(u, slots[u][i[u]], p[u])'
  BY DEF Announced, Settled
<1> QED BY <1>1 DEF CallOk

(* A reference is as safe as before if nothing it depends on changed.       *)
LEMMA HeldOkUnchanged ==
  ASSUME NEW t, NEW k, HeldOk(t, k), out'[t][k] = out[t][k],
         UNCHANGED <<fence, memory, slots, state, reclaimer>>
  PROVE  HeldOk(t, k)'
BY DEF HeldOk, Announced, Settled, memory, reclaimer

(* A step of reader t after which it holds what it held before, or nothing. *)
LEMMA FewerHeld ==
  ASSUME IInv, NEW t \in Readers,
         UNCHANGED <<fence, memory, slots, state, reclaimer>>,
         \A u \in Readers : u # t => out'[u] = out[u],
         \/ out'[t] = out[t]
         \/ \A k \in 1 .. Len(out'[t]) : out'[t][k] = Null
  PROVE  AllHeldOk'
<1> SUFFICES ASSUME NEW u \in Readers, NEW k \in 1 .. Len(out'[u])
             PROVE  HeldOk(u, k)'
  BY DEF AllHeldOk
<1>1. CASE out'[u][k] = Null
  BY <1>1 DEF HeldOk
<1>2. CASE out'[u][k] # Null
  <2>1. out'[u] = out[u]
    BY <1>2
  <2>2. HeldOk(u, k)
    BY <2>1 DEF IInv, AllHeldOk
  <2> QED BY <2>1, <2>2, HeldOkUnchanged
<1> QED BY <1>1, <1>2

(* A store to the slot at which a reader's call is, with no reference in    *)
(* that slot: what the other slots hold is as safe as it was.               *)
LEMMA StoreStep ==
  ASSUME IInv, NEW t \in Readers, NEW v \in Ptrs,
         i[t] \in 1 .. Len(slots[t]),
         Store(t, slots[t][i[t]], v),
         out[t][i[t]] = Null,
         UNCHANGED <<fence, src, slots, listed, out, state, reclaimer>>
  PROVE  /\ buf' \in [Readers -> Seq(Cells)] /\ ptr' = ptr
         /\ SlotsApart' /\ StoresOwned' /\ ObjectsOk' /\ BarrierOk' /\ AllHeldOk'
<1>1. TypeOK /\ SlotsApart /\ StoresOwned /\ ObjectsOk /\ BarrierOk /\ AllHeldOk
  BY DEF IInv
<1>2. /\ slots \in [Readers -> Seq(Recs)] /\ out \in [Readers -> Seq(Ptrs)]
      /\ \A u \in Readers : Len(out[u]) = Len(slots[u])
  BY <1>1 DEF TypeOK
<1>3. PICK q \in Recs : q = slots[t][i[t]]
  BY <1>2
<1>4. Store(t, q, v)
  BY <1>3
<1>5. /\ buf' \in [Readers -> Seq(Cells)] /\ ptr' = ptr
      /\ Len(buf[t]) < MaxBuf /\ Len(buf[t]) \in Nat
      /\ Len(buf'[t]) = Len(buf[t]) + 1
      /\ \A j \in 1 .. Len(buf[t]) : buf'[t][j] = buf[t][j]
      /\ buf'[t][Len(buf[t]) + 1] = [rec |-> q, val |-> v]
      /\ \A u \in Readers : u # t => buf'[u] = buf[u]
  BY <1>1, <1>3, <1>4, StoreProps
<1>6. SlotsApart' /\ ObjectsOk'
  BY <1>1 DEF SlotsApart, ObjectsOk, reclaimer
<1>7. StoresOwned'
  <2>1. MaxBuf \in Nat
    BY BoundAssumption
  <2>2. Len(buf'[t]) <= MaxBuf
    BY <1>5, <2>1
  <2>3. ASSUME NEW j \in 1 .. Len(buf'[t])
        PROVE  \E k \in 1 .. Len(slots[t]) : buf'[t][j].rec = slots[t][k]
    <3>1. CASE j \in 1 .. Len(buf[t])
      BY <1>1, <1>5, <3>1 DEF StoresOwned
    <3>2. CASE j = Len(buf[t]) + 1
      <4>1. buf'[t][j].rec = slots[t][i[t]]
        BY <1>3, <1>5, <3>2
      <4> QED BY <4>1
    <3> QED BY <1>5, <3>1, <3>2
  <2>4. ASSUME NEW u \in Readers, u # t
        PROVE  /\ Len(buf'[u]) <= MaxBuf
               /\ \A j \in 1 .. Len(buf'[u]) :
                    \E k \in 1 .. Len(slots[u]) : buf'[u][j].rec = slots[u][k]
    <3>1. buf'[u] = buf[u]
      BY <1>5, <2>4
    <3> QED BY <1>1, <3>1 DEF StoresOwned
  <2>5. slots' = slots
    OBVIOUS
  <2> QED BY <2>2, <2>3, <2>4, <2>5 DEF StoresOwned
<1>8. BarrierOk'
  <2>1. due \in [Readers -> 0 .. MaxBuf]
    BY <1>1 DEF TypeOK
  <2>2. due[t] <= Len(buf'[t])
    BY <1>1, <1>5, <2>1, BoundAssumption DEF BarrierOk
  <2> QED BY <1>1, <1>5, <2>2 DEF BarrierOk, reclaimer
<1>9. AllHeldOk'
  <2> SUFFICES ASSUME NEW u \in Readers, NEW k \in 1 .. Len(out[u]), out[u][k] # Null
               PROVE  HeldOk(u, k)'
    BY DEF AllHeldOk, HeldOk
  <2>a. out[u][k] \in Ptrs /\ slots[u][k] \in Recs /\ k \in 1 .. Len(slots[u])
    BY <1>2
  <2>1. PICK o \in Ptrs, r \in Recs : o = out[u][k] /\ r = slots[u][k]
    BY <2>a
  <2>2. u # t \/ r # q
    BY <1>1, <1>3, <2>a, <2>1 DEF SlotsApart
  <2>3. /\ state[o] # "free" /\ Announced(u, r, o)
        /\ fence => Settled(u, r)
        /\ o \in batch /\ rpc \in {"wait", "scan"} =>
             \A j \in 1 .. Len(buf[u]) : buf[u][j].rec = r => j <= due[u]
        /\ o \in batch /\ rpc = "scan" => r \in unread \/ o \in guards
    BY <1>1, <2>1 DEF AllHeldOk, HeldOk
  <2>4. /\ Settled(u, r) => Settled(u, r)'
        /\ Announced(u, r, o) => Announced(u, r, o)'
        /\ \A j \in 1 .. Len(buf'[u]) :
             buf'[u][j].rec = r => j \in 1 .. Len(buf[u]) /\ buf[u][j].rec = r
    BY <1>1, <1>3, <1>4, <2>1, <2>2, StoreKeeps
  <2>5. /\ out'[u][k] = o /\ slots'[u][k] = r /\ state' = state /\ fence' = fence /\ batch' = batch
        /\ rpc' = rpc /\ due' = due /\ unread' = unread /\ guards' = guards
    BY <2>1 DEF reclaimer
  <2>6. Announced(u, r, o)' /\ (fence' => Settled(u, r)')
    BY <2>3, <2>4, <2>5
  <2>7. o \in batch /\ rpc \in {"wait", "scan"} =>
          \A j \in 1 .. Len(buf'[u]) : buf'[u][j].rec = r => j <= due[u]
    BY <2>3, <2>4
  <2>8. Announced(u, slots[u][k], out[u][k])' /\ (fence' => Settled(u, slots[u][k])')
    BY <2>5, <2>6 DEF Announced, Settled
  <2> QED
    BY <2>3, <2>5, <2>7, <2>8 DEF HeldOk
<1> QED BY <1>5, <1>6, <1>7, <1>8, <1>9

-----------------------------------------------------------------------------
(* The initial states                                                       *)

(* Without handles there is nothing to protect.                             *)
LEMMA InitIInv == Init => IInv
<1> SUFFICES ASSUME Init PROVE IInv
  OBVIOUS
<1>1. TypeOK
  BY BuildAssumption, BoundAssumption DEF Init, TypeOK, Ptrs
<1>2. SlotsApart /\ StoresOwned
  BY BoundAssumption DEF Init, SlotsApart, StoresOwned
<1>3. ObjectsOk
  BY DEF Init, ObjectsOk, Ptrs
<1>4. BarrierOk
  BY DEF Init, BarrierOk
<1>5. CallsOk /\ AllHeldOk
  BY DEF Init, CallsOk, CallOk, AllHeldOk
<1> QED BY <1>1, <1>2, <1>3, <1>4, <1>5 DEF IInv

-----------------------------------------------------------------------------
(* The reader                                                               *)

(* HzdPtr::new and HzdPtr::many take records of nobody.                     *)
LEMMA AcquireStep ==
  ASSUME IInv, NEW t \in Readers, Acquire(t)
  PROVE  IInv'
<1>1. TypeOK /\ SlotsApart /\ StoresOwned /\ CallsOk /\ AllHeldOk
  BY DEF IInv
<1>2. PICK n \in Sizes : \E recs \in Injection(1 .. n, Recs \ Owned) :
        /\ slots' = [slots EXCEPT ![t] = recs]
        /\ listed' = listed \union Range(recs)
        /\ out' = [out EXCEPT ![t] = NoReferences(n)]
  BY DEF Acquire
<1>3. PICK recs \in Injection(1 .. n, Recs \ Owned) :
        /\ slots' = [slots EXCEPT ![t] = recs]
        /\ listed' = listed \union Range(recs)
        /\ out' = [out EXCEPT ![t] = NoReferences(n)]
  BY <1>2
<1>4. n \in Nat \ {0}
  BY BoundAssumption
<1>5. /\ recs \in [1 .. n -> Recs \ Owned]
      /\ \A j, k \in 1 .. n : recs[j] = recs[k] => j = k
  BY <1>3 DEF Injection, IsInjective
<1>6. recs \in Seq(Recs) /\ Len(recs) = n /\ recs # <<>>
  BY <1>4, <1>5
<1>7. /\ NoReferences(n) \in Seq(Ptrs) /\ Len(NoReferences(n)) = n
      /\ \A k \in 1 .. n : NoReferences(n)[k] = Null
  BY <1>4, NoReferencesProps
<1>8. \A r \in Range(recs) : r \in Recs
  BY <1>5 DEF Range
<1>9. pc[t] = "none" /\ pc' = [pc EXCEPT ![t] = "idle"]
  BY DEF Acquire, Goto
<1>10. slots[t] = <<>> /\ i[t] = 1 /\ buf[t] = <<>>
  <2>1. slots[t] = <<>> /\ i[t] = 1
    BY <1>1, <1>9 DEF TypeOK
  <2>2. \A j \in 1 .. Len(buf[t]) : FALSE
    BY <1>1, <2>1 DEF StoresOwned
  <2>3. buf[t] \in Seq(Cells)
    BY <1>1 DEF TypeOK, Cells
  <2> QED BY <2>1, <2>2, <2>3
<1>11. UNCHANGED <<fence, src, memory, i, from, p, goal, state, swaps, reclaimer>>
  BY DEF Acquire
<1>12. /\ slots'[t] = recs /\ out'[t] = NoReferences(n)
       /\ \A u \in Readers : u # t => slots'[u] = slots[u] /\ out'[u] = out[u]
                                      /\ pc'[u] = pc[u]
  BY <1>1, <1>3, <1>9 DEF TypeOK
<1>13. TypeOK'
  <2>1. /\ slots' \in [Readers -> Seq(Recs)] /\ out' \in [Readers -> Seq(Ptrs)]
        /\ listed' \subseteq Recs
    BY <1>1, <1>3, <1>6, <1>7, <1>8 DEF TypeOK
  <2>2. \A u \in Readers :
          /\ Len(out'[u]) = Len(slots'[u])
          /\ IF slots'[u] = <<>> THEN pc'[u] = "none" /\ i'[u] = 1
             ELSE pc'[u] # "none" /\ i'[u] \in 1 .. Len(slots'[u])
    <3> SUFFICES ASSUME NEW u \in Readers
                 PROVE  /\ Len(out'[u]) = Len(slots'[u])
                        /\ IF slots'[u] = <<>> THEN pc'[u] = "none" /\ i'[u] = 1
                           ELSE pc'[u] # "none" /\ i'[u] \in 1 .. Len(slots'[u])
      OBVIOUS
    <3>1. CASE u = t
      <4>1. pc'[t] = "idle" /\ i'[t] = 1
        BY <1>1, <1>9, <1>10, <1>11 DEF TypeOK
      <4>2. 1 \in 1 .. n
        BY <1>4
      <4> QED BY <1>6, <1>7, <1>12, <3>1, <4>1, <4>2
    <3>2. CASE u # t
      <4>1. /\ slots'[u] = slots[u] /\ out'[u] = out[u] /\ pc'[u] = pc[u]
            /\ i'[u] = i[u]
        BY <1>11, <1>12, <3>2
      <4> QED BY <1>1, <4>1 DEF TypeOK
    <3> QED BY <3>1, <3>2
  <2>3. pc' \in [Readers -> {"none", "idle", "load", "announce", "fence", "recheck",
                             "withdraw", "clear", "release", "panicked"}]
    BY <1>1, <1>9 DEF TypeOK
  <2> QED BY <1>1, <1>11, <2>1, <2>2, <2>3 DEF TypeOK, memory, reclaimer
<1>14. SlotsApart'
  <2>1. \A u \in Readers : \A k \in 1 .. Len(slots'[u]) : slots'[u][k] \in listed'
    <3> SUFFICES ASSUME NEW u \in Readers, NEW k \in 1 .. Len(slots'[u])
                 PROVE  slots'[u][k] \in listed'
      OBVIOUS
    <3>1. CASE u = t
      BY <1>3, <1>5, <1>6, <1>12, <3>1 DEF Range
    <3>2. CASE u # t
      BY <1>1, <1>3, <1>12, <3>2 DEF SlotsApart
    <3> QED BY <3>1, <3>2
  <2>2. \A u \in Readers : \A k \in 1 .. Len(slots[u]) : slots[u][k] \in Owned
    <3> SUFFICES ASSUME NEW u \in Readers, NEW k \in 1 .. Len(slots[u])
                 PROVE  slots[u][k] \in Owned
      OBVIOUS
    <3>1. slots[u] \in Seq(Recs)
      BY <1>1 DEF TypeOK
    <3>2. k \in DOMAIN slots[u]
      BY <3>1
    <3> QED BY <3>2 DEF Owned, Range
  <2>3. \A u, w \in Readers :
          \A j \in 1 .. Len(slots'[u]) : \A k \in 1 .. Len(slots'[w]) :
            slots'[u][j] = slots'[w][k] => u = w /\ j = k
    <3> SUFFICES ASSUME NEW u \in Readers, NEW w \in Readers,
                        NEW j \in 1 .. Len(slots'[u]), NEW k \in 1 .. Len(slots'[w]),
                        slots'[u][j] = slots'[w][k]
                 PROVE  u = w /\ j = k
      OBVIOUS
    <3>1. CASE u = t /\ w = t
      BY <1>5, <1>6, <1>12, <3>1
    <3>2. CASE u = t /\ w # t
      BY <1>5, <1>6, <1>12, <2>2, <3>2
    <3>3. CASE u # t /\ w = t
      BY <1>5, <1>6, <1>12, <2>2, <3>3
    <3>4. CASE u # t /\ w # t
      BY <1>1, <1>12, <3>4 DEF SlotsApart
    <3> QED BY <3>1, <3>2, <3>3, <3>4
  <2> QED BY <2>1, <2>3 DEF SlotsApart
<1>15. StoresOwned'
  <2>1. \A u \in Readers : buf'[u] = buf[u]
    BY <1>11 DEF memory
  <2> SUFFICES ASSUME NEW u \in Readers
               PROVE  /\ Len(buf[u]) <= MaxBuf
                      /\ \A j \in 1 .. Len(buf[u]) :
                           \E k \in 1 .. Len(slots'[u]) : buf[u][j].rec = slots'[u][k]
    BY <2>1 DEF StoresOwned
  <2>2. CASE u = t
    BY <1>10, <2>2, BoundAssumption
  <2>3. CASE u # t
    <3>1. slots'[u] = slots[u]
      BY <1>12, <2>3
    <3> QED BY <1>1, <3>1 DEF StoresOwned
  <2> QED BY <2>2, <2>3
<1>16. ObjectsOk' /\ BarrierOk'
  BY <1>11 DEF IInv, ObjectsOk, BarrierOk, memory, reclaimer
<1>17. CallsOk'
  <2> SUFFICES ASSUME NEW u \in Readers
               PROVE  CallOk(u)'
    BY DEF CallsOk
  <2>1. CASE u = t
    BY <1>1, <1>9, <2>1 DEF TypeOK, CallOk
  <2>2. CASE u # t
    BY <1>1, <1>11, <1>12, <2>2, CallOkUnchanged DEF CallsOk, memory
  <2> QED BY <2>1, <2>2
<1>18. AllHeldOk'
  <2> SUFFICES ASSUME NEW u \in Readers, NEW k \in 1 .. Len(out'[u]), out'[u][k] # Null
               PROVE  HeldOk(u, k)'
    BY DEF AllHeldOk, HeldOk
  <2>1. u # t
    BY <1>7, <1>12
  <2>2. out'[u] = out[u] /\ slots'[u] = slots[u]
    BY <1>12, <2>1
  <2>3. HeldOk(u, k)
    BY <1>1, <2>2 DEF AllHeldOk
  <2> QED BY <1>11, <2>2, <2>3 DEF HeldOk, Announced, Settled, memory, reclaimer
<1> QED BY <1>13, <1>14, <1>15, <1>16, <1>17, <1>18 DEF IInv

(* A step of reader t that moves its call on without a store and without a  *)
(* new reference.                                                           *)
LEMMA ControlStep ==
  ASSUME IInv, NEW t \in Readers, TypeOK',
         UNCHANGED <<fence, src, memory, slots, listed, state, reclaimer>>,
         \A u \in Readers : u # t => /\ pc'[u] = pc[u] /\ i'[u] = i[u]
                                     /\ p'[u] = p[u] /\ out'[u] = out[u],
         \/ out'[t] = out[t]
         \/ \A k \in 1 .. Len(out'[t]) : out'[t][k] = Null,
         CallOk(t)'
  PROVE  IInv'
<1>1. SlotsApart' /\ StoresOwned' /\ ObjectsOk' /\ BarrierOk'
  BY QuietStep
<1>2. AllHeldOk'
  BY FewerHeld
<1>3. CallsOk'
  <2> SUFFICES ASSUME NEW u \in Readers, u # t
               PROVE  CallOk(u)'
    BY DEF CallsOk
  <2> QED BY CallOkUnchanged DEF IInv, CallsOk, memory
<1> QED BY <1>1, <1>2, <1>3 DEF IInv

(* A new call of protect or protect_all gives the old references up.        *)
LEMMA ProtectAllStep ==
  ASSUME IInv, NEW t \in Readers, ProtectAll(t)
  PROVE  IInv'
<1>1. TypeOK
  BY DEF IInv
<1>2. Len(slots[t]) \in Nat
  BY <1>1 DEF TypeOK
<1>3. /\ NoReferences(Len(slots[t])) \in Seq(Ptrs)
      /\ Len(NoReferences(Len(slots[t]))) = Len(slots[t])
      /\ \A k \in 1 .. Len(slots[t]) : NoReferences(Len(slots[t]))[k] = Null
  BY <1>2, NoReferencesProps
<1>4. /\ pc[t] = "idle" /\ pc' = [pc EXCEPT ![t] = "load"]
      /\ out' = [out EXCEPT ![t] = NoReferences(Len(slots[t]))]
      /\ UNCHANGED <<fence, src, memory, slots, listed, i, from, p, goal, state,
                     swaps, reclaimer>>
  BY DEF ProtectAll, Goto
<1>5. TypeOK'
  BY <1>1, <1>3, <1>4 DEF TypeOK, memory, reclaimer
<1>6. /\ out'[t] = NoReferences(Len(slots[t])) /\ pc'[t] = "load"
      /\ \A u \in Readers : u # t => pc'[u] = pc[u] /\ out'[u] = out[u]
  BY <1>1, <1>4 DEF TypeOK
<1>7. \A k \in 1 .. Len(out'[t]) : out'[t][k] = Null
  BY <1>3, <1>6
<1>8. CallOk(t)'
  <2>1. i'[t] \in Nat /\ i'[t] >= 1
    BY <1>1, <1>4 DEF TypeOK
  <2> QED BY <1>5, <1>6, <1>7, <2>1 DEF CallOk
<1> QED BY <1>4, <1>5, <1>6, <1>7, <1>8, ControlStep

(* The first load of try_protect_ptr changes the call only.                 *)
LEMMA LoadSrcStep ==
  ASSUME IInv, NEW t \in Readers, LoadSrc(t)
  PROVE  IInv'
<1>1. TypeOK /\ CallsOk
  BY DEF IInv
<1>2. /\ pc[t] = "load" /\ pc' = [pc EXCEPT ![t] = "announce"]
      /\ \E s \in Sources : /\ from' = [from EXCEPT ![t] = s]
                            /\ p' = [p EXCEPT ![t] = src[s]]
      /\ UNCHANGED <<fence, src, memory, slots, listed, i, goal, out, state, swaps,
                     reclaimer>>
  BY DEF LoadSrc, Goto
<1>3. TypeOK'
  BY <1>1, <1>2 DEF TypeOK, memory, reclaimer
<1>4. /\ pc'[t] = "announce"
      /\ \A u \in Readers : u # t => pc'[u] = pc[u] /\ p'[u] = p[u]
  BY <1>1, <1>2 DEF TypeOK
<1>5. CallOk(t)'
  BY <1>1, <1>2, <1>4 DEF CallsOk, CallOk
<1> QED BY <1>2, <1>3, <1>4, <1>5, ControlStep

(* After the light barrier no store is left in the buffer.                  *)
LEMMA LightBarrierStep ==
  ASSUME IInv, NEW t \in Readers, LightBarrier(t)
  PROVE  IInv'
<1>1. TypeOK /\ CallsOk
  BY DEF IInv
<1>2. /\ pc[t] = "fence" /\ pc' = [pc EXCEPT ![t] = "recheck"] /\ buf[t] = <<>>
      /\ UNCHANGED <<fence, src, memory, slots, listed, i, from, p, goal, out,
                     state, swaps, reclaimer>>
  BY DEF LightBarrier, Goto
<1>3. TypeOK'
  BY <1>1, <1>2 DEF TypeOK, memory, reclaimer
<1>4. /\ pc'[t] = "recheck"
      /\ \A u \in Readers : u # t => pc'[u] = pc[u]
  BY <1>1, <1>2 DEF TypeOK
<1>5. CallOk(t)'
  BY <1>1, <1>2, <1>4 DEF CallsOk, CallOk, Announced, Settled, memory
<1> QED BY <1>2, <1>3, <1>4, <1>5, ControlStep

(* A changed source gives no reference.                                     *)
LEMMA RecheckChangedStep ==
  ASSUME IInv, NEW t \in Readers, RecheckChanged(t)
  PROVE  IInv'
<1>1. TypeOK /\ CallsOk
  BY DEF IInv
<1>2. /\ pc[t] = "recheck" /\ pc' = [pc EXCEPT ![t] = "withdraw"]
      /\ p' = [p EXCEPT ![t] = src[from[t]]]
      /\ UNCHANGED <<fence, src, memory, slots, listed, i, from, goal, out, state,
                     swaps, reclaimer>>
  BY DEF RecheckChanged, Goto
<1>3. TypeOK'
  BY <1>1, <1>2 DEF TypeOK, memory, reclaimer
<1>4. /\ pc'[t] = "withdraw"
      /\ \A u \in Readers : u # t => pc'[u] = pc[u] /\ p'[u] = p[u]
  BY <1>1, <1>2 DEF TypeOK
<1>5. CallOk(t)'
  BY <1>1, <1>2, <1>4 DEF CallsOk, CallOk
<1> QED BY <1>2, <1>3, <1>4, <1>5, ControlStep

(* reset_protection and the drops give all references up first.             *)
LEMMA DropStep ==
  ASSUME IInv, NEW t \in Readers, Drop(t)
  PROVE  IInv'
<1>1. TypeOK
  BY DEF IInv
<1>2. Len(slots[t]) \in Nat
  BY <1>1 DEF TypeOK
<1>3. /\ NoReferences(Len(slots[t])) \in Seq(Ptrs)
      /\ Len(NoReferences(Len(slots[t]))) = Len(slots[t])
      /\ \A k \in 1 .. Len(slots[t]) : NoReferences(Len(slots[t]))[k] = Null
  BY <1>2, NoReferencesProps
<1>4. /\ pc[t] = "idle" /\ pc' = [pc EXCEPT ![t] = "clear"]
      /\ out' = [out EXCEPT ![t] = NoReferences(Len(slots[t]))]
      /\ \E g \in {"idle", "release", "panicked"} : goal' = [goal EXCEPT ![t] = g]
      /\ UNCHANGED <<fence, src, memory, slots, listed, i, from, p, state, swaps,
                     reclaimer>>
  BY DEF Drop, Goto
<1>5. TypeOK'
  BY <1>1, <1>3, <1>4 DEF TypeOK, memory, reclaimer
<1>6. /\ out'[t] = NoReferences(Len(slots[t])) /\ pc'[t] = "clear"
      /\ \A u \in Readers : u # t => pc'[u] = pc[u] /\ out'[u] = out[u]
  BY <1>1, <1>4 DEF TypeOK
<1>7. \A k \in 1 .. Len(out'[t]) : out'[t][k] = Null
  BY <1>3, <1>6
<1>8. CallOk(t)'
  BY <1>6, <1>7 DEF CallOk
<1> QED BY <1>4, <1>5, <1>6, <1>7, <1>8, ControlStep

(* The step that gives a reference.  What the source holds is alive and so  *)
(* in no batch: the announcement is early enough for every later scan.      *)
LEMMA RecheckSameStep ==
  ASSUME IInv, NEW t \in Readers, RecheckSame(t)
  PROVE  IInv'
<1>1. TypeOK /\ CallsOk /\ AllHeldOk /\ ObjectsOk
  BY DEF IInv
<1>2. /\ pc[t] = "recheck" /\ src[from[t]] = p[t]
      /\ out' = [out EXCEPT ![t][i[t]] = p[t]]
      /\ p' = [p EXCEPT ![t] = Null]
      /\ \/ /\ i[t] < Len(slots[t])
            /\ i' = [i EXCEPT ![t] = @ + 1] /\ pc' = [pc EXCEPT ![t] = "load"]
         \/ i' = [i EXCEPT ![t] = 1] /\ pc' = [pc EXCEPT ![t] = "idle"]
      /\ UNCHANGED <<fence, src, memory, slots, listed, from, goal, state, swaps,
                     reclaimer>>
  BY DEF RecheckSame, Goto
<1>3. /\ slots \in [Readers -> Seq(Recs)] /\ out \in [Readers -> Seq(Ptrs)]
      /\ p[t] \in Ptrs /\ from[t] \in Sources
      /\ Len(out[t]) = Len(slots[t]) /\ Len(slots[t]) \in Nat
      /\ i[t] \in 1 .. Len(slots[t])
  BY <1>1, <1>2 DEF TypeOK
<1>4. /\ out'[t] = [out[t] EXCEPT ![i[t]] = p[t]]
      /\ \A u \in Readers : u # t => /\ out'[u] = out[u] /\ pc'[u] = pc[u]
                                     /\ i'[u] = i[u] /\ p'[u] = p[u]
  BY <1>1, <1>2 DEF TypeOK
<1>5. /\ out'[t] \in Seq(Ptrs) /\ Len(out'[t]) = Len(out[t])
      /\ out'[t][i[t]] = p[t]
      /\ \A k \in 1 .. Len(out[t]) : k # i[t] => out'[t][k] = out[t][k]
  BY <1>3, <1>4
<1>6. TypeOK'
  <2>1. out' \in [Readers -> Seq(Ptrs)]
    BY <1>2, <1>3, <1>4, <1>5
  <2>2. p' \in [Readers -> Ptrs]
    BY <1>1, <1>2 DEF TypeOK, Ptrs
  <2>a. pc' \in [Readers -> {"none", "idle", "load", "announce", "fence", "recheck",
                             "withdraw", "clear", "release", "panicked"}]
    BY <1>1, <1>2 DEF TypeOK
  <2>b. i \in [Readers -> Nat] /\ i[t] + 1 \in Nat
    BY <1>1 DEF TypeOK
  <2>3. i' \in [Readers -> Nat]
    BY <1>2, <2>b
  <2>4. /\ pc'[t] \in {"load", "idle"} /\ i'[t] \in 1 .. Len(slots[t])
    BY <1>1, <1>2, <1>3 DEF TypeOK
  <2>5. \A u \in Readers :
          /\ Len(out'[u]) = Len(slots'[u])
          /\ IF slots'[u] = <<>> THEN pc'[u] = "none" /\ i'[u] = 1
             ELSE pc'[u] # "none" /\ i'[u] \in 1 .. Len(slots'[u])
    <3> SUFFICES ASSUME NEW u \in Readers
                 PROVE  /\ Len(out'[u]) = Len(slots[u])
                        /\ IF slots[u] = <<>> THEN pc'[u] = "none" /\ i'[u] = 1
                           ELSE pc'[u] # "none" /\ i'[u] \in 1 .. Len(slots[u])
      BY <1>2
    <3>1. CASE u = t
      BY <1>3, <1>5, <2>4, <3>1
    <3>2. CASE u # t
      BY <1>1, <1>4, <3>2 DEF TypeOK
    <3> QED BY <3>1, <3>2
  <2> QED BY <1>1, <1>2, <2>1, <2>2, <2>3, <2>5, <2>a DEF TypeOK, memory, reclaimer
<1>7. SlotsApart' /\ StoresOwned' /\ ObjectsOk' /\ BarrierOk'
  BY <1>2, QuietStep
<1>8. CallsOk'
  <2> SUFFICES ASSUME NEW u \in Readers
               PROVE  CallOk(u)'
    BY DEF CallsOk
  <2>1. CASE u = t
    <3>1. \A k \in i[t] .. Len(out[t]) : out[t][k] = Null
      BY <1>1, <1>2 DEF CallsOk, CallOk
    <3>2. \/ pc'[t] = "load" /\ i'[t] = i[t] + 1
          \/ pc'[t] = "idle"
      BY <1>1, <1>2 DEF TypeOK
    <3>3. pc'[t] = "load" => \A k \in i'[t] .. Len(out'[t]) : out'[t][k] = Null
      BY <1>3, <1>5, <3>1, <3>2
    <3> QED BY <2>1, <3>2, <3>3 DEF CallOk
  <2>2. CASE u # t
    BY <1>1, <1>2, <1>4, <2>2, CallOkUnchanged DEF CallsOk, memory
  <2> QED BY <2>1, <2>2
<1>9. AllHeldOk'
  <2> SUFFICES ASSUME NEW u \in Readers, NEW k \in 1 .. Len(out'[u]), out'[u][k] # Null
               PROVE  HeldOk(u, k)'
    BY DEF AllHeldOk, HeldOk
  <2>1. CASE u # t \/ k # i[t]
    <3>1. out'[u][k] = out[u][k] /\ k \in 1 .. Len(out[u])
      BY <1>4, <1>5, <2>1
    <3>2. HeldOk(u, k)
      BY <1>1, <3>1 DEF AllHeldOk
    <3> QED BY <1>2, <3>1, <3>2, HeldOkUnchanged
  <2>2. CASE u = t /\ k = i[t]
    <3>1. p[t] # Null /\ out'[t][k] = p[t]
      BY <1>5, <2>2
    <3>2. state[p[t]] = "live"
      BY <1>1, <1>2, <1>3, <3>1 DEF ObjectsOk
    <3>3. p[t] \notin batch
      BY <1>1, <3>2 DEF ObjectsOk
    <3>4. Announced(t, slots[t][k], p[t]) /\ (fence => Settled(t, slots[t][k]))
      BY <1>1, <1>2, <2>2 DEF CallsOk, CallOk, Settled
    <3>5. UNCHANGED <<fence, ptr, buf, slots, state, batch>>
      BY <1>2 DEF memory, reclaimer
    <3>6. Announced(t, slots[t][k], out[t][k])' /\ (fence' => Settled(t, slots[t][k])')
      BY <3>1, <3>4, <3>5 DEF Announced, Settled
    <3> QED BY <2>2, <3>1, <3>2, <3>3, <3>5, <3>6 DEF HeldOk
  <2> QED BY <2>1, <2>2
<1> QED BY <1>6, <1>7, <1>8, <1>9 DEF IInv

(* A reader's store and where its call goes on.                             *)
LEMMA StoringStep ==
  ASSUME IInv, NEW t \in Readers, NEW v \in Ptrs,
         Store(t, slots[t][i[t]], v),
         pc[t] \in {"announce", "withdraw", "clear"},
         UNCHANGED <<fence, src, slots, listed, from, p, out, state, swaps, reclaimer>>,
         pc' \in [Readers -> {"none", "idle", "load", "announce", "fence", "recheck",
                              "withdraw", "clear", "release", "panicked"}],
         i' \in [Readers -> Nat],
         goal' \in [Readers -> {"idle", "release", "panicked"}],
         pc'[t] # "none", i'[t] \in 1 .. Len(slots[t]),
         \A u \in Readers : u # t => pc'[u] = pc[u] /\ i'[u] = i[u],
         CallOk(t)'
  PROVE  IInv'
<1>1. TypeOK /\ CallsOk
  BY DEF IInv
<1>2. i[t] \in 1 .. Len(slots[t]) /\ Len(out[t]) = Len(slots[t])
      /\ Len(slots[t]) \in Nat /\ slots[t] # <<>>
  BY <1>1 DEF TypeOK
<1>3. out[t][i[t]] = Null
  BY <1>1, <1>2 DEF CallsOk, CallOk
<1>4. /\ buf' \in [Readers -> Seq(Cells)] /\ ptr' = ptr
      /\ SlotsApart' /\ StoresOwned' /\ ObjectsOk' /\ BarrierOk' /\ AllHeldOk'
  BY <1>2, <1>3, StoreStep
<1>5. \A u \in Readers :
        /\ Len(out[u]) = Len(slots[u])
        /\ IF slots[u] = <<>> THEN pc'[u] = "none" /\ i'[u] = 1
           ELSE pc'[u] # "none" /\ i'[u] \in 1 .. Len(slots[u])
  BY <1>1, <1>2 DEF TypeOK
<1>6. TypeOK'
  BY <1>1, <1>4, <1>5 DEF TypeOK, Cells, reclaimer
<1>7. CallsOk'
  <2> SUFFICES ASSUME NEW u \in Readers, u # t
               PROVE  CallOk(u)'
    BY DEF CallsOk
  <2>1. PICK q \in Recs : q = slots[t][i[t]]
    BY <1>1, <1>2 DEF TypeOK
  <2>2. buf'[u] = buf[u]
    BY <1>1, <2>1, StoreProps
  <2> QED BY <1>1, <1>4, <2>2, CallOkUnchanged DEF CallsOk
<1> QED BY <1>4, <1>6, <1>7 DEF IInv

(* The announcement is in place when the source is read again.              *)
LEMMA AnnounceStep ==
  ASSUME IInv, NEW t \in Readers, Announce(t)
  PROVE  IInv'
<1>1. TypeOK /\ CallsOk
  BY DEF IInv
<1>2. PICK v \in Ptrs : v = p[t]
  BY <1>1 DEF TypeOK
<1>3. /\ pc[t] = "announce" /\ Store(t, slots[t][i[t]], v)
      /\ pc' = [pc EXCEPT ![t] = IF fence THEN "fence" ELSE "recheck"]
      /\ UNCHANGED <<fence, src, slots, listed, i, from, p, goal, out, state, swaps,
                     reclaimer>>
  BY <1>2 DEF Announce, Goto
<1>4. /\ pc'[t] = IF fence THEN "fence" ELSE "recheck"
      /\ \A u \in Readers : u # t => pc'[u] = pc[u]
  BY <1>1, <1>3 DEF TypeOK
<1>5. i[t] \in 1 .. Len(slots[t])
  BY <1>1, <1>3 DEF TypeOK
<1>6. PICK q \in Recs : q = slots[t][i[t]]
  BY <1>1, <1>5 DEF TypeOK
<1>7. Announced(t, q, v)'
  BY <1>1, <1>3, <1>6, StoreAnnounces
<1>8. Announced(t, slots[t][i[t]], p[t])'
  BY <1>2, <1>3, <1>6, <1>7 DEF Announced, Settled
<1>9. CallOk(t)'
  BY <1>1, <1>3, <1>4, <1>8 DEF CallsOk, CallOk
<1>10. /\ pc' \in [Readers -> {"none", "idle", "load", "announce", "fence", "recheck",
                               "withdraw", "clear", "release", "panicked"}]
       /\ i' \in [Readers -> Nat]
       /\ goal' \in [Readers -> {"idle", "release", "panicked"}]
  BY <1>1, <1>3 DEF TypeOK
<1> QED BY <1>3, <1>4, <1>5, <1>9, <1>10, StoringStep

(* The announcement withdrawn is one that no reference needs.               *)
LEMMA WithdrawStep ==
  ASSUME IInv, NEW t \in Readers, Withdraw(t)
  PROVE  IInv'
<1>1. TypeOK /\ CallsOk
  BY DEF IInv
<1>2. /\ pc[t] = "withdraw" /\ Store(t, slots[t][i[t]], Null)
      /\ pc' = [pc EXCEPT ![t] = "announce"]
      /\ UNCHANGED <<fence, src, slots, listed, i, from, p, goal, out, state, swaps,
                     reclaimer>>
  BY DEF Withdraw, Goto
<1>3. Null \in Ptrs
  BY DEF Ptrs
<1>4. /\ pc'[t] = "announce" /\ i[t] \in 1 .. Len(slots[t])
      /\ \A u \in Readers : u # t => pc'[u] = pc[u]
  BY <1>1, <1>2 DEF TypeOK
<1>5. CallOk(t)'
  BY <1>1, <1>2, <1>4 DEF CallsOk, CallOk
<1>6. /\ pc' \in [Readers -> {"none", "idle", "load", "announce", "fence", "recheck",
                              "withdraw", "clear", "release", "panicked"}]
      /\ i' \in [Readers -> Nat]
      /\ goal' \in [Readers -> {"idle", "release", "panicked"}]
  BY <1>1, <1>2 DEF TypeOK
<1> QED BY <1>2, <1>3, <1>4, <1>5, <1>6, StoringStep

(* So are those that reset_protection and the drops reset.                  *)
LEMMA ClearSlotStep ==
  ASSUME IInv, NEW t \in Readers, ClearSlot(t)
  PROVE  IInv'
<1>1. TypeOK /\ CallsOk
  BY DEF IInv
<1>2. /\ pc[t] = "clear" /\ Store(t, slots[t][i[t]], Null)
      /\ UNCHANGED <<fence, src, slots, listed, from, p, out, state, swaps, reclaimer>>
  BY DEF ClearSlot
<1>3. Null \in Ptrs
  BY DEF Ptrs
<1>4. /\ i[t] \in 1 .. Len(slots[t]) /\ Len(slots[t]) \in Nat /\ i \in [Readers -> Nat]
      /\ goal[t] \in {"idle", "release", "panicked"}
  BY <1>1, <1>2 DEF TypeOK
<1>5. \/ /\ i[t] < Len(slots[t])
         /\ i' = [i EXCEPT ![t] = i[t] + 1] /\ pc' = pc /\ goal' = goal
      \/ /\ i' = [i EXCEPT ![t] = 1] /\ pc' = [pc EXCEPT ![t] = goal[t]]
         /\ goal' = [goal EXCEPT ![t] = "idle"]
  BY DEF ClearSlot, Goto
<1>6. i[t] + 1 \in Nat
  BY <1>4
<1>7. /\ i' \in [Readers -> Nat]
      /\ i'[t] \in 1 .. Len(slots[t])
      /\ \A u \in Readers : u # t => i'[u] = i[u]
  BY <1>4, <1>5, <1>6
<1>8. /\ pc' \in [Readers -> {"none", "idle", "load", "announce", "fence", "recheck",
                              "withdraw", "clear", "release", "panicked"}]
      /\ pc'[t] \in {"clear", "idle", "release", "panicked"}
      /\ \A u \in Readers : u # t => pc'[u] = pc[u]
  BY <1>1, <1>2, <1>4, <1>5 DEF TypeOK
<1>9. goal' \in [Readers -> {"idle", "release", "panicked"}]
  BY <1>1, <1>5 DEF TypeOK
<1>10. pc'[t] = "release" => i'[t] = 1
  BY <1>1, <1>2, <1>4, <1>5 DEF TypeOK
<1>11. CallOk(t)'
  BY <1>1, <1>2, <1>8, <1>10 DEF CallsOk, CallOk
<1> QED BY <1>2, <1>3, <1>7, <1>8, <1>9, <1>11, StoringStep

(* A handle is released with its buffer empty and its references gone.      *)
LEMMA ReleaseStep ==
  ASSUME IInv, NEW t \in Readers, Release(t)
  PROVE  IInv'
<1>1. TypeOK /\ SlotsApart /\ StoresOwned /\ ObjectsOk /\ BarrierOk /\ CallsOk /\ AllHeldOk
  BY DEF IInv
<1>2. /\ pc[t] = "release" /\ buf[t] = <<>>
      /\ slots' = [slots EXCEPT ![t] = <<>>]
      /\ out' = [out EXCEPT ![t] = <<>>]
      /\ pc' = [pc EXCEPT ![t] = "none"]
      /\ UNCHANGED <<fence, src, memory, listed, i, from, p, goal, state, swaps,
                     reclaimer>>
  BY DEF Release, Goto
<1>3. /\ slots'[t] = <<>> /\ out'[t] = <<>> /\ pc'[t] = "none"
      /\ \A u \in Readers : u # t => /\ slots'[u] = slots[u] /\ out'[u] = out[u]
                                     /\ pc'[u] = pc[u]
  BY <1>1, <1>2 DEF TypeOK
<1>4. TypeOK'
  <2>1. <<>> \in Seq(Recs) /\ <<>> \in Seq(Ptrs) /\ Len(<<>>) = 0
    OBVIOUS
  <2>2. i[t] = 1
    BY <1>1, <1>2 DEF CallsOk, CallOk
  <2>3. slots' \in [Readers -> Seq(Recs)] /\ out' \in [Readers -> Seq(Ptrs)]
    BY <1>1, <1>2, <2>1 DEF TypeOK
  <2>4. \A u \in Readers :
          /\ Len(out'[u]) = Len(slots'[u])
          /\ IF slots'[u] = <<>> THEN pc'[u] = "none" /\ i'[u] = 1
             ELSE pc'[u] # "none" /\ i'[u] \in 1 .. Len(slots'[u])
    BY <1>1, <1>2, <1>3, <2>2 DEF TypeOK
  <2>5. pc' \in [Readers -> {"none", "idle", "load", "announce", "fence", "recheck",
                             "withdraw", "clear", "release", "panicked"}]
    BY <1>1, <1>2 DEF TypeOK
  <2> QED BY <1>1, <1>2, <2>3, <2>4, <2>5 DEF TypeOK, memory, reclaimer
<1>5. SlotsApart'
  <2>1. \A u \in Readers : \A k \in 1 .. Len(slots'[u]) :
          u # t /\ slots'[u] = slots[u]
    BY <1>3
  <2> QED BY <1>1, <1>2, <2>1 DEF SlotsApart
<1>6. StoresOwned'
  <2> SUFFICES ASSUME NEW u \in Readers
               PROVE  /\ Len(buf[u]) <= MaxBuf
                      /\ \A j \in 1 .. Len(buf[u]) :
                           \E k \in 1 .. Len(slots'[u]) : buf[u][j].rec = slots'[u][k]
    BY <1>2 DEF StoresOwned, memory
  <2>1. CASE u = t
    BY <1>2, <2>1, BoundAssumption
  <2>2. CASE u # t
    <3>1. slots'[u] = slots[u]
      BY <1>3, <2>2
    <3> QED BY <1>1, <3>1 DEF StoresOwned
  <2> QED BY <2>1, <2>2
<1>7. ObjectsOk' /\ BarrierOk'
  BY <1>1, <1>2 DEF ObjectsOk, BarrierOk, memory, reclaimer
<1>8. CallsOk'
  <2> SUFFICES ASSUME NEW u \in Readers
               PROVE  CallOk(u)'
    BY DEF CallsOk
  <2>1. CASE u = t
    BY <1>3, <2>1 DEF CallOk
  <2>2. CASE u # t
    BY <1>1, <1>2, <1>3, <2>2, CallOkUnchanged DEF CallsOk, memory
  <2> QED BY <2>1, <2>2
<1>9. AllHeldOk'
  <2> SUFFICES ASSUME NEW u \in Readers, NEW k \in 1 .. Len(out'[u])
               PROVE  HeldOk(u, k)'
    BY DEF AllHeldOk
  <2>1. u # t
    BY <1>3
  <2>2. out'[u] = out[u] /\ slots'[u] = slots[u]
    BY <1>3, <2>1
  <2>3. HeldOk(u, k)
    BY <1>1, <2>2 DEF AllHeldOk
  <2> QED BY <1>2, <2>2, <2>3 DEF HeldOk, Announced, Settled, memory, reclaimer
<1> QED BY <1>4, <1>5, <1>6, <1>7, <1>8, <1>9 DEF IInv

-----------------------------------------------------------------------------
(* Memory                                                                   *)

(* When memory takes a store of t, every announcement stays: of t, because  *)
(* the store was the announcement or was to another record; of another      *)
(* reader, because t stores to records of its own only.                     *)
LEMMA DrainProps ==
  ASSUME IInv, NEW t \in Readers, Drain(t)
  PROVE  /\ buf' \in [Readers -> Seq(Cells)] /\ ptr' \in [Recs -> Ptrs]
         /\ Len(buf[t]) \in Nat \ {0}
         /\ Len(buf'[t]) = Len(buf[t]) - 1
         /\ \A j \in 1 .. Len(buf[t]) - 1 : buf'[t][j] = buf[t][j + 1]
         /\ buf[t][1] \in Cells
         /\ ptr' = [ptr EXCEPT ![buf[t][1].rec] = buf[t][1].val]
         /\ \A u \in Readers : u # t => buf'[u] = buf[u]
<1>1. buf \in [Readers -> Seq(Cells)] /\ ptr \in [Recs -> Ptrs] /\ buf[t] # <<>>
  BY DEF IInv, TypeOK, Cells, Drain
<1>2. buf' = [buf EXCEPT ![t] = Tail(@)]
  BY DEF Drain
<1>3. buf'[t] = Tail(buf[t]) /\ \A u \in Readers : u # t => buf'[u] = buf[u]
  BY <1>1, <1>2
<1>4. buf[t] \in Seq(Cells)
  BY <1>1
<1>5. /\ Tail(buf[t]) \in Seq(Cells) /\ Len(buf[t]) \in Nat \ {0}
      /\ Len(Tail(buf[t])) = Len(buf[t]) - 1
      /\ \A j \in 1 .. Len(buf[t]) - 1 : Tail(buf[t])[j] = buf[t][j + 1]
      /\ Head(buf[t]) = buf[t][1] /\ Head(buf[t]) \in Cells
  BY <1>1, <1>4, TailProps
<1>6. ptr' = [ptr EXCEPT ![buf[t][1].rec] = buf[t][1].val]
  BY <1>5 DEF Drain
<1>7. buf[t][1].rec \in Recs /\ buf[t][1].val \in Ptrs
  BY <1>5 DEF Cells
<1>8. ptr' \in [Recs -> Ptrs]
  BY <1>1, <1>6, <1>7
<1>9. buf' \in [Readers -> Seq(Cells)]
  BY <1>1, <1>2, <1>5
<1> QED BY <1>3, <1>5, <1>6, <1>8, <1>9

(* What is announced in a record of a handle stays announced.               *)
LEMMA DrainKeeps ==
  ASSUME IInv, NEW t \in Readers, Drain(t),
         NEW u \in Readers, NEW k \in 1 .. Len(slots[u]), NEW r \in Recs, NEW o \in Ptrs,
         r = slots[u][k]
  PROVE  /\ Settled(u, r) => Settled(u, r)'
         /\ Announced(u, r, o) => Announced(u, r, o)'
<1>1. TypeOK /\ SlotsApart /\ StoresOwned
  BY DEF IInv
<1>2. /\ Len(buf[t]) \in Nat \ {0}
      /\ Len(buf'[t]) = Len(buf[t]) - 1
      /\ \A j \in 1 .. Len(buf[t]) - 1 : buf'[t][j] = buf[t][j + 1]
      /\ ptr' = [ptr EXCEPT ![buf[t][1].rec] = buf[t][1].val]
      /\ \A w \in Readers : w # t => buf'[w] = buf[w]
  BY DrainProps
<1>3. ptr \in [Recs -> Ptrs]
  BY <1>1 DEF TypeOK
<1>4. CASE u # t
  <2>1. PICK m \in 1 .. Len(slots[t]) : buf[t][1].rec = slots[t][m]
    BY <1>1, <1>2 DEF StoresOwned
  <2>2. buf[t][1].rec # r
    BY <1>1, <1>4, <2>1 DEF SlotsApart
  <2>3. ptr'[r] = ptr[r] /\ buf'[u] = buf[u]
    BY <1>2, <1>3, <1>4, <2>2
  <2> QED BY <2>3 DEF Announced, Settled
<1>5. CASE u = t
  <2>1. Settled(t, r) => Settled(t, r)'
    BY <1>2 DEF Settled
  <2>2. ASSUME ptr[r] = o, Settled(t, r)
        PROVE  Announced(t, r, o)'
    <3>1. buf[t][1].rec # r
      BY <1>2, <2>2 DEF Settled
    <3>2. ptr'[r] = o
      BY <1>2, <1>3, <2>2, <3>1
    <3> QED BY <2>1, <2>2, <3>2 DEF Announced
  <2>3. ASSUME NEW j \in 1 .. Len(buf[t]), buf[t][j].rec = r, buf[t][j].val = o,
               \A m \in j + 1 .. Len(buf[t]) : buf[t][m].rec # r
        PROVE  Announced(t, r, o)'
    <3>1. CASE j = 1
      <4>1. ptr'[r] = o
        BY <1>2, <1>3, <2>3, <3>1
      <4>2. Settled(t, r)'
        BY <1>2, <2>3, <3>1 DEF Settled
      <4> QED BY <4>1, <4>2 DEF Announced
    <3>2. CASE j > 1
      <4>1. /\ j - 1 \in 1 .. Len(buf'[t])
            /\ buf'[t][j - 1].rec = r /\ buf'[t][j - 1].val = o
        <5>1. j - 1 \in 1 .. Len(buf[t]) - 1 /\ (j - 1) + 1 = j
          BY <1>2, <3>2
        <5>2. buf'[t][j - 1] = buf[t][j]
          BY <1>2, <5>1
        <5> QED BY <1>2, <2>3, <5>1, <5>2
      <4>2. \A m \in (j - 1) + 1 .. Len(buf'[t]) : buf'[t][m].rec # r
        BY <1>2, <2>3, <3>2
      <4> QED BY <4>1, <4>2 DEF Announced
    <3> QED BY <1>2, <3>1, <3>2
  <2>4. Announced(t, r, o) => Announced(t, r, o)'
    BY <2>2, <2>3 DEF Announced
  <2> QED BY <1>5, <2>1, <2>4
<1> QED BY <1>4, <1>5

(* Memory takes a store of a reader, which the barrier may wait for.        *)
LEMMA DrainStep ==
  ASSUME IInv, NEW t \in Readers, Drain(t)
  PROVE  IInv'
<1>1. TypeOK /\ SlotsApart /\ StoresOwned /\ ObjectsOk /\ BarrierOk /\ CallsOk /\ AllHeldOk
  BY DEF IInv
<1>2. /\ buf' \in [Readers -> Seq(Cells)] /\ ptr' \in [Recs -> Ptrs]
      /\ Len(buf[t]) \in Nat \ {0}
      /\ Len(buf'[t]) = Len(buf[t]) - 1
      /\ \A j \in 1 .. Len(buf[t]) - 1 : buf'[t][j] = buf[t][j + 1]
      /\ \A u \in Readers : u # t => buf'[u] = buf[u]
  BY DrainProps
<1>3. /\ due' = [due EXCEPT ![t] = IF @ > 0 THEN @ - 1 ELSE 0]
      /\ UNCHANGED <<fence, src, reader, state, swaps, rpc, batch, unread, guards>>
  BY DEF Drain
<1>4. due \in [Readers -> 0 .. MaxBuf] /\ MaxBuf \in Nat
  BY <1>1, BoundAssumption DEF TypeOK
<1>5. /\ due'[t] = IF due[t] > 0 THEN due[t] - 1 ELSE 0
      /\ \A u \in Readers : u # t => due'[u] = due[u]
  BY <1>3, <1>4
<1>6. due' \in [Readers -> 0 .. MaxBuf]
  <2>1. (IF due[t] > 0 THEN due[t] - 1 ELSE 0) \in 0 .. MaxBuf
    BY <1>4
  <2> QED BY <1>3, <1>4, <2>1
<1>7. TypeOK'
  BY <1>1, <1>2, <1>3, <1>6 DEF TypeOK, Cells, reader
<1>8. SlotsApart' /\ ObjectsOk'
  BY <1>1, <1>3 DEF SlotsApart, ObjectsOk, reader
<1>9. StoresOwned'
  <2> SUFFICES ASSUME NEW u \in Readers
               PROVE  /\ Len(buf'[u]) <= MaxBuf
                      /\ \A j \in 1 .. Len(buf'[u]) :
                           \E k \in 1 .. Len(slots[u]) : buf'[u][j].rec = slots[u][k]
    BY <1>3 DEF StoresOwned, reader
  <2>1. CASE u = t
    <3>1. Len(buf[t]) <= MaxBuf
      BY <1>1 DEF StoresOwned
    <3>2. Len(buf'[t]) <= MaxBuf
      BY <1>2, <1>4, <3>1
    <3>3. ASSUME NEW j \in 1 .. Len(buf'[t])
          PROVE  \E k \in 1 .. Len(slots[t]) : buf'[t][j].rec = slots[t][k]
      <4>1. j + 1 \in 1 .. Len(buf[t]) /\ buf'[t][j] = buf[t][j + 1]
        BY <1>2
      <4> QED BY <1>1, <4>1 DEF StoresOwned
    <3> QED BY <2>1, <3>2, <3>3
  <2>2. CASE u # t
    <3>1. buf'[u] = buf[u]
      BY <1>2, <2>2
    <3> QED BY <1>1, <3>1 DEF StoresOwned
  <2> QED BY <2>1, <2>2
<1>10. BarrierOk'
  <2>1. \A u \in Readers : due[u] <= Len(buf[u])
    BY <1>1 DEF BarrierOk
  <2>2. due[t] <= Len(buf[t]) /\ due[t] \in Nat
    BY <1>4, <2>1
  <2>3. due'[t] <= Len(buf'[t])
    BY <1>2, <1>5, <2>2
  <2>4. \A u \in Readers : due'[u] <= Len(buf'[u])
    BY <1>2, <1>5, <2>1, <2>3
  <2>5. rpc' # "wait" => \A u \in Readers : due'[u] = 0
    BY <1>1, <1>3, <1>5 DEF BarrierOk
  <2> QED BY <2>4, <2>5 DEF BarrierOk
<1>11. UNCHANGED <<slots, pc, i, p, out, fence>>
  BY <1>3 DEF reader
<1>12. CallsOk'
  <2> SUFFICES ASSUME NEW u \in Readers
               PROVE  CallOk(u)'
    BY DEF CallsOk
  <2>1. CallOk(u)
    BY <1>1 DEF CallsOk
  <2>2. pc[u] \in {"fence", "recheck"} => Announced(u, slots[u][i[u]], p[u])'
    <3> SUFFICES ASSUME pc[u] \in {"fence", "recheck"}
                 PROVE  Announced(u, slots[u][i[u]], p[u])'
      OBVIOUS
    <3>1. i[u] \in 1 .. Len(slots[u]) /\ slots[u] \in Seq(Recs) /\ p[u] \in Ptrs
      BY <1>1 DEF TypeOK
    <3>2. PICK k \in 1 .. Len(slots[u]), r \in Recs, o \in Ptrs :
            k = i[u] /\ r = slots[u][k] /\ o = p[u]
      BY <3>1
    <3>3. Announced(u, r, o)
      BY <2>1, <3>2 DEF CallOk
    <3>4. Announced(u, r, o)'
      BY <3>2, <3>3, DrainKeeps
    <3> QED BY <1>11, <3>2, <3>4 DEF Announced, Settled
  <2>3. buf[u] = <<>> => buf'[u] = <<>>
    BY <1>2
  <2> QED BY <1>11, <2>1, <2>2, <2>3 DEF CallOk
<1>13. AllHeldOk'
  <2> SUFFICES ASSUME NEW u \in Readers, NEW k \in 1 .. Len(out[u]), out[u][k] # Null
               PROVE  HeldOk(u, k)'
    BY <1>11 DEF AllHeldOk, HeldOk
  <2>1. out[u][k] \in Ptrs /\ slots[u][k] \in Recs /\ k \in 1 .. Len(slots[u])
    BY <1>1 DEF TypeOK
  <2>2. PICK o \in Ptrs, r \in Recs : o = out[u][k] /\ r = slots[u][k]
    BY <2>1
  <2>3. /\ state[o] # "free" /\ Announced(u, r, o)
        /\ fence => Settled(u, r)
        /\ o \in batch /\ rpc \in {"wait", "scan"} =>
             \A j \in 1 .. Len(buf[u]) : buf[u][j].rec = r => j <= due[u]
        /\ o \in batch /\ rpc = "scan" => r \in unread \/ o \in guards
    BY <1>1, <2>2 DEF AllHeldOk, HeldOk
  <2>4. Announced(u, r, o)' /\ (fence => Settled(u, r)')
    BY <2>1, <2>2, <2>3, DrainKeeps
  <2>5. ASSUME o \in batch, rpc \in {"wait", "scan"},
               NEW j \in 1 .. Len(buf'[u]), buf'[u][j].rec = r
        PROVE  j <= due'[u]
    <3>1. CASE u = t
      <4>1. j + 1 \in 1 .. Len(buf[t]) /\ buf'[t][j] = buf[t][j + 1]
        BY <1>2, <3>1
      <4>2. j + 1 <= due[t] /\ due[t] \in Nat
        BY <1>4, <2>3, <2>5, <3>1, <4>1
      <4> QED BY <1>5, <3>1, <4>2
    <3>2. CASE u # t
      BY <1>2, <1>5, <2>3, <2>5, <3>2
    <3> QED BY <3>1, <3>2
  <2>6. /\ out'[u][k] = o /\ slots'[u][k] = r /\ state' = state /\ fence' = fence
        /\ batch' = batch /\ rpc' = rpc /\ unread' = unread /\ guards' = guards
    BY <1>3, <1>11, <2>2
  <2>7. Announced(u, slots[u][k], out[u][k])' /\ (fence' => Settled(u, slots[u][k])')
    BY <2>4, <2>6 DEF Announced, Settled
  <2> QED BY <2>3, <2>5, <2>6, <2>7 DEF HeldOk
<1> QED BY <1>7, <1>8, <1>9, <1>10, <1>12, <1>13 DEF IInv

-----------------------------------------------------------------------------
(* The environment                                                          *)

(* A step that leaves the readers and memory alone.                         *)
LEMMA EnvironmentStep ==
  ASSUME IInv, UNCHANGED <<fence, memory, reader>>
  PROVE  SlotsApart' /\ StoresOwned' /\ CallsOk'
<1>1. UNCHANGED <<ptr, buf, slots, listed, pc, i, p, out, fence>>
  BY DEF memory, reader
<1>2. SlotsApart'
  BY <1>1 DEF IInv, SlotsApart
<1>3. StoresOwned'
  <2>1. buf' = buf /\ slots' = slots
    BY <1>1
  <2> QED BY <2>1 DEF IInv, StoresOwned
<1>4. \A u \in Readers : CallOk(u)'
  BY <1>1, CallOkUnchanged DEF IInv, CallsOk
<1> QED BY <1>2, <1>3, <1>4 DEF CallsOk

(* What a reader holds is safe after such a step if the object is not freed *)
(* and the reclaimer is still going to see it.                              *)
LEMMA EnvironmentHeld ==
  ASSUME IInv, UNCHANGED <<fence, memory, reader>>,
         NEW u \in Readers, NEW k \in 1 .. Len(out[u]), out[u][k] # Null,
         state'[out[u][k]] # "free",
         out[u][k] \in batch' /\ rpc' \in {"wait", "scan"} =>
           \A j \in 1 .. Len(buf[u]) : buf[u][j].rec = slots[u][k] => j <= due'[u],
         out[u][k] \in batch' /\ rpc' = "scan" =>
           slots[u][k] \in unread' \/ out[u][k] \in guards'
  PROVE  HeldOk(u, k)'
<1>1. UNCHANGED <<ptr, buf, slots, out, fence>>
  BY DEF memory, reader
<1>2. Announced(u, slots[u][k], out[u][k]) /\ (fence => Settled(u, slots[u][k]))
  BY DEF IInv, AllHeldOk, HeldOk
<1>3. Announced(u, slots[u][k], out[u][k])' /\ (fence' => Settled(u, slots[u][k])')
  BY <1>1, <1>2 DEF Announced, Settled
<1> QED BY <1>1, <1>3 DEF HeldOk

(* A new object in a source is nobody's yet; the old one is retired.        *)
LEMMA SwapStep ==
  ASSUME IInv, NEW s \in Sources, Swap(s)
  PROVE  IInv'
<1>1. TypeOK /\ ObjectsOk /\ BarrierOk /\ AllHeldOk
  BY DEF IInv
<1>2. /\ swaps < MaxSwaps /\ swaps' = swaps + 1
      /\ UNCHANGED <<fence, memory, reader, reclaimer>>
  BY DEF Swap
<1>3. PICK new \in {o \in Objects : state[o] = "free"} \union {Null} :
        /\ new # src[s]
        /\ src' = [src EXCEPT ![s] = new]
        /\ state' = [o \in Objects |-> IF o = new THEN "live"
                                       ELSE IF o = src[s] THEN "retired"
                                       ELSE state[o]]
  BY DEF Swap
<1>4. UNCHANGED <<rpc, batch, due, unread, guards, out, buf, slots>>
  BY <1>2 DEF reclaimer, memory, reader
<1>5. src \in [Sources -> Ptrs] /\ state \in [Objects -> {"free", "live", "retired"}]
      /\ new \in Ptrs /\ batch \subseteq Objects
  BY <1>1, <1>3 DEF TypeOK, Ptrs
<1>6. TypeOK'
  <2>1. src' \in [Sources -> Ptrs] /\ state' \in [Objects -> {"free", "live", "retired"}]
    BY <1>3, <1>5
  <2>2. swaps' \in 0 .. MaxSwaps
    BY <1>1, <1>2, BoundAssumption DEF TypeOK
  <2> QED BY <1>1, <1>2, <2>1, <2>2 DEF TypeOK, memory, reader, reclaimer
<1>7. SlotsApart' /\ StoresOwned' /\ CallsOk'
  BY <1>2, EnvironmentStep
<1>8. BarrierOk'
  BY <1>1, <1>4 DEF BarrierOk
<1>9. ObjectsOk'
  <2>1. /\ src'[s] = new
        /\ \A u \in Sources : u # s => src'[u] = src[u]
    BY <1>3, <1>5
  <2>2. \A u \in Sources : u # s /\ src[u] # Null => src[u] # new /\ src[u] # src[s]
    BY <1>1, <1>3 DEF ObjectsOk
  <2>3. \A u \in Sources : src'[u] # Null => state'[src'[u]] = "live"
    <3> SUFFICES ASSUME NEW u \in Sources, src'[u] # Null
                 PROVE  state'[src'[u]] = "live"
      OBVIOUS
    <3>1. CASE u = s
      BY <1>3, <1>5, <2>1, <3>1 DEF Ptrs
    <3>2. CASE u # s
      <4>1. src'[u] = src[u] /\ src[u] \in Objects /\ state[src[u]] = "live"
        BY <1>1, <1>5, <2>1, <3>2 DEF Ptrs, ObjectsOk
      <4> QED BY <1>3, <2>2, <3>2, <4>1
    <3> QED BY <3>1, <3>2
  <2>4. \A u, w \in Sources : src'[u] = src'[w] /\ src'[u] # Null => u = w
    BY <1>1, <2>1, <2>2 DEF ObjectsOk
  <2>5. \A o \in batch : state'[o] = "retired"
    <3> SUFFICES ASSUME NEW o \in batch PROVE state'[o] = "retired"
      OBVIOUS
    <3>1. o \in Objects /\ state[o] = "retired"
      BY <1>1, <1>5 DEF ObjectsOk
    <3>2. o # new
      BY <1>3, <3>1, NullAssumption
    <3> QED BY <1>3, <3>1, <3>2
  <2>6. rpc' = "idle" => batch' = {}
    BY <1>1, <1>4 DEF ObjectsOk
  <2> QED BY <1>4, <2>3, <2>4, <2>5, <2>6 DEF ObjectsOk
<1>10. AllHeldOk'
  <2> SUFFICES ASSUME NEW u \in Readers, NEW k \in 1 .. Len(out[u]), out[u][k] # Null
               PROVE  HeldOk(u, k)'
    BY <1>4 DEF AllHeldOk, HeldOk
  <2>1. HeldOk(u, k)
    BY <1>1 DEF AllHeldOk
  <2>2. out[u][k] \in Objects
    BY <1>1 DEF TypeOK, Ptrs
  <2>3. state'[out[u][k]] # "free"
    BY <1>3, <2>1, <2>2 DEF HeldOk
  <2>4. /\ out[u][k] \in batch' /\ rpc' \in {"wait", "scan"} =>
             \A j \in 1 .. Len(buf[u]) : buf[u][j].rec = slots[u][k] => j <= due'[u]
        /\ out[u][k] \in batch' /\ rpc' = "scan" =>
             slots[u][k] \in unread' \/ out[u][k] \in guards'
    BY <1>4, <2>1 DEF HeldOk
  <2> QED BY <1>2, <2>3, <2>4, EnvironmentHeld
<1> QED BY <1>6, <1>7, <1>8, <1>9, <1>10 DEF IInv

(* A batch of retired objects has nothing from a source.                    *)
LEMMA StartReclaimStep ==
  ASSUME IInv, StartReclaim
  PROVE  IInv'
<1>1. TypeOK /\ ObjectsOk /\ BarrierOk /\ AllHeldOk
  BY DEF IInv
<1>2. /\ rpc = "idle" /\ batch' = Retired /\ rpc' = "barrier"
      /\ UNCHANGED <<fence, src, memory, reader, state, swaps, due, unread, guards>>
  BY DEF StartReclaim
<1>3. TypeOK'
  BY <1>1, <1>2 DEF TypeOK, Retired, memory, reader
<1>4. SlotsApart' /\ StoresOwned' /\ CallsOk'
  BY <1>2, EnvironmentStep
<1>5. ObjectsOk' /\ BarrierOk'
  BY <1>1, <1>2 DEF ObjectsOk, BarrierOk, Retired, memory
<1>6. AllHeldOk'
  <2> SUFFICES ASSUME NEW u \in Readers, NEW k \in 1 .. Len(out[u]), out[u][k] # Null
               PROVE  HeldOk(u, k)'
    BY <1>2 DEF AllHeldOk, HeldOk, reader
  <2>1. state'[out[u][k]] # "free"
    BY <1>1, <1>2 DEF AllHeldOk, HeldOk
  <2> QED BY <1>2, <2>1, EnvironmentHeld
<1> QED BY <1>3, <1>4, <1>5, <1>6 DEF IInv

(* The barrier waits for all stores that are in a buffer now, or, with a    *)
(* fence in every reader, for none, since no held object needs it.          *)
LEMMA HeavyBarrierStep ==
  ASSUME IInv, HeavyBarrier
  PROVE  IInv'
<1>1. TypeOK /\ StoresOwned /\ ObjectsOk /\ BarrierOk /\ AllHeldOk
  BY DEF IInv
<1>2. /\ rpc = "barrier" /\ rpc' = "wait"
      /\ due' = [t \in Readers |-> IF fence THEN 0 ELSE Len(buf[t])]
      /\ UNCHANGED <<fence, src, memory, reader, state, swaps, batch, unread, guards>>
  BY DEF HeavyBarrier
<1>3. \A u \in Readers : Len(buf[u]) \in 0 .. MaxBuf
  BY <1>1, BoundAssumption DEF TypeOK, StoresOwned
<1>4. due' \in [Readers -> 0 .. MaxBuf] /\ \A u \in Readers : due'[u] <= Len(buf[u])
  BY <1>2, <1>3, BoundAssumption
<1>5. TypeOK'
  BY <1>1, <1>2, <1>4 DEF TypeOK, memory, reader
<1>6. SlotsApart' /\ StoresOwned' /\ CallsOk'
  BY <1>2, EnvironmentStep
<1>7. ObjectsOk' /\ BarrierOk'
  BY <1>1, <1>2, <1>4 DEF ObjectsOk, BarrierOk, memory
<1>8. AllHeldOk'
  <2> SUFFICES ASSUME NEW u \in Readers, NEW k \in 1 .. Len(out[u]), out[u][k] # Null
               PROVE  HeldOk(u, k)'
    BY <1>2 DEF AllHeldOk, HeldOk, reader
  <2>1. HeldOk(u, k)
    BY <1>1 DEF AllHeldOk
  <2>2. \A j \in 1 .. Len(buf[u]) : buf[u][j].rec = slots[u][k] => j <= due'[u]
    <3>1. CASE fence
      BY <2>1, <3>1 DEF HeldOk, Settled
    <3>2. CASE ~fence
      BY <1>2, <1>3, <3>2
    <3> QED BY <3>1, <3>2
  <2>3. state'[out[u][k]] # "free"
    BY <1>2, <2>1 DEF HeldOk
  <2> QED BY <1>2, <2>2, <2>3, EnvironmentHeld
<1> QED BY <1>5, <1>6, <1>7, <1>8 DEF IInv

(* The scan starts with every record of a handle.                           *)
LEMMA StartScanStep ==
  ASSUME IInv, StartScan
  PROVE  IInv'
<1>1. TypeOK /\ SlotsApart /\ ObjectsOk /\ BarrierOk /\ AllHeldOk
  BY DEF IInv
<1>2. /\ rpc = "wait" /\ \A t \in Readers : due[t] = 0
      /\ unread' = listed /\ guards' = {} /\ rpc' = "scan"
      /\ UNCHANGED <<fence, src, memory, reader, state, swaps, batch, due>>
  BY DEF StartScan
<1>3. TypeOK'
  BY <1>1, <1>2 DEF TypeOK, memory, reader
<1>4. SlotsApart' /\ StoresOwned' /\ CallsOk'
  BY <1>2, EnvironmentStep
<1>5. ObjectsOk' /\ BarrierOk'
  BY <1>1, <1>2 DEF ObjectsOk, BarrierOk, memory
<1>6. AllHeldOk'
  <2> SUFFICES ASSUME NEW u \in Readers, NEW k \in 1 .. Len(out[u]), out[u][k] # Null
               PROVE  HeldOk(u, k)'
    BY <1>2 DEF AllHeldOk, HeldOk, reader
  <2>1. HeldOk(u, k)
    BY <1>1 DEF AllHeldOk
  <2>2. k \in 1 .. Len(slots[u])
    BY <1>1 DEF TypeOK
  <2>3. slots[u][k] \in unread'
    BY <1>1, <1>2, <2>2 DEF SlotsApart
  <2>4. state'[out[u][k]] # "free"
    BY <1>2, <2>1 DEF HeldOk
  <2>5. out[u][k] \in batch' =>
          \A j \in 1 .. Len(buf[u]) : buf[u][j].rec = slots[u][k] => j <= due'[u]
    BY <1>2, <2>1 DEF HeldOk
  <2> QED BY <1>2, <2>3, <2>4, <2>5, EnvironmentHeld
<1> QED BY <1>3, <1>4, <1>5, <1>6 DEF IInv

(* The record of a held object of the batch has it in memory by now: no     *)
(* store to it is left.                                                     *)
LEMMA ScanRecStep ==
  ASSUME IInv, NEW r \in Recs, ScanRec(r)
  PROVE  IInv'
<1>1. TypeOK /\ ObjectsOk /\ BarrierOk /\ AllHeldOk
  BY DEF IInv
<1>2. /\ rpc = "scan" /\ unread' = unread \ {r}
      /\ guards' = guards \union ({ptr[r]} \cap batch)
      /\ UNCHANGED <<fence, src, memory, reader, state, swaps, rpc, batch, due>>
  BY DEF ScanRec
<1>3. TypeOK'
  BY <1>1, <1>2 DEF TypeOK, memory, reader
<1>4. SlotsApart' /\ StoresOwned' /\ CallsOk'
  BY <1>2, EnvironmentStep
<1>5. ObjectsOk' /\ BarrierOk'
  BY <1>1, <1>2 DEF ObjectsOk, BarrierOk, memory
<1>6. AllHeldOk'
  <2> SUFFICES ASSUME NEW u \in Readers, NEW k \in 1 .. Len(out[u]), out[u][k] # Null
               PROVE  HeldOk(u, k)'
    BY <1>2 DEF AllHeldOk, HeldOk, reader
  <2>1. HeldOk(u, k)
    BY <1>1 DEF AllHeldOk
  <2>2. ASSUME out[u][k] \in batch
        PROVE  slots[u][k] \in unread' \/ out[u][k] \in guards'
    <3>1. CASE slots[u][k] # r
      BY <1>2, <2>1, <2>2, <3>1 DEF HeldOk
    <3>2. CASE slots[u][k] = r
      <4>1. due[u] = 0
        BY <1>1, <1>2 DEF BarrierOk
      <4>2. Settled(u, r)
        BY <1>2, <2>1, <2>2, <3>2, <4>1 DEF HeldOk, Settled
      <4>3. ptr[r] = out[u][k]
        BY <2>1, <3>2, <4>2 DEF HeldOk, Announced, Settled
      <4> QED BY <1>2, <2>2, <4>3
    <3> QED BY <3>1, <3>2
  <2>3. state'[out[u][k]] # "free"
    BY <1>2, <2>1 DEF HeldOk
  <2>4. out[u][k] \in batch' =>
          \A j \in 1 .. Len(buf[u]) : buf[u][j].rec = slots[u][k] => j <= due'[u]
    BY <1>2, <2>1 DEF HeldOk
  <2> QED BY <1>2, <2>2, <2>3, <2>4, EnvironmentHeld
<1> QED BY <1>3, <1>4, <1>5, <1>6 DEF IInv

(* What is freed was in no record, and so nobody holds it.                  *)
LEMMA FreeStep ==
  ASSUME IInv, Free
  PROVE  IInv'
<1>1. TypeOK /\ ObjectsOk /\ BarrierOk /\ AllHeldOk
  BY DEF IInv
<1>2. /\ rpc = "scan" /\ unread = {} /\ batch' = {} /\ guards' = {} /\ rpc' = "idle"
      /\ state' = [o \in Objects |-> IF o \in batch \ guards THEN "free" ELSE state[o]]
      /\ UNCHANGED <<fence, src, memory, reader, swaps, due, unread>>
  BY DEF Free
<1>3. TypeOK'
  BY <1>1, <1>2 DEF TypeOK, memory, reader
<1>4. SlotsApart' /\ StoresOwned' /\ CallsOk'
  BY <1>2, EnvironmentStep
<1>5. ObjectsOk'
  <2>1. \A s \in Sources : src[s] # Null => src[s] \in Objects /\ src[s] \notin batch
    BY <1>1 DEF TypeOK, ObjectsOk, Ptrs
  <2> QED BY <1>1, <1>2, <2>1 DEF ObjectsOk
<1>6. BarrierOk'
  BY <1>1, <1>2 DEF BarrierOk, memory
<1>7. AllHeldOk'
  <2> SUFFICES ASSUME NEW u \in Readers, NEW k \in 1 .. Len(out[u]), out[u][k] # Null
               PROVE  HeldOk(u, k)'
    BY <1>2 DEF AllHeldOk, HeldOk, reader
  <2>1. HeldOk(u, k)
    BY <1>1 DEF AllHeldOk
  <2>2. out[u][k] \in Objects
    BY <1>1 DEF TypeOK, Ptrs
  <2>3. out[u][k] \notin batch \ guards
    BY <1>2, <2>1 DEF HeldOk
  <2>4. state'[out[u][k]] # "free"
    BY <1>2, <2>1, <2>2, <2>3 DEF HeldOk
  <2> QED BY <1>2, <2>4, EnvironmentHeld
<1> QED BY <1>3, <1>4, <1>5, <1>6, <1>7 DEF IInv

-----------------------------------------------------------------------------
(* The theorems                                                             *)

(* Every step of the specification preserves the invariant.                 *)
LEMMA NextIInv == IInv /\ [Next]_vars => IInv'
<1> SUFFICES ASSUME IInv, [Next]_vars PROVE IInv'
  OBVIOUS
<1>1. ASSUME NEW t \in Readers, Reader(t) PROVE IInv'
  BY <1>1, AcquireStep, ProtectAllStep, LoadSrcStep, AnnounceStep, LightBarrierStep,
     RecheckSameStep, RecheckChangedStep, WithdrawStep, DropStep, ClearSlotStep,
     ReleaseStep
  DEF Reader, Protect, Clear
<1>2. ASSUME NEW t \in Readers, Drain(t) PROVE IInv'
  BY <1>2, DrainStep
<1>3. ASSUME NEW s \in Sources, Swap(s) PROVE IInv'
  BY <1>3, SwapStep
<1>4. CASE Reclaim
  BY <1>4, StartReclaimStep, HeavyBarrierStep, StartScanStep, FreeStep, ScanRecStep
  DEF Reclaim
<1>5. CASE UNCHANGED vars
  <2>1. UNCHANGED <<fence, src, memory, reader, state, swaps, reclaimer>>
    BY <1>5 DEF vars
  <2>2. UNCHANGED <<ptr, buf, slots, listed, pc, i, from, p, goal, out, rpc, batch,
                    due, unread, guards>>
    BY <2>1 DEF memory, reader, reclaimer
  <2>3. SlotsApart' /\ StoresOwned' /\ CallsOk'
    BY <2>1, EnvironmentStep
  <2>4. TypeOK' /\ ObjectsOk' /\ BarrierOk'
    BY <2>1, <2>2 DEF IInv, TypeOK, ObjectsOk, BarrierOk
  <2>5. AllHeldOk'
    BY <2>1, <2>2 DEF IInv, AllHeldOk, HeldOk, Announced, Settled
  <2> QED BY <2>3, <2>4, <2>5 DEF IInv
<1> QED BY <1>1, <1>2, <1>3, <1>4, <1>5 DEF Next

(* Every behaviour of protect, protect_all, the resets and drops, with any  *)
(* writers and the reclaimer, keeps the invariant.                          *)
THEOREM ProtectInvariance == Spec => []IInv
<1>1. Init => IInv
  BY InitIInv
<1>2. IInv /\ [Next]_vars => IInv'
  BY NextIInv
<1> QED BY <1>1, <1>2, PTL DEF Spec

(* Every variable keeps its type, and a call stays within the slots of its  *)
(* handle, whatever protect_all meets on the way.                           *)
THEOREM ProtectTypeCorrect == Spec => []TypeOK
<1>1. IInv => TypeOK
  BY DEF IInv
<1> QED BY <1>1, ProtectInvariance, PTL

(* No object is freed while a reference that protect or protect_all gave    *)
(* lives, in the build with the light barrier and in the one without, for   *)
(* any number of readers, records, sources and objects.                     *)
THEOREM ProtectionIsSafe == Spec => []ProtectedIsNotFreed
<1>1. IInv => ProtectedIsNotFreed
  BY DEF IInv, AllHeldOk, HeldOk, ProtectedIsNotFreed
<1> QED BY <1>1, ProtectInvariance, PTL

-----------------------------------------------------------------------------
(* What is announced is what is held                                        *)

(* The slots whose announcement is settled: all of them between two calls,  *)
(* those already passed in a call or a reset.                               *)
Passed(t) == {k \in 1 .. Len(slots[t]) :
                pc[t] \in {"idle", "release", "panicked"} \/ k < i[t]}

Announces(t) == \A k \in Passed(t) : Announced(t, slots[t][k], out[t][k])

AnnounceInv ==
  /\ \A t \in Readers : pc[t] = "idle" => i[t] = 1
  /\ \A t \in Readers : Announces(t)
  /\ \A r \in Recs \ Owned : ptr[r] = Null

(* A slot's record is owned.                                                *)
LEMMA SlotOwned ==
  ASSUME TypeOK, NEW t \in Readers, NEW k \in 1 .. Len(slots[t])
  PROVE  slots[t][k] \in Recs /\ slots[t][k] \in Owned
<1>1. slots[t] \in Seq(Recs)
  BY DEF TypeOK
<1>2. k \in DOMAIN slots[t] /\ slots[t][k] \in Recs
  BY <1>1
<1> QED BY <1>2 DEF Owned, Range

(* A step that leaves all that a reader's announcements depend on.          *)
LEMMA AnnouncesUnchanged ==
  ASSUME NEW u, Announces(u), ptr' = ptr, buf'[u] = buf[u], slots'[u] = slots[u],
         pc'[u] = pc[u], i'[u] = i[u], out'[u] = out[u]
  PROVE  Announces(u)'
BY DEF Announces, Passed, Announced, Settled

(* A step of reader t that stores nothing and keeps the handles: it remains *)
(* to show what it does to the announcements of t.                          *)
LEMMA QuietAnnounces ==
  ASSUME IInv, AnnounceInv, NEW t \in Readers, UNCHANGED <<memory, slots>>,
         \A u \in Readers : u # t => pc'[u] = pc[u] /\ i'[u] = i[u] /\ out'[u] = out[u],
         pc'[t] = "idle" => i'[t] = 1,
         Announces(t)'
  PROVE  AnnounceInv'
<1>1. \A u \in Readers : u # t => Announces(u)'
  BY AnnouncesUnchanged DEF AnnounceInv, memory
<1>2. \A r \in (Recs \ Owned)' : ptr'[r] = Null
  BY DEF AnnounceInv, Owned, memory
<1>3. \A u \in Readers : pc'[u] = "idle" => i'[u] = 1
  BY DEF AnnounceInv
<1> QED BY <1>1, <1>2, <1>3 DEF AnnounceInv

(* A store of t to the slot its call is at: what the slots passed before    *)
(* announce is left alone.                                                  *)
LEMMA StoreAnnounced ==
  ASSUME IInv, AnnounceInv, NEW t \in Readers, NEW v \in Ptrs,
         Store(t, slots[t][i[t]], v),
         pc[t] \in {"announce", "withdraw", "clear"},
         UNCHANGED <<slots, out>>
  PROVE  /\ \A k \in 1 .. Len(slots[t]) :
              k < i[t] => Announced(t, slots[t][k], out[t][k])'
         /\ \A q \in Recs : q = slots[t][i[t]] => Announced(t, q, v)'
         /\ \A u \in Readers : u # t => buf'[u] = buf[u]
         /\ ptr' = ptr
<1>1. TypeOK /\ SlotsApart
  BY DEF IInv
<1>2. i[t] \in 1 .. Len(slots[t]) /\ slots[t] \in Seq(Recs)
      /\ out[t] \in Seq(Ptrs) /\ Len(out[t]) = Len(slots[t])
  BY <1>1 DEF TypeOK
<1>3. PICK q \in Recs : q = slots[t][i[t]]
  BY <1>2
<1>4. Announced(t, q, v)' /\ ptr' = ptr /\ \A u \in Readers : u # t => buf'[u] = buf[u]
  BY <1>1, <1>3, StoreAnnounces, StoreProps
<1>5. ASSUME NEW k \in 1 .. Len(slots[t]), k < i[t]
      PROVE  Announced(t, slots[t][k], out[t][k])'
  <2>1. PICK r \in Recs, o \in Ptrs : r = slots[t][k] /\ o = out[t][k]
    BY <1>2
  <2>2. r # q
    BY <1>1, <1>2, <1>3, <1>5, <2>1 DEF SlotsApart
  <2>3. Announced(t, r, o)
    BY <1>5, <2>1 DEF AnnounceInv, Announces, Passed
  <2>4. Announced(t, r, o)'
    BY <1>1, <1>3, <2>2, <2>3, StoreKeeps
  <2> QED BY <2>1, <2>4 DEF Announced, Settled
<1> QED BY <1>3, <1>4, <1>5

(* A new handle is made of records that announce nothing.                   *)
LEMMA AcquireAnnounces ==
  ASSUME IInv, IInv', AnnounceInv, NEW t \in Readers, Acquire(t)
  PROVE  AnnounceInv'
<1>1. TypeOK /\ TypeOK' /\ StoresOwned /\ AllHeldOk
  BY DEF IInv
<1>a. PICK n \in Sizes : \E recs \in Injection(1 .. n, Recs \ Owned) :
        /\ slots' = [slots EXCEPT ![t] = recs]
        /\ out' = [out EXCEPT ![t] = NoReferences(n)]
  BY DEF Acquire
<1>2. PICK recs \in Injection(1 .. n, Recs \ Owned) :
        /\ slots' = [slots EXCEPT ![t] = recs]
        /\ out' = [out EXCEPT ![t] = NoReferences(n)]
  BY <1>a
<1>3. n \in Nat /\ recs \in [1 .. n -> Recs \ Owned]
  BY BoundAssumption DEF Injection
<1>4. /\ pc[t] = "none" /\ pc' = [pc EXCEPT ![t] = "idle"]
      /\ UNCHANGED <<memory, i>>
  BY DEF Acquire, Goto
<1>5. /\ slots'[t] = recs /\ out'[t] = NoReferences(n) /\ pc'[t] = "idle"
      /\ \A u \in Readers : u # t => /\ slots'[u] = slots[u] /\ out'[u] = out[u]
                                     /\ pc'[u] = pc[u]
  BY <1>1, <1>2, <1>4 DEF TypeOK
<1>6. slots[t] = <<>> /\ i[t] = 1
  BY <1>1, <1>4 DEF TypeOK
<1>7. Len(recs) = n
  BY <1>3
<1>8. Len(buf[t]) = 0
  <2>1. \A j \in 1 .. Len(buf[t]) : FALSE
    BY <1>1, <1>6 DEF StoresOwned
  <2>2. buf[t] \in Seq(Cells)
    BY <1>1 DEF TypeOK, Cells
  <2> QED BY <2>1, <2>2
<1>9. Announces(t)'
  <2>1. \A k \in 1 .. n : NoReferences(n)[k] = Null
    BY <1>3, NoReferencesProps
  <2>2. Len(buf'[t]) = 0
    BY <1>4, <1>8 DEF memory
  <2>3. ASSUME NEW k \in Passed(t)' PROVE Announced(t, slots[t][k], out[t][k])'
    <3>1. k \in 1 .. n
      BY <1>5, <1>7 DEF Passed
    <3>2. slots'[t][k] = recs[k] /\ out'[t][k] = Null
      BY <1>5, <2>1, <3>1
    <3>3. ptr'[recs[k]] = Null
      BY <1>3, <1>4, <3>1 DEF AnnounceInv, memory
    <3> QED BY <2>2, <3>2, <3>3 DEF Announced, Settled
  <2> QED BY <2>3 DEF Announces
<1>10. \A u \in Readers : u # t => Announces(u)'
  BY <1>4, <1>5, AnnouncesUnchanged DEF AnnounceInv, memory
<1>11. \A r \in (Recs \ Owned)' : ptr'[r] = Null
  <2>1. Owned \subseteq Owned'
    BY <1>5, <1>6 DEF Owned, Range
  <2> QED BY <1>4, <2>1 DEF AnnounceInv, memory
<1>12. \A u \in Readers : pc'[u] = "idle" => i'[u] = 1
  BY <1>4, <1>5, <1>6 DEF AnnounceInv
<1> QED BY <1>9, <1>10, <1>11, <1>12 DEF AnnounceInv

(* The steps of a call and of a reset that do not store.                    *)
LEMMA ControlAnnounces ==
  ASSUME IInv, IInv', AnnounceInv, NEW t \in Readers,
         ProtectAll(t) \/ Drop(t) \/ LoadSrc(t) \/ LightBarrier(t) \/ RecheckChanged(t)
  PROVE  AnnounceInv'
<1>1. TypeOK
  BY DEF IInv
<1>2. /\ UNCHANGED <<memory, slots>> /\ i' = i
      /\ \A u \in Readers : u # t => pc'[u] = pc[u] /\ i'[u] = i[u] /\ out'[u] = out[u]
      /\ pc'[t] \in {"load", "clear", "announce", "recheck", "withdraw"}
  BY <1>1 DEF ProtectAll, Drop, LoadSrc, LightBarrier, RecheckChanged, Goto, TypeOK
<1>3. Announces(t)'
  <2>1. CASE ProtectAll(t) \/ Drop(t)
    <3>1. pc[t] = "idle"
      BY <2>1 DEF ProtectAll, Drop
    <3>2. i'[t] = 1
      BY <1>2, <3>1 DEF AnnounceInv
    <3> QED BY <1>2, <3>2 DEF Announces, Passed
  <2>2. CASE LoadSrc(t) \/ LightBarrier(t) \/ RecheckChanged(t)
    <3>1. out' = out
      BY <2>2 DEF LoadSrc, LightBarrier, RecheckChanged
    <3>2. \A k \in 1 .. Len(slots[t]) : k < i[t] => Announced(t, slots[t][k], out[t][k])
      BY DEF AnnounceInv, Announces, Passed
    <3> QED BY <1>2, <3>1, <3>2 DEF Announces, Passed, Announced, Settled, memory
  <2> QED BY <2>1, <2>2
<1> QED BY <1>2, <1>3, QuietAnnounces

(* The slot that gives a reference has announced it.                        *)
LEMMA RecheckSameAnnounces ==
  ASSUME IInv, IInv', AnnounceInv, NEW t \in Readers, RecheckSame(t)
  PROVE  AnnounceInv'
<1>1. TypeOK /\ CallsOk
  BY DEF IInv
<1>2. /\ pc[t] = "recheck"
      /\ out' = [out EXCEPT ![t][i[t]] = p[t]]
      /\ \/ /\ i[t] < Len(slots[t])
            /\ i' = [i EXCEPT ![t] = @ + 1] /\ pc' = [pc EXCEPT ![t] = "load"]
         \/ /\ ~(i[t] < Len(slots[t]))
            /\ i' = [i EXCEPT ![t] = 1] /\ pc' = [pc EXCEPT ![t] = "idle"]
      /\ UNCHANGED <<memory, slots>>
  BY DEF RecheckSame, Goto
<1>3. /\ out \in [Readers -> Seq(Ptrs)] /\ i \in [Readers -> Nat]
      /\ Len(out[t]) = Len(slots[t]) /\ Len(slots[t]) \in Nat
      /\ i[t] \in 1 .. Len(slots[t])
  BY <1>1, <1>2 DEF TypeOK
<1>4. /\ out'[t] = [out[t] EXCEPT ![i[t]] = p[t]]
      /\ \A u \in Readers : u # t => /\ out'[u] = out[u] /\ pc'[u] = pc[u]
                                     /\ i'[u] = i[u]
  BY <1>1, <1>2 DEF TypeOK
<1>5. /\ out'[t][i[t]] = p[t]
      /\ \A k \in 1 .. Len(slots[t]) : k # i[t] => out'[t][k] = out[t][k]
  BY <1>3, <1>4
<1>6. ASSUME NEW k \in 1 .. Len(slots[t]), k <= i[t]
      PROVE  Announced(t, slots[t][k], out[t][k])'
  <2>1. CASE k = i[t]
    <3>1. Announced(t, slots[t][k], p[t])
      BY <1>1, <1>2, <2>1 DEF CallsOk, CallOk
    <3> QED BY <1>2, <1>5, <2>1, <3>1 DEF Announced, Settled, memory
  <2>2. CASE k < i[t]
    <3>1. Announced(t, slots[t][k], out[t][k])
      BY <2>2 DEF AnnounceInv, Announces, Passed
    <3>2. out'[t][k] = out[t][k]
      BY <1>3, <1>5, <2>2
    <3> QED BY <1>2, <3>1, <3>2 DEF Announced, Settled, memory
  <2> QED BY <1>3, <1>6, <2>1, <2>2
<1>7. \A k \in Passed(t)' : k \in 1 .. Len(slots[t]) /\ k <= i[t]
  <2>1. CASE i[t] < Len(slots[t])
    <3>1. i'[t] = i[t] + 1 /\ pc'[t] = "load"
      BY <1>1, <1>2, <1>3, <2>1 DEF TypeOK
    <3> QED BY <1>2, <1>3, <3>1 DEF Passed
  <2>2. CASE ~(i[t] < Len(slots[t]))
    BY <1>2, <1>3, <2>2 DEF Passed
  <2> QED BY <2>1, <2>2
<1>8. Announces(t)'
  BY <1>6, <1>7 DEF Announces
<1>9. pc'[t] = "idle" => i'[t] = 1
  BY <1>1, <1>2, <1>3 DEF TypeOK
<1> QED BY <1>2, <1>4, <1>8, <1>9, QuietAnnounces

(* The stores of a call and of a reset: a slot passed in a reset announces  *)
(* null from now on, and there is no reference left.                        *)
LEMMA StoringAnnounces ==
  ASSUME IInv, IInv', AnnounceInv, NEW t \in Readers,
         Announce(t) \/ Withdraw(t) \/ ClearSlot(t)
  PROVE  AnnounceInv'
<1>1. TypeOK /\ CallsOk
  BY DEF IInv
<1>2. pc[t] \in {"announce", "withdraw", "clear"} /\ UNCHANGED <<slots, out>>
  BY DEF Announce, Withdraw, ClearSlot
<1>3. /\ i[t] \in 1 .. Len(slots[t]) /\ Len(slots[t]) \in Nat
      /\ Len(out[t]) = Len(slots[t]) /\ i \in [Readers -> Nat]
  BY <1>1, <1>2 DEF TypeOK
<1>4. PICK v \in Ptrs : Store(t, slots[t][i[t]], v) /\ (ClearSlot(t) => v = Null)
  <2>1. p[t] \in Ptrs /\ Null \in Ptrs
    BY <1>1 DEF TypeOK, Ptrs
  <2>2. CASE Announce(t)
    <3>1. ~ClearSlot(t)
      BY <2>2 DEF Announce, ClearSlot
    <3> QED BY <2>1, <2>2, <3>1 DEF Announce
  <2>3. CASE Withdraw(t) \/ ClearSlot(t)
    BY <2>1, <2>3 DEF Withdraw, ClearSlot
  <2> QED BY <2>2, <2>3
<1>5. /\ \A k \in 1 .. Len(slots[t]) :
           k < i[t] => Announced(t, slots[t][k], out[t][k])'
      /\ \A q \in Recs : q = slots[t][i[t]] => Announced(t, q, v)'
      /\ \A u \in Readers : u # t => buf'[u] = buf[u]
      /\ ptr' = ptr
  BY <1>2, <1>4, StoreAnnounced
<1>6. \A u \in Readers : u # t => pc'[u] = pc[u] /\ i'[u] = i[u]
  BY <1>1 DEF Announce, Withdraw, ClearSlot, Goto, TypeOK
<1>7. \A u \in Readers : u # t => Announces(u)'
  BY <1>2, <1>5, <1>6, AnnouncesUnchanged DEF AnnounceInv
<1>8. Announces(t)' /\ (pc'[t] = "idle" => i'[t] = 1)
  <2>1. CASE Announce(t) \/ Withdraw(t)
    <3>1. i' = i /\ pc'[t] \in {"fence", "recheck", "announce"}
      BY <1>1, <2>1 DEF Announce, Withdraw, Goto, TypeOK
    <3>2. \A k \in Passed(t)' : k \in 1 .. Len(slots[t]) /\ k < i[t]
      BY <1>2, <3>1 DEF Passed
    <3> QED BY <1>5, <3>1, <3>2 DEF Announces
  <2>2. CASE ClearSlot(t)
    <3>1. PICK q \in Recs : q = slots[t][i[t]]
      BY <1>1, <1>3 DEF TypeOK
    <3>2. Announced(t, q, Null)'
      BY <1>4, <1>5, <2>2, <3>1
    <3>3. out[t][i[t]] = Null
      BY <1>1, <1>3, <2>2 DEF ClearSlot, CallsOk, CallOk
    <3>4. ASSUME NEW k \in 1 .. Len(slots[t]), k = i[t]
          PROVE  Announced(t, slots[t][k], out[t][k])'
      BY <1>2, <3>1, <3>2, <3>3, <3>4 DEF Announced, Settled
    <3>5. \A k \in Passed(t)' : k \in 1 .. Len(slots[t]) /\ (k < i[t] \/ k = i[t])
      <4>1. CASE i[t] < Len(slots[t])
        <5>1. i'[t] = i[t] + 1 /\ pc'[t] = "clear"
          BY <1>3, <2>2, <4>1 DEF ClearSlot
        <5> QED BY <1>2, <1>3, <5>1 DEF Passed
      <4>2. CASE ~(i[t] < Len(slots[t]))
        BY <1>2, <1>3, <4>2 DEF Passed
      <4> QED BY <4>1, <4>2
    <3>6. Announces(t)'
      BY <1>5, <3>4, <3>5 DEF Announces
    <3>7. pc'[t] = "idle" => i'[t] = 1
      BY <1>3, <2>2 DEF ClearSlot
    <3> QED BY <3>6, <3>7
  <2> QED BY <2>1, <2>2, <1>4 DEF Announce
<1>9. \A r \in (Recs \ Owned)' : ptr'[r] = Null
  BY <1>2, <1>5 DEF AnnounceInv, Owned
<1>10. \A u \in Readers : pc'[u] = "idle" => i'[u] = 1
  BY <1>6, <1>8 DEF AnnounceInv
<1> QED BY <1>7, <1>8, <1>9, <1>10 DEF AnnounceInv

(* Records are released when memory has taken their resets.                 *)
LEMMA ReleaseAnnounces ==
  ASSUME IInv, IInv', AnnounceInv, NEW t \in Readers, Release(t)
  PROVE  AnnounceInv'
<1>1. TypeOK /\ CallsOk
  BY DEF IInv
<1>2. /\ pc[t] = "release" /\ buf[t] = <<>>
      /\ slots' = [slots EXCEPT ![t] = <<>>] /\ out' = [out EXCEPT ![t] = <<>>]
      /\ pc' = [pc EXCEPT ![t] = "none"] /\ UNCHANGED <<memory, i>>
  BY DEF Release, Goto
<1>3. /\ slots'[t] = <<>> /\ pc'[t] = "none"
      /\ \A u \in Readers : u # t => /\ slots'[u] = slots[u] /\ out'[u] = out[u]
                                     /\ pc'[u] = pc[u]
  BY <1>1, <1>2 DEF TypeOK
<1>4. \A k \in 1 .. Len(slots[t]) : ptr[slots[t][k]] = Null
  <2> SUFFICES ASSUME NEW k \in 1 .. Len(slots[t]) PROVE ptr[slots[t][k]] = Null
    OBVIOUS
  <2>1. Announced(t, slots[t][k], out[t][k])
    BY <1>2 DEF AnnounceInv, Announces, Passed
  <2>2. out[t][k] = Null
    BY <1>1, <1>2 DEF TypeOK, CallsOk, CallOk
  <2> QED BY <1>2, <2>1, <2>2 DEF Announced
<1>5. ASSUME NEW r \in Recs, r \notin Owned' PROVE ptr'[r] = Null
  <2>1. CASE r \notin Owned
    BY <1>2, <2>1 DEF AnnounceInv, memory
  <2>2. CASE r \in Owned
    <3>1. PICK u \in Readers : r \in Range(slots[u])
      BY <2>2 DEF Owned
    <3>2. u = t
      BY <1>3, <1>5, <3>1 DEF Owned
    <3>3. slots[t] \in Seq(Recs)
      BY <1>1 DEF TypeOK
    <3>4. \E k \in 1 .. Len(slots[t]) : r = slots[t][k]
      BY <3>1, <3>2, <3>3 DEF Range
    <3> QED BY <1>2, <1>4, <3>4 DEF memory
  <2> QED BY <2>1, <2>2
<1>6. \A u \in Readers : u # t => Announces(u)'
  BY <1>2, <1>3, AnnouncesUnchanged DEF AnnounceInv, memory
<1>7. Announces(t)'
  BY <1>3 DEF Announces, Passed
<1>8. \A u \in Readers : pc'[u] = "idle" => i'[u] = 1
  BY <1>2, <1>3 DEF AnnounceInv
<1> QED BY <1>5, <1>6, <1>7, <1>8 DEF AnnounceInv

(* What memory takes was stored by the owner of the record.                 *)
LEMMA DrainAnnounces ==
  ASSUME IInv, AnnounceInv, NEW t \in Readers, Drain(t)
  PROVE  AnnounceInv'
<1>1. TypeOK /\ StoresOwned
  BY DEF IInv
<1>2. UNCHANGED <<slots, pc, i, out>>
  BY DEF Drain, reader
<1>3. /\ Len(buf[t]) \in Nat \ {0}
      /\ ptr' = [ptr EXCEPT ![buf[t][1].rec] = buf[t][1].val]
  BY DrainProps
<1>4. ASSUME NEW u \in Readers PROVE Announces(u)'
  <2> SUFFICES ASSUME NEW k \in Passed(u) PROVE Announced(u, slots[u][k], out[u][k])'
    BY <1>2 DEF Announces, Passed
  <2>1. k \in 1 .. Len(slots[u]) /\ Announced(u, slots[u][k], out[u][k])
    BY DEF AnnounceInv, Announces, Passed
  <2>2. PICK r \in Recs, o \in Ptrs : r = slots[u][k] /\ o = out[u][k]
    BY <1>1, <2>1 DEF TypeOK
  <2>3. Announced(u, r, o)'
    BY <2>1, <2>2, DrainKeeps
  <2> QED BY <1>2, <2>2, <2>3 DEF Announced, Settled
<1>5. ASSUME NEW r \in Recs \ Owned PROVE ptr'[r] = Null
  <2>1. PICK k \in 1 .. Len(slots[t]) : buf[t][1].rec = slots[t][k]
    BY <1>1, <1>3 DEF StoresOwned
  <2>2. buf[t][1].rec # r
    BY <1>1, <2>1, SlotOwned
  <2>3. ptr \in [Recs -> Ptrs]
    BY <1>1 DEF TypeOK
  <2> QED BY <1>3, <2>2, <2>3 DEF AnnounceInv
<1> QED BY <1>2, <1>4, <1>5 DEF AnnounceInv, Owned

(* The swaps and the reclaimer touch no announcement.                       *)
LEMMA OthersAnnounce ==
  ASSUME AnnounceInv, UNCHANGED <<memory, reader>>
  PROVE  AnnounceInv'
BY AnnouncesUnchanged DEF AnnounceInv, Owned, memory, reader

(* No announcement is left behind or lost: whatever the retries, resets and *)
(* drops of any number of readers, a record without an owner announces      *)
(* nothing and every handle at rest announces exactly what it holds.        *)
THEOREM NoAnnouncementLeftBehind == Spec => []AnnouncesExactlyHeld
<1>1. Init => AnnounceInv
  BY DEF Init, AnnounceInv, Announces, Passed, Owned
<1>2. IInv /\ IInv' /\ AnnounceInv /\ [Next]_vars => AnnounceInv'
  <2> SUFFICES ASSUME IInv, IInv', AnnounceInv, [Next]_vars PROVE AnnounceInv'
    OBVIOUS
  <2>1. ASSUME NEW t \in Readers, Reader(t) PROVE AnnounceInv'
    BY <2>1, AcquireAnnounces, ControlAnnounces, RecheckSameAnnounces,
       StoringAnnounces, ReleaseAnnounces
    DEF Reader, Protect, Clear
  <2>2. ASSUME NEW t \in Readers, Drain(t) PROVE AnnounceInv'
    BY <2>2, DrainAnnounces
  <2>3. CASE (\E s \in Sources : Swap(s)) \/ Reclaim \/ UNCHANGED vars
    <3>1. UNCHANGED <<memory, reader>>
      BY <2>3 DEF Swap, Reclaim, StartReclaim, HeavyBarrier, StartScan, ScanRec, Free, vars
    <3> QED BY <3>1, OthersAnnounce
  <2> QED BY <2>1, <2>2, <2>3 DEF Next
<1>3. AnnounceInv => AnnouncesExactlyHeld
  BY DEF AnnounceInv, Announces, Passed, AnnouncesExactlyHeld
<1> QED BY <1>1, <1>2, <1>3, ProtectInvariance, PTL DEF Spec

-----------------------------------------------------------------------------
(* The handles implement SafeMemory                                         *)

(* The objects among the references of a handle.                            *)
LEMMA RefsProps ==
  ASSUME NEW refs \in Seq(Ptrs)
  PROVE  /\ Range(refs) \ {Null} = {o \in Objects : \E k \in 1 .. Len(refs) : refs[k] = o}
         /\ (\A k \in 1 .. Len(refs) : refs[k] = Null) => Range(refs) \ {Null} = {}
<1>1. DOMAIN refs = 1 .. Len(refs) /\ \A k \in 1 .. Len(refs) : refs[k] \in Ptrs
  OBVIOUS
<1>2. Range(refs) = {refs[k] : k \in 1 .. Len(refs)}
  BY <1>1 DEF Range
<1> QED BY <1>1, <1>2, NullAssumption DEF Ptrs

(* What a reader holds are the references of its slots.                     *)
LEMMA HeldProps ==
  ASSUME TypeOK, NEW t \in Readers
  PROVE  /\ Held[t] = {o \in Objects : \E k \in 1 .. Len(out[t]) : out[t][k] = o}
         /\ (\A k \in 1 .. Len(out[t]) : out[t][k] = Null) => Held[t] = {}
<1>1. out[t] \in Seq(Ptrs) /\ Held[t] = Range(out[t]) \ {Null}
  BY DEF TypeOK, Held
<1> QED BY <1>1, RefsProps

(* A step that leaves the references alone leaves what is held alone.       *)
LEMMA HeldUnchanged == out' = out => Held' = Held
  BY DEF Held

(* The step that gives a reference is the protect of SafeMemory, from the   *)
(* source that is read again: it holds the object now.                      *)
LEMMA RecheckSameProtects ==
  ASSUME IInv, IInv', NEW t \in Readers, RecheckSame(t)
  PROVE  Abstract!Protect(t, from[t])
<1>1. TypeOK /\ TypeOK' /\ CallsOk
  BY DEF IInv
<1>2. /\ pc[t] = "recheck" /\ src[from[t]] = p[t]
      /\ out' = [out EXCEPT ![t][i[t]] = p[t]]
      /\ src' = src /\ state' = state /\ slots' = slots
  BY DEF RecheckSame
<1>3. /\ out \in [Readers -> Seq(Ptrs)] /\ p[t] \in Ptrs
      /\ Len(out[t]) \in Nat /\ i[t] \in 1 .. Len(out[t])
  BY <1>1, <1>2 DEF TypeOK
<1>4. /\ out'[t] = [out[t] EXCEPT ![i[t]] = p[t]]
      /\ \A u \in Readers : u # t => out'[u] = out[u]
  BY <1>2, <1>3
<1>5. /\ Len(out'[t]) = Len(out[t]) /\ out'[t][i[t]] = p[t]
      /\ \A k \in 1 .. Len(out[t]) : k # i[t] => out'[t][k] = out[t][k]
  BY <1>3, <1>4
<1>6. out[t][i[t]] = Null
  <2>1. \A k \in i[t] .. Len(out[t]) : out[t][k] = Null
    BY <1>1, <1>2 DEF CallsOk, CallOk
  <2> QED BY <1>3, <2>1
<1>7. Held'[t] = Held[t] \union ({p[t]} \ {Null})
  <2>1. Held[t] = {o \in Objects : \E k \in 1 .. Len(out[t]) : out[t][k] = o}
    BY <1>1, HeldProps
  <2>2. Held'[t] = {o \in Objects : \E k \in 1 .. Len(out[t]) : out'[t][k] = o}
    <3>1. out'[t] \in Seq(Ptrs) /\ Held'[t] = Range(out'[t]) \ {Null}
      BY <1>1 DEF TypeOK, Held
    <3>2. Held'[t] = {o \in Objects : \E k \in 1 .. Len(out'[t]) : out'[t][k] = o}
      BY <3>1, RefsProps
    <3> QED BY <1>5, <3>2
  <2>3. Null \notin Objects /\ p[t] \in Objects \union {Null}
    BY <1>3, NullAssumption DEF Ptrs
  <2>4. ASSUME NEW o \in Objects
        PROVE  o \in Held'[t] <=> o \in Held[t] \/ o = p[t]
    <3>1. ASSUME NEW k \in 1 .. Len(out[t]), out'[t][k] = o
          PROVE  o \in Held[t] \/ o = p[t]
      BY <1>5, <2>1, <3>1
    <3>2. ASSUME NEW k \in 1 .. Len(out[t]), out[t][k] = o
          PROVE  o \in Held'[t]
      <4>1. k # i[t]
        BY <1>6, <2>3, <3>2
      <4> QED BY <1>5, <2>2, <3>2, <4>1
    <3>3. o = p[t] => o \in Held'[t]
      BY <1>3, <1>5, <2>2
    <3> QED BY <2>1, <2>2, <3>1, <3>2, <3>3
  <2> QED BY <2>1, <2>2, <2>3, <2>4
<1>8. ASSUME NEW u \in Readers, u # t PROVE Held'[u] = Held[u]
  BY <1>4, <1>8 DEF Held
<1>9. Held' = [Held EXCEPT ![t] = @ \union ({src[from[t]]} \ {Null})]
  <2>1. DOMAIN Held' = Readers /\ DOMAIN Held = Readers
    BY DEF Held
  <2> QED BY <1>2, <1>7, <1>8, <2>1 DEF Held
<1> QED BY <1>2, <1>9 DEF Abstract!Protect

(* The call that begins, a reset and a drop let go of every reference.      *)
LEMMA ClearingLetsGo ==
  ASSUME IInv, NEW t \in Readers,
         out' = [out EXCEPT ![t] = NoReferences(Len(slots[t]))],
         UNCHANGED <<src, state>>
  PROVE  Abstract!LetGo(t)
<1>1. out \in [Readers -> Seq(Ptrs)] /\ Len(slots[t]) \in Nat
  BY DEF IInv, TypeOK
<1>2. out'[t] = NoReferences(Len(slots[t])) /\ \A u \in Readers : u # t => out'[u] = out[u]
  BY <1>1
<1>3. Range(out'[t]) \ {Null} = {}
  BY <1>2 DEF Range, NoReferences
<1>4. Held' = [Held EXCEPT ![t] = {}]
  BY <1>2, <1>3 DEF Held
<1> QED BY <1>4 DEF Abstract!LetGo

(* A new handle has no references, and one that is released had none left.  *)
LEMMA HandleHoldsNothing ==
  ASSUME IInv, IInv', NEW t \in Readers, Acquire(t) \/ Release(t)
  PROVE  UNCHANGED <<src, state, Held>>
<1>1. TypeOK /\ TypeOK' /\ CallsOk /\ CallsOk'
  BY DEF IInv
<1>2. /\ src' = src /\ state' = state
      /\ pc[t] \in {"none", "release"}
      /\ \A u \in Readers : u # t => out'[u] = out[u]
  BY <1>1 DEF Acquire, Release, TypeOK
<1>3. Held[t] = {}
  BY <1>1, <1>2, HeldProps DEF CallsOk, CallOk
<1>4. \A k \in 1 .. Len(out'[t]) : out'[t][k] = Null
  <2>1. CASE Acquire(t)
    <3>1. PICK n \in Sizes : out' = [out EXCEPT ![t] = NoReferences(n)]
      BY <2>1 DEF Acquire
    <3>2. out'[t] = NoReferences(n) /\ n \in Nat
      BY <1>1, <3>1, BoundAssumption DEF TypeOK
    <3> QED BY <3>2, NoReferencesProps
  <2>2. CASE Release(t)
    BY <1>1, <2>2 DEF Release, TypeOK
  <2> QED BY <2>1, <2>2
<1>5. Held'[t] = {}
  <2>1. out'[t] \in Seq(Ptrs) /\ Held'[t] = Range(out'[t]) \ {Null}
    BY <1>1 DEF TypeOK, Held
  <2> QED BY <1>4, <2>1, RefsProps
<1>6. \A u \in Readers : Held'[u] = Held[u]
  BY <1>2, <1>3, <1>5 DEF Held
<1>7. Held' = Held
  BY <1>6 DEF Held
<1> QED BY <1>2, <1>7

(* What the reclaimer frees is retired, and nobody holds it: a reference to *)
(* an object of the batch would have put it among the guards.               *)
LEMMA FreeReclaims ==
  ASSUME IInv, Free
  PROVE  \E gone \in SUBSET Objects : Abstract!Reclaim(gone)
<1>1. TypeOK /\ ObjectsOk /\ AllHeldOk
  BY DEF IInv
<1>2. /\ rpc = "scan" /\ unread = {} /\ out' = out /\ src' = src
      /\ state' = [o \in Objects |-> IF o \in batch \ guards THEN "free" ELSE state[o]]
  BY DEF Free, reader
<1>3. batch \ guards \in SUBSET Objects
  BY <1>1 DEF TypeOK
<1>4. ASSUME NEW o \in batch \ guards, NEW t \in Readers, o \in Held[t] PROVE FALSE
  <2>1. o \in Objects /\ o # Null
    BY <1>3, NullAssumption
  <2>2. PICK k \in 1 .. Len(out[t]) : out[t][k] = o
    BY <1>1, <1>4, HeldProps
  <2>3. HeldOk(t, k)
    BY <1>1 DEF AllHeldOk
  <2> QED BY <1>2, <2>1, <2>2, <2>3 DEF HeldOk
<1>5. \A o \in batch \ guards : state[o] = "retired" /\ \A t \in Readers : o \notin Held[t]
  BY <1>1, <1>4 DEF ObjectsOk
<1>6. Held' = Held
  BY <1>2, HeldUnchanged
<1>7. Abstract!Reclaim(batch \ guards)
  BY <1>2, <1>5, <1>6 DEF Abstract!Reclaim
<1> QED BY <1>3, <1>7

(* A swap replaces what one source holds.                                   *)
LEMMA SwapReplaces ==
  ASSUME NEW s \in Sources, Swap(s)
  PROVE  \E new \in Objects \union {Null} : Abstract!Replace(s, new)
<1>1. out' = out
  BY DEF Swap, reader
<1>2. PICK new \in {o \in Objects : state[o] = "free"} \union {Null} :
        /\ new # src[s]
        /\ src' = [src EXCEPT ![s] = new]
        /\ state' = [o \in Objects |-> IF o = new THEN "live"
                                       ELSE IF o = src[s] THEN "retired"
                                       ELSE state[o]]
  BY DEF Swap
<1>3. Held' = Held
  BY <1>1, HeldUnchanged
<1>4. Abstract!Replace(s, new)
  BY <1>2, <1>3 DEF Abstract!Replace
<1> QED BY <1>2, <1>4

(* A step of a reader, of its store buffer, of a source or of the reclaimer *)
(* is a step of SafeMemory or changes nothing there.                        *)
LEMMA StepRefinesMemory ==
  ASSUME IInv, IInv', Next
  PROVE  Abstract!MemoryNext \/ UNCHANGED <<src, state, Held>>
<1>1. ASSUME NEW t \in Readers, Reader(t)
      PROVE  Abstract!MemoryNext \/ UNCHANGED <<src, state, Held>>
  <2>1. CASE RecheckSame(t)
    <3>1. from[t] \in Sources
      BY DEF IInv, TypeOK
    <3> QED BY <2>1, <3>1, RecheckSameProtects DEF Abstract!MemoryNext
  <2>2. CASE ProtectAll(t) \/ Drop(t)
    <3>1. /\ out' = [out EXCEPT ![t] = NoReferences(Len(slots[t]))]
          /\ UNCHANGED <<src, state>>
      BY <2>2 DEF ProtectAll, Drop
    <3> QED BY <3>1, ClearingLetsGo DEF Abstract!MemoryNext
  <2>3. CASE Acquire(t) \/ Release(t)
    BY <2>3, HandleHoldsNothing
  <2>4. CASE \/ LoadSrc(t) \/ Announce(t) \/ LightBarrier(t) \/ RecheckChanged(t)
             \/ Withdraw(t) \/ ClearSlot(t)
    <3>1. out' = out /\ src' = src /\ state' = state
      BY <2>4 DEF LoadSrc, Announce, LightBarrier, RecheckChanged, Withdraw, ClearSlot
    <3> QED BY <3>1, HeldUnchanged
  <2> QED BY <1>1, <2>1, <2>2, <2>3, <2>4 DEF Reader, Protect, Clear
<1>2. ASSUME NEW t \in Readers, Drain(t) PROVE UNCHANGED <<src, state, Held>>
  BY <1>2, HeldUnchanged DEF Drain, reader
<1>3. ASSUME NEW s \in Sources, Swap(s) PROVE Abstract!MemoryNext
  BY <1>3, SwapReplaces DEF Abstract!MemoryNext
<1>4. CASE Reclaim
  <2>1. CASE Free
    BY <2>1, FreeReclaims DEF Abstract!MemoryNext
  <2>2. CASE StartReclaim \/ HeavyBarrier \/ StartScan \/ \E r \in Recs : ScanRec(r)
    <3>1. out' = out /\ src' = src /\ state' = state
      BY <2>2 DEF StartReclaim, HeavyBarrier, StartScan, ScanRec, reader
    <3> QED BY <3>1, HeldUnchanged
  <2> QED BY <1>4, <2>1, <2>2 DEF Reclaim
<1> QED BY <1>1, <1>2, <1>3, <1>4 DEF Next

(* protect is atomic at its second load, and memory is freed only when it is*)
(* retired and nobody holds it: hazard pointers implement SafeMemory, in    *)
(* both builds, whatever is in the store buffers and however often an       *)
(* address comes back.                                                      *)
THEOREM ImplementsSafeMemory == Spec => RefinesSafeMemory
<1>1. Init => Abstract!MemoryInit
  <2> SUFFICES ASSUME Init PROVE Abstract!MemoryInit
    OBVIOUS
  <2>1. \A t \in Readers : Range(out[t]) \ {Null} = {}
    BY DEF Init, Range
  <2>2. Held = [t \in Readers |-> {}]
    BY <2>1 DEF Held
  <2> QED BY <2>2 DEF Init, Ptrs, Abstract!MemoryInit
<1>2. IInv /\ IInv' /\ [Next]_vars => [Abstract!MemoryNext]_<<src, state, Held>>
  <2> SUFFICES ASSUME IInv, IInv', [Next]_vars
               PROVE  Abstract!MemoryNext \/ UNCHANGED <<src, state, Held>>
    OBVIOUS
  <2>1. CASE UNCHANGED vars
    BY <2>1, HeldUnchanged DEF vars, reader
  <2> QED BY <2>1, StepRefinesMemory
<1> QED BY <1>1, <1>2, ProtectInvariance, PTL
        DEF Spec, RefinesSafeMemory, Abstract!MemorySpec
=============================================================================

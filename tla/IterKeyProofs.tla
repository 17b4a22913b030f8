--------------------------- MODULE IterKeyProofs ---------------------------
(***************************************************************************)
(* Proofs about the reusable key of an iterator: the types, and that the   *)
(* slice is the key set last, for any inline size, any lengths up to the   *)
(* initial capacity and any order of `set` calls.                          *)
(***************************************************************************)
EXTENDS IterKey, TLAPS

(* Where the bytes of the last key are: inline only if they fit there.      *)
BytesInPlace ==
  /\ len = last.len
  /\ external = NoPtr => inline.name = last.name /\ len <= N
  /\ external # NoPtr => external = address /\ heap.name = last.name

IInv == TypeOK /\ BytesInPlace

(* A key's fields; the placeholder for "no key" has them too.               *)
LEMMA KeyFacts ==
  /\ \A k \in Keys : /\ k.len \in Lengths /\ k.len \in Nat
                     /\ k = [name |-> k.name, len |-> k.len]
  /\ NoKey.len = 0 /\ NoKey = [name |-> NoKey.name, len |-> NoKey.len]
<1>1. ASSUME NEW k \in Keys
      PROVE  k.len \in Lengths /\ k = [name |-> k.name, len |-> k.len]
  BY DEF Keys
<1>2. NoKey.len = 0 /\ NoKey = [name |-> NoKey.name, len |-> NoKey.len]
  BY DEF NoKey
<1>3. \A x \in Lengths : x \in Nat
  BY SizeAssumption
<1> QED
  BY <1>1, <1>2, <1>3

(* Vec::reserve never shrinks the Vec, and leaves a number.                 *)
LEMMA CapacityGrows ==
  ASSUME capacity \in Nat, NEW total \in Nat
  PROVE  Capacity(total) \in Nat /\ Capacity(total) >= capacity
  BY DEF Capacity, Reserve

(* A new IterKey is empty and inline.                                       *)
LEMMA InitIInv == Init => IInv
  BY SizeAssumption, KeyFacts DEF Init, IInv, TypeOK, BytesInPlace, NoPtr

(* Setting a key keeps the invariant, whichever place the last one was in:  *)
(* encode_inline takes the pointer away, and the heap branch sets it to the *)
(* allocation that is there after the reserve.                              *)
LEMMA NextIInv == IInv /\ [Next]_vars => IInv'
<1> SUFFICES ASSUME IInv, [Next]_vars PROVE IInv'
  OBVIOUS
<1>1. ASSUME NEW k \in Keys, SetInline(k) PROVE IInv'
  <2>1. k.len \in Lengths /\ k.len <= N
    BY <1>1, KeyFacts DEF SetInline, FitsInline
  <2>2. TypeOK'
    BY <1>1, <2>1 DEF SetInline, EncodeInline, IInv, TypeOK
  <2>3. BytesInPlace'
    BY <1>1, <2>1 DEF SetInline, EncodeInline, BytesInPlace
  <2> QED
    BY <2>2, <2>3 DEF IInv
<1>2. ASSUME NEW k \in Keys, SetHeap(k) PROVE IInv'
  <2>1. k.len \in Lengths /\ capacity' \in Nat
    BY <1>2, KeyFacts, CapacityGrows DEF SetHeap, UseHeap, IInv, TypeOK
  <2>2. address' \in Nat /\ address' # NoPtr
    BY <1>2 DEF SetHeap, UseHeap, IInv, TypeOK, NoPtr
  <2>3. TypeOK'
    BY <1>2, <2>1, <2>2 DEF SetHeap, UseHeap, IInv, TypeOK
  <2>4. BytesInPlace'
    BY <1>2, <2>2 DEF SetHeap, UseHeap, BytesInPlace
  <2> QED
    BY <2>3, <2>4 DEF IInv
<1>3. CASE UNCHANGED vars
  BY <1>3 DEF vars, IInv, TypeOK, BytesInPlace
<1> QED
  BY <1>1, <1>2, <1>3 DEF Next

(* Every reachable state of the key satisfies the inductive invariant.      *)
LEMMA IterKeyInvariance == Spec => []IInv
  BY InitIInv, NextIInv, PTL DEF Spec

(* Every field of IterKey and InnerKey keeps its type.                      *)
THEOREM IterKeyTypeOK == Spec => []TypeOK
<1>1. IInv => TypeOK
  BY DEF IInv
<1> QED
  BY <1>1, IterKeyInvariance, PTL

(* The keys that the initial capacity of the Vec holds.  A longer key is    *)
(* written behind the allocation, as HeapHoldsKey says, and what is read    *)
(* back then is undefined.                                                  *)
KeysFit == \A l \in Lengths : l <= InitialCap

(* The Vec never shrinks, so it holds them always.                          *)
RoomInv == capacity >= InitialCap /\ heap_len <= InitialCap

LEMMA RoomThroughout ==
  ASSUME KeysFit
  PROVE  Spec => []RoomInv
<1>1. Init => RoomInv
  BY SizeAssumption DEF Init, RoomInv
<1>2. IInv /\ RoomInv /\ [Next]_vars => RoomInv'
  <2> SUFFICES ASSUME IInv, RoomInv, [Next]_vars PROVE RoomInv'
    OBVIOUS
  <2>1. ASSUME NEW k \in Keys, SetInline(k) PROVE RoomInv'
    BY <2>1 DEF SetInline, EncodeInline, RoomInv
  <2>2. ASSUME NEW k \in Keys, SetHeap(k) PROVE RoomInv'
    <3>1. /\ capacity' = Capacity(k.len) /\ heap_len' = k.len
          /\ k.len \in Nat /\ k.len <= InitialCap
      BY <2>2, KeyFacts DEF SetHeap, UseHeap, KeysFit
    <3>2. capacity \in Nat /\ InitialCap \in Nat
      BY SizeAssumption DEF IInv, TypeOK
    <3>3. capacity' \in Nat /\ capacity' >= capacity
      BY <3>1, <3>2, CapacityGrows
    <3> QED
      BY <3>1, <3>2, <3>3 DEF RoomInv
  <2>3. CASE UNCHANGED vars
    BY <2>3 DEF vars, RoomInv
  <2> QED
    BY <2>1, <2>2, <2>3 DEF Next
<1> QED
  BY <1>1, <1>2, IterKeyInvariance, PTL DEF Spec

(* For keys up to the initial capacity, as_slice returns the key that was   *)
(* set last, reading nothing behind the array and nothing but the Vec's own *)
(* allocation, however `set` moved between the two; and set_len stays within*)
(* the capacity.                                                            *)
THEOREM SliceStaysLastKey ==
  ASSUME KeysFit
  PROVE  Spec => [](SliceIsLastKey /\ HeapHoldsKey)
<1>1. IInv => SliceIsLastKey
  <2> SUFFICES ASSUME IInv PROVE SliceIsLastKey
    OBVIOUS
  <2>1. AsSlice = [name |-> last.name, len |-> last.len]
    BY DEF IInv, BytesInPlace, AsSlice
  <2>2. last = [name |-> last.name, len |-> last.len]
    BY KeyFacts DEF IInv, TypeOK
  <2>3. external \in {NoPtr, address} /\ (external = NoPtr => len <= N)
    BY DEF IInv, BytesInPlace
  <2> QED
    BY <2>1, <2>2, <2>3 DEF SliceIsLastKey
<1>2. IInv /\ RoomInv => HeapHoldsKey
  <2> SUFFICES ASSUME IInv, RoomInv PROVE HeapHoldsKey
    OBVIOUS
  <2>1. Lengths \subseteq Nat /\ capacity \in Nat /\ InitialCap \in Nat
    BY SizeAssumption DEF IInv, TypeOK
  <2>2. heap_len \in Lengths \union {0}
    BY DEF IInv, TypeOK
  <2>3. heap_len \in Nat
    BY <2>1, <2>2
  <2> QED
    BY <2>1, <2>3 DEF RoomInv, HeapHoldsKey
<1> QED
  BY <1>1, <1>2, IterKeyInvariance, RoomThroughout, PTL
=============================================================================

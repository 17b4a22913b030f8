------------------------------ MODULE IterKey ------------------------------
(***************************************************************************)
(* The reusable key of an iterator: crates/engine/src/key/iter_key.rs over *)
(* crates/engine/src/key/inner_key.rs.                                     *)
(*                                                                         *)
(* A key of up to N bytes is kept in the InnerKey itself, a longer one in  *)
(* a Vec that the InnerKey points to.  The bytes of a key are abstracted   *)
(* to its identity and its length; what Vec::reserve does is modelled from *)
(* its contract and its doubling of the capacity.                          *)
(***************************************************************************)
EXTENDS Integers

CONSTANTS
  Names,        \* keys of equal length are told apart by a name
  Lengths,      \* lengths of encoded keys
  N,            \* bytes kept inline
  InitialCap    \* INITIAL_KEY_BUFFER_CAP

ASSUME SizeAssumption ==
  /\ N \in Nat
  /\ InitialCap \in Nat \ {0}
  /\ Lengths \subseteq Nat \ {0}

Keys == [name : Names, len : Lengths]

NoKey == [name |-> "none", len |-> 0]
NoPtr == -1

VARIABLES
  inline,     \* the key in InnerKey._inline
  len,        \* InnerKey.len
  external,   \* InnerKey.external: the allocation it points to, or NoPtr
  heap,       \* the key in the Vec
  heap_len,   \* its length
  capacity,   \* its capacity
  address,    \* its allocation; a new number with each reallocation
  last        \* history: the key set last

vars == <<inline, len, external, heap, heap_len, capacity, address, last>>

Init ==
  /\ inline = NoKey
  /\ len = 0
  /\ external = NoPtr
  /\ heap = NoKey
  /\ heap_len = 0
  /\ capacity = InitialCap
  /\ address = 0
  /\ last = NoKey

-----------------------------------------------------------------------------
FitsInline(total) == total <= N

(* Mutant: the pointer of the last key stays.                               *)
MutantEncodeInline(k) ==
  /\ inline' = k
  /\ len' = k.len
  /\ UNCHANGED <<external, heap, heap_len, capacity, address>>

(* encode_inline and encode_inline_from_slice.                              *)
EncodeInline(k) ==
  /\ inline' = k
  /\ len' = k.len
  /\ external' = NoPtr
  /\ UNCHANGED <<heap, heap_len, capacity, address>>

(* The capacity after Vec::reserve(additional) of an empty Vec.             *)
Reserve(additional) ==
  IF additional <= capacity THEN capacity
  ELSE IF additional > 2 * capacity THEN additional ELSE 2 * capacity

(* What the code asks for: clear() has left the Vec empty, yet it reserves  *)
(* only the difference to the capacity.                                     *)
Capacity(total) ==
  IF capacity < total THEN Reserve(total - capacity) ELSE capacity

UseHeap(k) ==
  /\ capacity' = Capacity(k.len)
  /\ address' = IF capacity' = capacity THEN address ELSE address + 1
  /\ heap_len' = k.len
  /\ len' = k.len
  /\ external' = address'
  /\ heap' = k
  /\ UNCHANGED inline

(* `set` and `set_from_slice`, which differ in where the bytes come from.   *)
SetInline(k) ==
  /\ FitsInline(k.len)
  /\ EncodeInline(k)
  /\ last' = k

SetHeap(k) ==
  /\ ~FitsInline(k.len)
  /\ UseHeap(k)
  /\ last' = k

Next == \E k \in Keys : SetInline(k) \/ SetHeap(k)

Spec == Init /\ [][Next]_vars

(* `as_slice`                                                               *)
AsSlice ==
  [name |-> IF external = NoPtr THEN inline.name ELSE heap.name, len |-> len]

-----------------------------------------------------------------------------
(* The type of every variable.                                              *)
TypeOK ==
  /\ inline \in Keys \union {NoKey}
  /\ heap \in Keys \union {NoKey}
  /\ last \in Keys \union {NoKey}
  /\ {len, heap_len} \subseteq Lengths \union {0}
  /\ capacity \in Nat
  /\ address \in Nat
  /\ external \in Nat \union {NoPtr}

(* as_slice returns the key set last, through every change between the      *)
(* array and the Vec, reads nothing behind the array, and follows the       *)
(* pointer only where the Vec is now.  (Keys up to the initial capacity     *)
(* never make the Vec grow; what longer ones do is HeapHoldsKey's matter.)  *)
SliceIsLastKey ==
  /\ AsSlice = last
  /\ external \in {NoPtr, address}
  /\ external = NoPtr => len <= N

(* The safety comment of `set`: "We have reserved enough capacity in the    *)
(* heap to hold the full key + trailer" when set_len is called.             *)
HeapHoldsKey == heap_len <= capacity
=============================================================================

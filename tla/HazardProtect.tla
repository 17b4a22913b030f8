---------------------------- MODULE HazardProtect ----------------------------
(***************************************************************************)
(* How a hazard pointer keeps an object alive: protect, protect_all,       *)
(* reset_protection and the two drops of crates/mem/src/hazard/            *)
(* hazard_ptr.rs, and the light barrier of hazard/mod.rs.                  *)
(*                                                                         *)
(* A reader announces the pointer it loaded in a record and then reads the *)
(* source again: if the pointer is still there it may use the object.  The *)
(* announcement is a Release store, so it sits in the reader's store       *)
(* buffer until memory takes it; off x86_64 the light barrier waits for    *)
(* that, on x86_64 the light barrier is empty.  Stores leave a buffer in   *)
(* the order they were made (they are all Release stores).                 *)
(*                                                                         *)
(* The other side of the protocol is not in the repository (retire_ptr is  *)
(* a stub): the swap of a source, and a reclaimer that issues the heavy    *)
(* barrier the light one is half of, reads the records one by one and      *)
(* frees what it has not seen.  It is modelled as an environment that is   *)
(* obliged to nothing: a retired object may never be freed (domain.rs says *)
(* so of a domain without further retires), only never too early.  Which   *)
(* records a handle gets is HazardDomain's business: here they are records *)
(* nobody owns.                                                            *)
(***************************************************************************)
EXTENDS Integers, Sequences, Functions

CONSTANTS
  Readers,     \* threads with a handle
  Recs,        \* the records of the domain
  Sources,     \* the AtomicPtr's that readers protect from
  Objects,     \* addresses of objects; a freed one is allocated again
  Null,        \* the null pointer
  Sizes,       \* the N's of HzdPtr::many
  Fences,      \* the builds: TRUE if the light barrier is a fence
  MaxBuf,      \* bound: stores in a store buffer
  MaxSwaps     \* bound: changes of the sources

ASSUME NullAssumption == Null \notin Objects
ASSUME BuildAssumption == Fences \subseteq BOOLEAN
ASSUME BoundAssumption ==
  /\ Sizes \subseteq Nat \ {0}
  /\ MaxBuf \in Nat \ {0}
  /\ MaxSwaps \in Nat

Ptrs == Objects \union {Null}

VARIABLES
  fence,       \* the build
  src,         \* the sources
  ptr,         \* HzdPtrRec::ptr of every record, in memory
  buf,         \* a reader's stores that memory has not taken yet
  slots,       \* the records of a reader's handle, <<>> without one
  listed,      \* records on the domain's list (they stay there)
  pc, i,       \* where a reader is, the slot it works on
  from, p,     \* the source and the pointer of try_protect_ptr
  goal,        \* where a reset of all slots leads
  out,         \* the references a reader holds, Null for None
  state,       \* of an object: "free", "live" (in a source), "retired"
  swaps,       \* changes of the sources so far
  rpc,         \* where the reclaimer is
  batch,       \* the retired objects it works on
  due,         \* stores of a reader its heavy barrier has to wait for
  unread,      \* records it has yet to read
  guards       \* those of them it saw in a record

memory    == <<ptr, buf>>
reader    == <<slots, listed, pc, i, from, p, goal, out>>
reclaimer == <<rpc, batch, due, unread, guards>>
vars == <<fence, src, memory, reader, state, swaps, reclaimer>>

Init ==
  /\ fence \in Fences
  /\ src \in [Sources -> Ptrs]
  /\ \A s, u \in Sources : src[s] = src[u] => s = u \/ src[s] = Null
  /\ ptr = [r \in Recs |-> Null]
  /\ buf = [t \in Readers |-> <<>>]
  /\ slots = [t \in Readers |-> <<>>]
  /\ listed = {}
  /\ pc = [t \in Readers |-> "none"]
  /\ i = [t \in Readers |-> 1]
  /\ from \in [Readers -> Sources]
  /\ p = [t \in Readers |-> Null]
  /\ goal = [t \in Readers |-> "idle"]
  /\ out = [t \in Readers |-> <<>>]
  /\ state = [o \in Objects |-> IF \E s \in Sources : src[s] = o THEN "live" ELSE "free"]
  /\ swaps = 0
  /\ rpc = "idle"
  /\ batch = {}
  /\ due = [t \in Readers |-> 0]
  /\ unread = {}
  /\ guards = {}

-----------------------------------------------------------------------------
(* The store buffer of a reader                                             *)

(* HzdPtrRec::protect and HzdPtrRec::reset: a Release store.                *)
Store(t, r, value) ==
  /\ Len(buf[t]) < MaxBuf
  /\ buf' = [buf EXCEPT ![t] = Append(@, [rec |-> r, val |-> value])]
  /\ UNCHANGED ptr

(* Memory takes the oldest store.                                           *)
Drain(t) ==
  /\ buf[t] # <<>>
  /\ ptr' = [ptr EXCEPT ![Head(buf[t]).rec] = Head(buf[t]).val]
  /\ buf' = [buf EXCEPT ![t] = Tail(@)]
  /\ due' = [due EXCEPT ![t] = IF @ > 0 THEN @ - 1 ELSE 0]
  /\ UNCHANGED <<fence, src, reader, state, swaps, rpc, batch, unread, guards>>

-----------------------------------------------------------------------------
(* The reader                                                               *)

Goto(t, to) == pc' = [pc EXCEPT ![t] = to]

NoReferences(n) == [k \in 1 .. n |-> Null]

Owned == UNION {Range(slots[t]) : t \in Readers}

(* HzdPtr::new, HzdPtr::many: records that nobody owns, new ones are put on *)
(* the domain's list.                                                       *)
Acquire(t) ==
  /\ pc[t] = "none"
  /\ \E n \in Sizes : \E recs \in Injection(1 .. n, Recs \ Owned) :
       /\ slots' = [slots EXCEPT ![t] = recs]
       /\ listed' = listed \union Range(recs)
       /\ out' = [out EXCEPT ![t] = NoReferences(n)]
  /\ Goto(t, "idle")
  /\ UNCHANGED <<fence, src, memory, i, from, p, goal, state, swaps, reclaimer>>

(* protect and protect_all borrow the handle mutably: the references from   *)
(* an earlier call are gone.                                                *)
ProtectAll(t) ==
  /\ pc[t] = "idle"
  /\ out' = [out EXCEPT ![t] = NoReferences(Len(slots[t]))]
  /\ Goto(t, "load")
  /\ UNCHANGED <<fence, src, memory, slots, listed, i, from, p, goal, state,
                 swaps, reclaimer>>

(* protect_ptr of slot i, on any source: the first load.                    *)
LoadSrc(t) ==
  /\ pc[t] = "load"
  /\ \E s \in Sources :
       /\ from' = [from EXCEPT ![t] = s]
       /\ p' = [p EXCEPT ![t] = src[s]]
  /\ Goto(t, "announce")
  /\ UNCHANGED <<fence, src, memory, slots, listed, i, goal, out, state, swaps,
                 reclaimer>>

(* try_protect_ptr: announce the pointer; then the light barrier, which is  *)
(* nothing on x86_64.                                                       *)
Announce(t) ==
  /\ pc[t] = "announce"
  /\ Store(t, slots[t][i[t]], p[t])
  /\ Goto(t, IF fence THEN "fence" ELSE "recheck")
  /\ UNCHANGED <<fence, src, slots, listed, i, from, p, goal, out, state, swaps,
                 reclaimer>>

(* Mutant: a barrier that orders nothing.                                   *)
MutantLightBarrier(t) ==
  /\ pc[t] = "fence"
  /\ Goto(t, "recheck")
  /\ UNCHANGED <<fence, src, memory, slots, listed, i, from, p, goal, out,
                 state, swaps, reclaimer>>

(* A SeqCst fence: the loads after it wait for the stores before it.        *)
LightBarrier(t) ==
  /\ pc[t] = "fence"
  /\ buf[t] = <<>>
  /\ Goto(t, "recheck")
  /\ UNCHANGED <<fence, src, memory, slots, listed, i, from, p, goal, out,
                 state, swaps, reclaimer>>

(* Mutant: protect_all goes on past the last slot.                          *)
MutantRecheckSame(t) ==
  /\ pc[t] = "recheck"
  /\ src[from[t]] = p[t]
  /\ out' = [out EXCEPT ![t][i[t]] = p[t]]
  /\ p' = [p EXCEPT ![t] = Null]
  /\ IF i[t] <= Len(slots[t])
     THEN i' = [i EXCEPT ![t] = @ + 1] /\ Goto(t, "load")
     ELSE i' = [i EXCEPT ![t] = 1] /\ Goto(t, "idle")
  /\ UNCHANGED <<fence, src, memory, slots, listed, from, goal, state, swaps,
                 reclaimer>>

(* Mutant: the second load is not compared with the first.                  *)
MutantRecheckBlind(t) ==
  /\ pc[t] = "recheck"
  /\ out' = [out EXCEPT ![t][i[t]] = p[t]]
  /\ p' = [p EXCEPT ![t] = Null]
  /\ IF i[t] < Len(slots[t])
     THEN i' = [i EXCEPT ![t] = @ + 1] /\ Goto(t, "load")
     ELSE i' = [i EXCEPT ![t] = 1] /\ Goto(t, "idle")
  /\ UNCHANGED <<fence, src, memory, slots, listed, from, goal, state, swaps,
                 reclaimer>>

(* The source still has the pointer: a reference to the object, or None for *)
(* null; protect_all goes on with the next slot.                            *)
RecheckSame(t) ==
  /\ pc[t] = "recheck"
  /\ src[from[t]] = p[t]
  /\ out' = [out EXCEPT ![t][i[t]] = p[t]]
  /\ p' = [p EXCEPT ![t] = Null]
  /\ IF i[t] < Len(slots[t])
     THEN i' = [i EXCEPT ![t] = @ + 1] /\ Goto(t, "load")
     ELSE i' = [i EXCEPT ![t] = 1] /\ Goto(t, "idle")
  /\ UNCHANGED <<fence, src, memory, slots, listed, from, goal, state, swaps,
                 reclaimer>>

(* It changed: protect_ptr retries with the pointer read now,               *)
RecheckChanged(t) ==
  /\ pc[t] = "recheck"
  /\ src[from[t]] # p[t]
  /\ p' = [p EXCEPT ![t] = src[from[t]]]
  /\ Goto(t, "withdraw")
  /\ UNCHANGED <<fence, src, memory, slots, listed, i, from, goal, out, state,
                 swaps, reclaimer>>

(* after the announcement is reset.                                         *)
Withdraw(t) ==
  /\ pc[t] = "withdraw"
  /\ Store(t, slots[t][i[t]], Null)
  /\ Goto(t, "announce")
  /\ UNCHANGED <<fence, src, slots, listed, i, from, p, goal, out, state, swaps,
                 reclaimer>>

(* reset_protection (back to idle), or a drop: of an array, which goes on   *)
(* to release its records, or of a single HzdPtr, which ends in todo!().    *)
Drop(t) ==
  /\ pc[t] = "idle"
  /\ out' = [out EXCEPT ![t] = NoReferences(Len(slots[t]))]
  /\ \E g \in {"idle", "release", "panicked"} :
       /\ g = "panicked" => Len(slots[t]) = 1
       /\ goal' = [goal EXCEPT ![t] = g]
  /\ Goto(t, "clear")
  /\ UNCHANGED <<fence, src, memory, slots, listed, i, from, p, state, swaps,
                 reclaimer>>

(* Mutant: the last slot is not reset.                                      *)
MutantClearSlot(t) ==
  /\ pc[t] = "clear"
  /\ IF i[t] < Len(slots[t])
     THEN /\ Store(t, slots[t][i[t]], Null)
          /\ i' = [i EXCEPT ![t] = @ + 1]
          /\ UNCHANGED <<pc, goal>>
     ELSE /\ i' = [i EXCEPT ![t] = 1]
          /\ goal' = [goal EXCEPT ![t] = "idle"]
          /\ Goto(t, goal[t])
          /\ UNCHANGED memory
  /\ UNCHANGED <<fence, src, slots, listed, from, p, out, state, swaps, reclaimer>>

(* Every slot is reset in turn.                                             *)
ClearSlot(t) ==
  /\ pc[t] = "clear"
  /\ Store(t, slots[t][i[t]], Null)
  /\ IF i[t] < Len(slots[t])
     THEN i' = [i EXCEPT ![t] = @ + 1] /\ UNCHANGED <<pc, goal>>
     ELSE /\ i' = [i EXCEPT ![t] = 1]
          /\ goal' = [goal EXCEPT ![t] = "idle"]
          /\ Goto(t, goal[t])
  /\ UNCHANGED <<fence, src, slots, listed, from, p, out, state, swaps, reclaimer>>

(* release_many: its compare-and-swap comes after every earlier store.  (A  *)
(* panicked thread never gets here: it keeps its record.)                   *)
Release(t) ==
  /\ pc[t] = "release"
  /\ buf[t] = <<>>
  /\ slots' = [slots EXCEPT ![t] = <<>>]
  /\ out' = [out EXCEPT ![t] = <<>>]
  /\ Goto(t, "none")
  /\ UNCHANGED <<fence, src, memory, listed, i, from, p, goal, state, swaps,
                 reclaimer>>

-----------------------------------------------------------------------------
(* The environment: writers of the sources and a reclaimer                  *)

(* A source gets a new object, or null; the old one is retired.             *)
Swap(s) ==
  /\ swaps < MaxSwaps
  /\ swaps' = swaps + 1
  /\ \E new \in {o \in Objects : state[o] = "free"} \union {Null} :
       /\ new # src[s]
       /\ src' = [src EXCEPT ![s] = new]
       /\ state' = [o \in Objects |-> IF o = new THEN "live"
                                      ELSE IF o = src[s] THEN "retired"
                                      ELSE state[o]]
  /\ UNCHANGED <<fence, memory, reader, reclaimer>>

Retired == {o \in Objects : state[o] = "retired"}

StartReclaim ==
  /\ rpc = "idle"
  /\ Retired # {}
  /\ batch' = Retired
  /\ rpc' = "barrier"
  /\ UNCHANGED <<fence, src, memory, reader, state, swaps, due, unread, guards>>

(* Where the light barrier is empty, the heavy barrier returns when memory  *)
(* has taken every store that was made before it; where the light barrier   *)
(* is a fence, it is a fence too and concerns its own thread only.          *)
HeavyBarrier ==
  /\ rpc = "barrier"
  /\ due' = [t \in Readers |-> IF fence THEN 0 ELSE Len(buf[t])]
  /\ rpc' = "wait"
  /\ UNCHANGED <<fence, src, memory, reader, state, swaps, batch, unread, guards>>

StartScan ==
  /\ rpc = "wait"
  /\ \A t \in Readers : due[t] = 0
  /\ unread' = listed
  /\ guards' = {}
  /\ rpc' = "scan"
  /\ UNCHANGED <<fence, src, memory, reader, state, swaps, batch, due>>

ScanRec(r) ==
  /\ rpc = "scan"
  /\ r \in unread
  /\ unread' = unread \ {r}
  /\ guards' = guards \union ({ptr[r]} \cap batch)
  /\ UNCHANGED <<fence, src, memory, reader, state, swaps, rpc, batch, due>>

Free ==
  /\ rpc = "scan"
  /\ unread = {}
  /\ state' = [o \in Objects |-> IF o \in batch \ guards THEN "free" ELSE state[o]]
  /\ batch' = {}
  /\ guards' = {}
  /\ rpc' = "idle"
  /\ UNCHANGED <<fence, src, memory, reader, swaps, due, unread>>

-----------------------------------------------------------------------------
Protect(t) ==
  \/ LoadSrc(t) \/ Announce(t) \/ LightBarrier(t) \/ RecheckSame(t)
  \/ RecheckChanged(t) \/ Withdraw(t)

Clear(t) == ClearSlot(t) \/ Release(t)

Reader(t) == Acquire(t) \/ ProtectAll(t) \/ Protect(t) \/ Drop(t) \/ Clear(t)

Reclaim ==
  \/ StartReclaim \/ HeavyBarrier \/ StartScan \/ Free
  \/ \E r \in Recs : ScanRec(r)

Next ==
  \/ \E t \in Readers : Reader(t) \/ Drain(t)
  \/ \E s \in Sources : Swap(s)
  \/ Reclaim

Spec == Init /\ [][Next]_vars

-----------------------------------------------------------------------------
(* The type of every variable; a handle has one reference per record and    *)
(* its call stays within its slots.                                         *)
TypeOK ==
  /\ fence \in BOOLEAN
  /\ src \in [Sources -> Ptrs]
  /\ ptr \in [Recs -> Ptrs]
  /\ buf \in [Readers -> Seq([rec : Recs, val : Ptrs])]
  /\ slots \in [Readers -> Seq(Recs)]
  /\ listed \subseteq Recs
  /\ pc \in [Readers -> {"none", "idle", "load", "announce", "fence", "recheck",
                         "withdraw", "clear", "release", "panicked"}]
  /\ i \in [Readers -> Nat]
  /\ from \in [Readers -> Sources]
  /\ p \in [Readers -> Ptrs]
  /\ goal \in [Readers -> {"idle", "release", "panicked"}]
  /\ out \in [Readers -> Seq(Ptrs)]
  /\ \A t \in Readers :
       /\ Len(out[t]) = Len(slots[t])
       /\ IF slots[t] = <<>> THEN pc[t] = "none" /\ i[t] = 1
          ELSE pc[t] # "none" /\ i[t] \in 1 .. Len(slots[t])
  /\ state \in [Objects -> {"free", "live", "retired"}]
  /\ swaps \in 0 .. MaxSwaps
  /\ rpc \in {"idle", "barrier", "wait", "scan"}
  /\ batch \subseteq Objects
  /\ due \in [Readers -> 0 .. MaxBuf]
  /\ unread \subseteq Recs
  /\ guards \subseteq Objects

(* "... other threads can see the Object in the HzdPtrRec in the Domain and *)
(* will NOT reclaim whilst the HzdPtr is active": an object to which protect*)
(* or protect_all gave a reference is not freed while the reference lives,  *)
(* in either build, although the announcement may still be in a store       *)
(* buffer when the source is read again, and although a freed address may   *)
(* come back in the source.                                                 *)
ProtectedIsNotFreed ==
  \A t \in Readers : \A k \in 1 .. Len(out[t]) :
    out[t][k] # Null => state[out[t][k]] # "free"

(* The objects a reader has references to, as SafeMemory has them.          *)
Held == [t \in Readers |-> Range(out[t]) \ {Null}]

Abstract == INSTANCE SafeMemory WITH held <- Held

(* protect is atomic at its second load: the reference is to what the source*)
(* holds at that moment, however often the call retried and whatever was    *)
(* freed meanwhile; the records and barriers let the reclaimer free retired *)
(* objects without references, and no other; and nothing else a handle does *)
(* can be seen from outside.                                                *)
RefinesSafeMemory == Abstract!MemorySpec

(* No store of t to r waits.                                                *)
Settled(t, r) == \A j \in 1 .. Len(buf[t]) : buf[t][j].rec # r

(* The latest store of t to r is o, whether memory has it or not.           *)
Announced(t, r, o) ==
  \/ ptr[r] = o /\ Settled(t, r)
  \/ \E j \in 1 .. Len(buf[t]) :
       /\ buf[t][j].rec = r /\ buf[t][j].val = o
       /\ \A k \in j + 1 .. Len(buf[t]) : buf[t][k].rec # r

(* No announcement is left behind and none is lost: a record that goes back *)
(* to the domain protects nothing for its next owner, a panicked drop has   *)
(* reset its record as well, and between two calls each slot announces the  *)
(* object it gave a reference to, or null - however often the call retried, *)
(* withdrew and announced again, and whatever memory has taken of it.       *)
AnnouncesExactlyHeld ==
  /\ \A r \in Recs \ Owned : ptr[r] = Null
  /\ \A t \in Readers : pc[t] \in {"idle", "panicked"} =>
       \A k \in 1 .. Len(slots[t]) : Announced(t, slots[t][k], out[t][k])
=============================================================================

------------------------------- MODULE Arena -------------------------------
(***************************************************************************)
(* The concurrent bump allocator of crates/mem/src/arena.rs.               *)
(*                                                                         *)
(* An arena is a vector of equally long chunks.  Each chunk has an atomic  *)
(* `bump` offset; a thread allocates by loading the offset of the current  *)
(* chunk, rounding it up to the alignment of its layout and moving it with *)
(* a compare-and-swap.  When the layout does not fit, the thread takes the *)
(* mutex around the vector, checks again, and either finds room that       *)
(* another thread made, adds a chunk, or fails because the capacity is     *)
(* used up.                                                                *)
(*                                                                         *)
(* Every load, store or compare-and-swap of a shared field is one action.  *)
(* Memory orderings are not modelled: all the fields that are read without *)
(* the mutex are single atomics whose value is validated by a later        *)
(* compare-and-swap on the same atomic.                                    *)
(***************************************************************************)
EXTENDS Integers, Sequences, FiniteSets, FiniteSetsExt

CONSTANTS
  Threads,      \* threads that allocate from this arena
  Layouts,      \* layouts they ask for: records [size, align]
  BlockSize,    \* policy.block_size, the length of every chunk
  Cap,          \* policy.cap, the most bytes the arena may obtain
  MaxCalls,     \* bound: allocation calls per thread
  Free          \* the mutex around `chunks` has no owner

ASSUME PolicyAssumption ==
  /\ BlockSize \in Nat \ {0}
  /\ Cap \in Nat
  /\ Cap >= BlockSize

ASSUME LayoutAssumption ==
  /\ Layouts \subseteq [size : Nat \ {0}, align : Nat \ {0}]
  /\ Layouts # {}

ASSUME ThreadAssumption == Free \notin Threads

ASSUME BoundAssumption == MaxCalls \in Nat

(* `alloc_raw` panics when the arena is full, `alloc_raw_fallback` returns *)
(* the error; they are the same loop otherwise.                            *)
Entry == {"alloc_raw", "alloc_raw_fallback"}

Calls == [entry : Entry, layout : Layouts]

VARIABLES
  bump,             \* chunks[i].bump, for every chunk in the order of the vector
  current_chunk,    \* index of the chunk current_chunk points to
  allocated_bytes,  \* bytes obtained from the allocator
  memory_used,      \* bytes handed out, without padding
  mutex,            \* owner of the mutex around `chunks`, or Free
  pc,               \* where each thread is
  call,             \* the entry point and layout of each thread's call
  chunk,            \* local `chunk`: the chunk a thread works on
  seen,             \* local `bump`: the offset a thread loaded from it
  calls,            \* calls each thread may still make
  granted           \* history: the regions handed out so far

shared == <<bump, current_chunk, allocated_bytes, memory_used, mutex>>
vars == <<shared, pc, call, chunk, seen, calls, granted>>

(***************************************************************************)
(* The rounding of `alignment_check`: masking with !(align - 1) drops the  *)
(* remainder modulo the (power of two) alignment.                          *)
(***************************************************************************)
MutantAligned(offset, layout) == offset
Aligned(offset, layout) ==
  LET n == offset + (layout.align - 1) IN n - (n % layout.align)

NextOffset(offset, layout) == Aligned(offset, layout) + layout.size

MutantFits(offset, layout) == NextOffset(offset, layout) <= BlockSize + 1
Fits(offset, layout) == NextOffset(offset, layout) <= BlockSize

(* A region and the call it went to.                                        *)
Region(c, offset, layout, by) ==
  [chunk  |-> c,
   start  |-> Aligned(offset, layout),
   end    |-> NextOffset(offset, layout),
   layout |-> layout,
   by     |-> by]

Layout(t) == call[t].layout

(* Stands for the call of a thread that is in none.                         *)
NoCall == CHOOSE c \in Calls : TRUE

-----------------------------------------------------------------------------
(* `Arena::new`: one chunk, obtained before the arena is shared.           *)
Init ==
  /\ bump = <<0>>
  /\ current_chunk = 1
  /\ allocated_bytes = BlockSize
  /\ memory_used = 0
  /\ mutex = Free
  /\ pc = [t \in Threads |-> "idle"]
  /\ call = [t \in Threads |-> NoCall]
  /\ chunk = [t \in Threads |-> 1]
  /\ seen = [t \in Threads |-> 0]
  /\ calls = [t \in Threads |-> MaxCalls]
  /\ granted = {}

Goto(t, to) == pc' = [pc EXCEPT ![t] = to]

(* What a call was for is of no interest once it has returned, nor are the *)
(* locals of an iteration of its loop after the iteration.                 *)
ForgetLocals(t) ==
  /\ chunk' = [chunk EXCEPT ![t] = 1]
  /\ seen' = [seen EXCEPT ![t] = 0]

Return(t) ==
  /\ Goto(t, "idle")
  /\ call' = [call EXCEPT ![t] = NoCall]
  /\ ForgetLocals(t)

(* A thread calls one of the two entry points.                             *)
Call(t) ==
  /\ pc[t] = "idle"
  /\ calls[t] > 0
  /\ \E c \in Calls : call' = [call EXCEPT ![t] = c]
  /\ calls' = [calls EXCEPT ![t] = @ - 1]
  /\ Goto(t, "get_chunk")
  /\ UNCHANGED <<shared, chunk, seen, granted>>

(* let chunk = self.get_chunk();                                           *)
GetChunk(t) ==
  /\ pc[t] = "get_chunk"
  /\ chunk' = [chunk EXCEPT ![t] = current_chunk]
  /\ Goto(t, "load_bump")
  /\ UNCHANGED <<shared, call, seen, calls, granted>>

(* Load the offset and run alignment_check on it.  The check reads the     *)
(* length of whatever chunk is current by then; all chunks have one length.*)
LoadBump(t) ==
  /\ pc[t] = "load_bump"
  /\ seen' = [seen EXCEPT ![t] = bump[chunk[t]]]
  /\ Goto(t, IF Fits(bump[chunk[t]], Layout(t)) THEN "cas" ELSE "lock")
  /\ UNCHANGED <<shared, call, chunk, calls, granted>>

(* Mutant: a store in place of the compare-and-swap.                       *)
MutantCasBump(t) ==
  /\ pc[t] = "cas"
  /\ bump' = [bump EXCEPT ![chunk[t]] = NextOffset(seen[t], Layout(t))]
  /\ granted' = granted \union
                 {Region(chunk[t], seen[t], Layout(t), <<t, calls[t]>>)}
  /\ Goto(t, "account")
  /\ UNCHANGED <<current_chunk, allocated_bytes, memory_used, mutex,
                 call, chunk, seen, calls>>

(* compare_exchange_weak(bump, next) succeeds: the region is the thread's. *)
CasBump(t) ==
  /\ pc[t] = "cas"
  /\ bump[chunk[t]] = seen[t]
  /\ bump' = [bump EXCEPT ![chunk[t]] = NextOffset(seen[t], Layout(t))]
  /\ granted' = granted \union
                 {Region(chunk[t], seen[t], Layout(t), <<t, calls[t]>>)}
  /\ Goto(t, "account")
  /\ UNCHANGED <<current_chunk, allocated_bytes, memory_used, mutex,
                 call, chunk, seen, calls>>

(* It fails, because the offset moved or spuriously: start over.           *)
CasFails(t) ==
  /\ pc[t] = "cas"
  /\ Goto(t, "get_chunk")
  /\ ForgetLocals(t)
  /\ UNCHANGED <<shared, call, calls, granted>>

(* Mutant: the padding is counted as well.                                 *)
MutantAccount(t) ==
  /\ pc[t] = "account"
  /\ memory_used' = memory_used + NextOffset(seen[t], Layout(t)) - seen[t]
  /\ Return(t)
  /\ UNCHANGED <<bump, current_chunk, allocated_bytes, mutex, calls, granted>>

(* memory_used.fetch_add(layout.size()) and return the pointer.            *)
Account(t) ==
  /\ pc[t] = "account"
  /\ memory_used' = memory_used + Layout(t).size
  /\ Return(t)
  /\ UNCHANGED <<bump, current_chunk, allocated_bytes, mutex, calls, granted>>

-----------------------------------------------------------------------------
(* `try_new_chunk`                                                         *)

(* Mutant: nobody waits for the mutex.                                     *)
MutantLockChunks(t) ==
  /\ pc[t] = "lock"
  /\ mutex' = t
  /\ Goto(t, "recheck")
  /\ UNCHANGED <<bump, current_chunk, allocated_bytes, memory_used,
                 call, chunk, seen, calls, granted>>

(* let mut lock = self.chunks.lock().unwrap();                             *)
LockChunks(t) ==
  /\ pc[t] = "lock"
  /\ mutex = Free
  /\ mutex' = t
  /\ Goto(t, "recheck")
  /\ UNCHANGED <<bump, current_chunk, allocated_bytes, memory_used,
                 call, chunk, seen, calls, granted>>

(* Mutant: the early return keeps the mutex.                               *)
MutantRecheckFits(t) ==
  /\ pc[t] = "recheck"
  /\ Fits(bump[current_chunk], Layout(t))
  /\ Goto(t, "get_chunk")
  /\ ForgetLocals(t)
  /\ UNCHANGED <<shared, call, calls, granted>>

(* The double check passes: another thread added a chunk meanwhile.        *)
RecheckFits(t) ==
  /\ pc[t] = "recheck"
  /\ Fits(bump[current_chunk], Layout(t))
  /\ mutex' = Free
  /\ Goto(t, "get_chunk")
  /\ ForgetLocals(t)
  /\ UNCHANGED <<bump, current_chunk, allocated_bytes, memory_used,
                 call, calls, granted>>

(* Mutant: the capacity is tested before the double check.                 *)
MutantRecheckFull(t) ==
  /\ pc[t] = "recheck"
  /\ allocated_bytes + BlockSize > Cap
  /\ mutex' = Free
  /\ Goto(t, IF call[t].entry = "alloc_raw" THEN "panicked" ELSE "failed")
  /\ UNCHANGED <<bump, current_chunk, allocated_bytes, memory_used,
                 call, chunk, seen, calls, granted>>

(* Err(ArenaFull): one more chunk would exceed the capacity.  The guard of *)
(* the mutex is dropped before alloc_raw panics, so it is never poisoned.  *)
RecheckFull(t) ==
  /\ pc[t] = "recheck"
  /\ ~Fits(bump[current_chunk], Layout(t))
  /\ allocated_bytes + BlockSize > Cap
  /\ mutex' = Free
  /\ Goto(t, IF call[t].entry = "alloc_raw" THEN "panicked" ELSE "failed")
  /\ UNCHANGED <<bump, current_chunk, allocated_bytes, memory_used,
                 call, chunk, seen, calls, granted>>

(* Mutant: no double check.                                                *)
MutantGrowsUnchecked(t) ==
  /\ pc[t] = "recheck"
  /\ allocated_bytes + BlockSize <= Cap
  /\ Goto(t, "count")
  /\ UNCHANGED <<shared, call, chunk, seen, calls, granted>>

(* One more chunk is within the capacity: read in one access,              *)
RecheckGrows(t) ==
  /\ pc[t] = "recheck"
  /\ ~Fits(bump[current_chunk], Layout(t))
  /\ allocated_bytes + BlockSize <= Cap
  /\ Goto(t, "count")
  /\ UNCHANGED <<shared, call, chunk, seen, calls, granted>>

(* counted in another, allocated_bytes.fetch_add: only the mutex keeps     *)
(* other threads out in between.  The chunk itself is not visible yet.     *)
CountChunk(t) ==
  /\ pc[t] = "count"
  /\ allocated_bytes' = allocated_bytes + BlockSize
  /\ Goto(t, "publish")
  /\ UNCHANGED <<bump, current_chunk, memory_used, mutex,
                 call, chunk, seen, calls, granted>>

(* Push the new chunk, store current_chunk, drop the guard.                *)
PublishChunk(t) ==
  /\ pc[t] = "publish"
  /\ bump' = Append(bump, 0)
  /\ current_chunk' = Len(bump) + 1
  /\ mutex' = Free
  /\ Goto(t, "get_chunk")
  /\ ForgetLocals(t)
  /\ UNCHANGED <<allocated_bytes, memory_used, call, calls, granted>>

(* alloc_raw_fallback hands the error to its caller.                       *)
ReturnErr(t) ==
  /\ pc[t] = "failed"
  /\ Return(t)
  /\ UNCHANGED <<shared, calls, granted>>

-----------------------------------------------------------------------------
Step(t) ==
  \/ GetChunk(t) \/ LoadBump(t) \/ CasBump(t) \/ CasFails(t) \/ Account(t)
  \/ LockChunks(t) \/ RecheckFits(t) \/ RecheckFull(t) \/ RecheckGrows(t)
  \/ CountChunk(t) \/ PublishChunk(t) \/ ReturnErr(t)

Next == \E t \in Threads : Call(t) \/ Step(t)

Spec == Init /\ [][Next]_vars

(***************************************************************************)
(* A thread inside a call keeps running (the scheduler is fair to it), and *)
(* a compare_exchange_weak that could succeed again and again does not     *)
(* fail spuriously for ever.  Nobody is obliged to make another call.      *)
(***************************************************************************)
Fairness ==
  \A t \in Threads : WF_vars(Step(t)) /\ SF_vars(CasBump(t))

-----------------------------------------------------------------------------
PcValues ==
  {"idle", "get_chunk", "load_bump", "cas", "account", "lock", "recheck",
   "count", "publish", "failed", "panicked"}

Regions ==
  [chunk : Nat \ {0}, start : Nat, end : Nat, layout : Layouts,
   by : Threads \X Nat]

(* The type of every variable; every offset stays inside its chunk (the    *)
(* test competing_allocs: "No chunk overflow").                            *)
TypeOK ==
  /\ bump \in Seq(0..BlockSize)
  /\ Len(bump) > 0
  /\ current_chunk \in 1..Len(bump)
  /\ allocated_bytes \in Nat
  /\ memory_used \in Nat
  /\ mutex \in Threads \union {Free}
  /\ pc \in [Threads -> PcValues]
  /\ call \in [Threads -> Calls]
  /\ chunk \in [Threads -> 1..Len(bump)]
  /\ seen \in [Threads -> 0..BlockSize]
  /\ calls \in [Threads -> 0..MaxCalls]
  /\ granted \in SUBSET Regions

(* No two calls ever own a common byte, whichever threads raced on whichever *)
(* chunk: what alloc_raw's caller relies on when it writes a node there.     *)
NoOverlap ==
  \A r, s \in granted :
    r.chunk = s.chunk => r = s \/ r.end <= s.start \/ s.end <= r.start

(* Every region handed out lies in a chunk of the arena, below its bump    *)
(* offset, starts on the alignment of its layout and is as long as it.     *)
RegionsFit ==
  \A r \in granted :
    /\ r.chunk \in 1..Len(bump)
    /\ r.start % r.layout.align = 0
    /\ r.end = r.start + r.layout.size
    /\ r.end <= bump[r.chunk]

Publishing == {t \in Threads : pc[t] = "publish"}

(* The bytes counted are the bytes of the chunks there are, plus the one   *)
(* chunk being added under the mutex, and never exceed the capacity (the   *)
(* test competing_allocs: "Cap respected").                                *)
CapRespected ==
  /\ allocated_bytes = BlockSize * (Len(bump) + Cardinality(Publishing))
  /\ allocated_bytes <= Cap

(* ArenaFull is never reported while there is room: whenever a call has    *)
(* failed, the current chunk cannot hold its layout and no chunk can be    *)
(* added - and that stays so, whatever the other threads do meanwhile.     *)
FailureIsJustified ==
  \A t \in Threads :
    pc[t] \in {"failed", "panicked"} =>
      /\ ~Fits(bump[current_chunk], Layout(t))
      /\ allocated_bytes + BlockSize > Cap

(* The counter memory_used is exact whenever nobody is between the         *)
(* compare-and-swap and the fetch_add (the test competing_allocs: "Total   *)
(* memory used must match").                                               *)
MemoryUsedExact ==
  (\A t \in Threads : pc[t] # "account") =>
    memory_used = MapThenSumSet(LAMBDA r : r.layout.size, granted)

(* A chunk is replaced only when it cannot hold the layout of the thread   *)
(* that replaces it: the double check under the mutex keeps two threads    *)
(* that ran out together from adding a chunk each.                         *)
ReplacesOnlyFullChunk ==
  [][current_chunk' # current_chunk =>
       /\ mutex \in Threads
       /\ ~Fits(bump[current_chunk], Layout(mutex))
       /\ bump[current_chunk] = bump'[current_chunk]
       /\ current_chunk' = current_chunk + 1]_vars

(* Every call returns or panics: no thread is left spinning or waiting for *)
(* the mutex, however the others interleave.                               *)
CallsEnd ==
  \A t \in Threads : (pc[t] = "get_chunk") ~> (pc[t] \in {"idle", "panicked"})

=============================================================================

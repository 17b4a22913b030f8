----------------------------- MODULE SafeMemory -----------------------------
(***************************************************************************)
(* What hazard pointers promise, without records, announcements, retries or*)
(* store buffers: protect gives, in one step, the object its source holds  *)
(* at that moment; and memory is freed when it is retired and nobody holds *)
(* it.                                                                     *)
(***************************************************************************)
CONSTANTS
  Readers,   \* threads that hold references
  Sources,   \* the AtomicPtr's that references are got from
  Objects,   \* addresses of objects
  Null       \* the null pointer

VARIABLES
  src,       \* what each source holds
  state,     \* of an object: "free", "live" (in a source), "retired"
  held       \* the objects each reader has references to

MemoryInit ==
  /\ src \in [Sources -> Objects \union {Null}]
  /\ \A s, u \in Sources : src[s] = src[u] => s = u \/ src[s] = Null
  /\ state = [o \in Objects |-> IF \E s \in Sources : src[s] = o THEN "live" ELSE "free"]
  /\ held = [t \in Readers |-> {}]

(* protect: a reference to what the source holds now, or None.              *)
Protect(t, s) ==
  /\ held' = [held EXCEPT ![t] = @ \union ({src[s]} \ {Null})]
  /\ UNCHANGED <<src, state>>

(* A reset, a drop or the next call of protect ends the references of a     *)
(* handle.                                                                  *)
LetGo(t) ==
  /\ held' = [held EXCEPT ![t] = {}]
  /\ UNCHANGED <<src, state>>

(* A source gets an object that is nowhere else, or null; what it held is   *)
(* retired.                                                                 *)
Replace(s, new) ==
  /\ new = Null \/ state[new] = "free"
  /\ new # src[s]
  /\ src' = [src EXCEPT ![s] = new]
  /\ state' = [o \in Objects |-> IF o = new THEN "live"
                                 ELSE IF o = src[s] THEN "retired"
                                 ELSE state[o]]
  /\ UNCHANGED held

(* Retired objects without references are freed.                            *)
Reclaim(gone) ==
  /\ \A o \in gone : state[o] = "retired" /\ \A t \in Readers : o \notin held[t]
  /\ state' = [o \in Objects |-> IF o \in gone THEN "free" ELSE state[o]]
  /\ UNCHANGED <<src, held>>

MemoryNext ==
  \/ \E t \in Readers : LetGo(t) \/ \E s \in Sources : Protect(t, s)
  \/ \E s \in Sources, new \in Objects \union {Null} : Replace(s, new)
  \/ \E gone \in SUBSET Objects : Reclaim(gone)

MemorySpec == MemoryInit /\ [][MemoryNext]_<<src, state, held>>
=============================================================================

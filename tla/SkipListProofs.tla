--------------------------- MODULE SkipListProofs ---------------------------
(***************************************************************************)
(* Proofs about the skip list: the types, the height that searches start   *)
(* at, that no level loses a node or its order, that a search returns the  *)
(* first node not less than its key, that iterators miss nothing, and that *)
(* level 0 implements OrderedList - for any number of threads, keys, nodes *)
(* and levels.                                                             *)
(***************************************************************************)
EXTENDS SkipList, WellFoundedInduction, FiniteSetTheorems, TLAPS

-----------------------------------------------------------------------------
(* The types, in parts, with what a thread's place says of its variables.   *)

Tower == [Levels -> NodeOrNull]
Starts == Nodes \union {Sentinel}

Ctx == [key : Keys, level : 0 .. MaxHeadHeight, pred : Starts,
        preds : [Levels -> Starts], succs : Tower]

SharedTypes ==
  /\ key \in [Nodes -> Keys]
  /\ height \in [Nodes -> 0 .. MaxHeadHeight]
  /\ next \in [Starts -> Tower]
  /\ allocated \in 0 .. ArenaNodes
  /\ entries \in Nat
  /\ max_level \in 1 .. MaxHeadHeight
  /\ links \in [Levels -> Seq(Nodes)]

CallTypes ==
  /\ pc \in [Threads -> PcValues]
  /\ op \in [Threads -> {"none", "insert", "insert_with", "seek", "iter"}]
  /\ ops \in [Threads -> 0 .. MaxOps]
  /\ since \in [Threads -> Nat]

InserterTypes ==
  /\ node \in [Threads -> NodeOrNull]
  /\ tall \in [Threads -> 0 .. MaxHeadHeight]
  /\ at \in [Threads -> 0 .. MaxHeadHeight]
  /\ max_height \in [Threads -> 0 .. MaxHeadHeight]

IteratorTypes ==
  /\ item \in [Threads -> NodeOrNull]
  /\ bound \in [Threads -> [kind : BoundKinds, key : Keys]]
  /\ out \in [Threads -> Seq(Nodes)]

CtxTypes == ctx \in [Threads -> Ctx]

Searching == {"load_max", "skip", "walk"}

(* A thread's place: what is never null or zero there, and that an inserter *)
(* has raised max_level to its height before it allocates.                  *)
Place(t) ==
  /\ pc[t] \in {"skip", "walk"} => ctx[t].level > 0
  /\ pc[t] \in {"count", "draw", "raise", "alloc", "link", "return"} => t \in Writers
  /\ pc[t] \in {"found", "scan"} => t \in Readers
  /\ pc[t] \in {"raise", "alloc"} => tall[t] >= 1
  /\ pc[t] = "raise" => max_height[t] < tall[t]
  /\ pc[t] = "alloc" => tall[t] <= max_level
  /\ pc[t] \in {"link", "return"} => node[t] # Null
  /\ node[t] = Null => at[t] = 0
  /\ node[t] # Null =>
       /\ t \in Writers
       /\ pc[t] \in Searching \union {"link", "return"}
       /\ tall[t] <= max_level
       /\ pc[t] # "return" => at[t] < tall[t]
       /\ pc[t] = "return" => at[t] = tall[t]

TypeInv ==
  /\ SharedTypes /\ CallTypes /\ InserterTypes /\ IteratorTypes /\ CtxTypes
  /\ \A t \in Threads : Place(t)

(* The parts make the whole.                                                *)
LEMMA TypeInvImpliesTypeOK == TypeInv => TypeOK
  BY DEF TypeInv, TypeOK, SharedTypes, CallTypes, InserterTypes, IteratorTypes,
     CtxTypes, Ctx, Starts, Tower, Place

(* Nodes, the head and null are three different things; some key exists.    *)
LEMMA NodeFacts ==
  /\ Sentinel \in Starts /\ Null \in NodeOrNull /\ Null \notin Starts
  /\ \A n \in Nodes : n # Null /\ n # Sentinel /\ n \in Starts /\ n \in NodeOrNull
  /\ \A n \in NodeOrNull : n # Null => n \in Nodes
  /\ \A n \in Starts : n # Sentinel => n \in Nodes
  /\ 0 \in Levels
  /\ \A l \in 1 .. MaxHeadHeight : l - 1 \in Levels
  /\ \A l \in Levels : l \in Nat /\ l < MaxHeadHeight
  /\ AnyKey \in Keys
<1>1. AnyKey \in Keys
  BY KeyAssumption DEF AnyKey
<1> QED
  BY <1>1, SizeAssumption DEF Starts, NodeOrNull, Nodes, Sentinel, Null, Levels

(* A context before its search is one.                                      *)
LEMMA BlankIsCtx == \A k \in Keys : Blank(k) \in Ctx
  BY NodeFacts, SizeAssumption DEF Blank, Ctx, Tower

(* A step of t leaves the variables of the other threads alone, and does    *)
(* not lower max_level.                                                     *)
OthersKept(t) ==
  /\ \A u \in Threads : u # t =>
       /\ pc'[u] = pc[u] /\ op'[u] = op[u] /\ ctx'[u] = ctx[u]
       /\ node'[u] = node[u] /\ tall'[u] = tall[u] /\ at'[u] = at[u]
       /\ max_height'[u] = max_height[u] /\ since'[u] = since[u]
       /\ item'[u] = item[u] /\ bound'[u] = bound[u] /\ out'[u] = out[u]
  /\ max_level' >= max_level

(* Where the others are, they stay.                                         *)
LEMMA PlacesKept ==
  ASSUME TypeInv, NEW t \in Threads, OthersKept(t), Place(t)',
         max_level' \in 1 .. MaxHeadHeight
  PROVE  \A u \in Threads : Place(u)'
<1> SUFFICES ASSUME NEW u \in Threads, u # t PROVE Place(u)'
  OBVIOUS
<1>1. Place(u) /\ tall[u] \in Nat /\ max_level \in Nat
  BY SizeAssumption DEF TypeInv, InserterTypes, SharedTypes
<1> QED
  BY <1>1 DEF OthersKept, Place

(* The first state has the types.                                           *)
LEMMA InitTypeInv == Init => TypeInv
<1> SUFFICES ASSUME Init PROVE TypeInv
  OBVIOUS
<1> USE NodeFacts, SizeAssumption DEF Init
<1>1. SharedTypes
  BY DEF SharedTypes, Tower, Starts
<1>2. CallTypes
  BY DEF CallTypes, PcValues
<1>3. InserterTypes
  BY DEF InserterTypes
<1>4. IteratorTypes
  BY DEF IteratorTypes, NoBound, BoundKinds
<1>5. CtxTypes
  BY BlankIsCtx DEF CtxTypes
<1>6. \A t \in Threads : Place(t)
  BY DEF Place
<1> QED
  BY <1>1, <1>2, <1>3, <1>4, <1>5, <1>6 DEF TypeInv

(* The fields of a context, and what can be read from a tower.              *)
LEMMA CtxFacts ==
  ASSUME TypeInv, NEW t \in Threads
  PROVE  /\ ctx[t] \in Ctx /\ ctx[t].key \in Keys
         /\ ctx[t].level \in 0 .. MaxHeadHeight
         /\ ctx[t].pred \in Starts
         /\ \A l \in Levels : /\ ctx[t].preds[l] \in Starts
                              /\ ctx[t].succs[l] \in NodeOrNull
         /\ \A n \in Starts, l \in Levels : next[n][l] \in NodeOrNull
  BY DEF TypeInv, SharedTypes, CtxTypes, Ctx, Tower

(* A field of a context is replaced by a value of its type.                 *)
LEMMA CtxUpdates ==
  ASSUME NEW c \in Ctx
  PROVE  /\ \A x \in 0 .. MaxHeadHeight : [c EXCEPT !.level = x] \in Ctx
         /\ \A n \in Starts : [c EXCEPT !.pred = n] \in Ctx
         /\ \A l \in Levels, n \in Starts, m \in NodeOrNull, x \in 0 .. MaxHeadHeight :
              [c EXCEPT !.preds[l] = n, !.succs[l] = m, !.level = x] \in Ctx
  BY DEF Ctx, Tower

(* A pointer of a tower is replaced.                                        *)
LEMMA TowerUpdate ==
  ASSUME NEW T \in Tower, NEW l \in Levels, NEW m \in NodeOrNull
  PROVE  [T EXCEPT ![l] = m] \in Tower
  BY DEF Tower

(* Where a search leads.                                                    *)
LEMMA AfterSearchFacts ==
  ASSUME NEW t \in Threads
  PROVE  /\ t \in Readers => AfterSearch(t) = "found"
         /\ t \notin Readers => AfterSearch(t) = IF node[t] = Null THEN "count" ELSE "link"
         /\ AfterSearch(t) \in {"found", "count", "link"}
<1>1. CASE t \in Readers
  <2>1. t \notin Writers
    BY <1>1, RoleAssumption
  <2> QED
    BY <1>1, <2>1 DEF AfterSearch
<1>2. CASE t \notin Readers
  BY <1>2 DEF AfterSearch, SearchedNode, Threads
<1> QED
  BY <1>1, <1>2

(* Every action keeps the types, and leaves the other threads' variables    *)
(* alone.                                                                   *)
Stays(t) == TypeInv' /\ OthersKept(t)

(* What has to be shown for one action.                                     *)
LEMMA StaysFrom ==
  ASSUME TypeInv, NEW t \in Threads, SharedTypes', CallTypes', InserterTypes',
         IteratorTypes', CtxTypes', OthersKept(t), Place(t)'
  PROVE  Stays(t)
<1>1. \A u \in Threads : Place(u)'
  BY PlacesKept DEF SharedTypes
<1> QED
  BY <1>1 DEF Stays, TypeInv

(* Bounds and lists of yielded nodes.                                       *)
LEMMA BoundFacts ==
  /\ NoBound \in [kind : BoundKinds, key : Keys]
  /\ Bounds \subseteq [kind : BoundKinds, key : Keys]
  BY NodeFacts, KeyAssumption DEF NoBound, BoundKinds

(* The calls begin.                                                         *)
LEMMA BeginStays ==
  ASSUME TypeInv, NEW t \in Threads,
         Insert(t) \/ InsertWith(t) \/ Seek(t) \/ Iter(t)
  PROVE  Stays(t)
<1> USE DEF TypeInv, mem, data, insv, iter, Goto
<1>0. Place(t)
  OBVIOUS
<1>1. ASSUME Insert(t) PROVE Stays(t)
  <2>1. SharedTypes'
    BY <1>1, NodeFacts, SizeAssumption DEF Insert, Start, BeginSearch, SharedTypes
  <2>2. CallTypes'
    BY <1>1, NodeFacts, SizeAssumption DEF Insert, Start, BeginSearch, CallTypes, PcValues,
       SharedTypes
  <2>3. InserterTypes'
    BY <1>1, NodeFacts, SizeAssumption DEF Insert, Start, BeginSearch, InserterTypes,
       SharedTypes
  <2>4. IteratorTypes'
    BY <1>1, NodeFacts, SizeAssumption, BoundFacts DEF Insert, Start, BeginSearch, IteratorTypes
  <2>5. CtxTypes'
    BY <1>1, NodeFacts, SizeAssumption, CtxFacts, BlankIsCtx DEF Insert, Start, BeginSearch, CtxTypes
  <2>6. OthersKept(t)
    BY <1>1, NodeFacts, SizeAssumption DEF Insert, Start, BeginSearch, OthersKept, CallTypes,
       InserterTypes, IteratorTypes, CtxTypes, SharedTypes
  <2>7. Place(t)'
    BY <1>0, <1>1, NodeFacts, SizeAssumption DEF Insert, Start, BeginSearch, Place, Searching,
       CallTypes, InserterTypes, CtxTypes, Ctx, SharedTypes
  <2> QED
    BY <2>1, <2>2, <2>3, <2>4, <2>5, <2>6, <2>7, StaysFrom
<1>2. ASSUME InsertWith(t) PROVE Stays(t)
  <2>1. SharedTypes'
    BY <1>2, NodeFacts, SizeAssumption DEF InsertWith, Start, SharedTypes
  <2>2. CallTypes'
    BY <1>2, NodeFacts, SizeAssumption DEF InsertWith, Start, CallTypes, PcValues,
       SharedTypes
  <2>3. InserterTypes'
    BY <1>2, NodeFacts, SizeAssumption DEF InsertWith, Start, InserterTypes,
       SharedTypes
  <2>4. IteratorTypes'
    BY <1>2, NodeFacts, SizeAssumption, BoundFacts DEF InsertWith, Start, IteratorTypes
  <2>5. CtxTypes'
    BY <1>2, NodeFacts, SizeAssumption, CtxFacts, BlankIsCtx DEF InsertWith, Start, CtxTypes
  <2>6. OthersKept(t)
    BY <1>2, NodeFacts, SizeAssumption DEF InsertWith, Start, OthersKept, CallTypes,
       InserterTypes, IteratorTypes, CtxTypes, SharedTypes
  <2>7. Place(t)'
    BY <1>0, <1>2, NodeFacts, SizeAssumption DEF InsertWith, Start, Place, Searching,
       CallTypes, InserterTypes, CtxTypes, Ctx, SharedTypes
  <2> QED
    BY <2>1, <2>2, <2>3, <2>4, <2>5, <2>6, <2>7, StaysFrom
<1>3. ASSUME Seek(t) PROVE Stays(t)
  <2>1. SharedTypes'
    BY <1>3, NodeFacts, SizeAssumption DEF Seek, Start, BeginSearch, SharedTypes
  <2>2. CallTypes'
    BY <1>3, NodeFacts, SizeAssumption DEF Seek, Start, BeginSearch, CallTypes, PcValues,
       SharedTypes
  <2>3. InserterTypes'
    BY <1>3, NodeFacts, SizeAssumption DEF Seek, Start, BeginSearch, InserterTypes,
       SharedTypes
  <2>4. IteratorTypes'
    BY <1>3, NodeFacts, SizeAssumption, BoundFacts DEF Seek, Start, BeginSearch, IteratorTypes
  <2>5. CtxTypes'
    BY <1>3, NodeFacts, SizeAssumption, CtxFacts, BlankIsCtx DEF Seek, Start, BeginSearch, CtxTypes
  <2>6. OthersKept(t)
    BY <1>3, NodeFacts, SizeAssumption DEF Seek, Start, BeginSearch, OthersKept, CallTypes,
       InserterTypes, IteratorTypes, CtxTypes, SharedTypes
  <2>7. Place(t)'
    BY <1>0, <1>3, NodeFacts, SizeAssumption DEF Seek, Start, BeginSearch, Place, Searching,
       CallTypes, InserterTypes, CtxTypes, Ctx, SharedTypes
  <2> QED
    BY <2>1, <2>2, <2>3, <2>4, <2>5, <2>6, <2>7, StaysFrom
<1>4. ASSUME Iter(t) PROVE Stays(t)
  <2>1. SharedTypes'
    BY <1>4, NodeFacts, SizeAssumption DEF Iter, Start, SharedTypes
  <2>2. CallTypes'
    BY <1>4, NodeFacts, SizeAssumption DEF Iter, Start, CallTypes, PcValues,
       SharedTypes
  <2>3. InserterTypes'
    BY <1>4, NodeFacts, SizeAssumption DEF Iter, Start, InserterTypes,
       SharedTypes
  <2>4. IteratorTypes'
    <3>1. \E b \in Bounds : bound' = [bound EXCEPT ![t] = b]
      BY <1>4 DEF Iter
    <3>2. item' = [item EXCEPT ![t] = next[Sentinel][0]] /\ out' = out
      BY <1>4 DEF Iter
    <3>3. next[Sentinel][0] \in NodeOrNull
      BY CtxFacts, NodeFacts
    <3> QED
      BY <3>1, <3>2, <3>3, BoundFacts DEF IteratorTypes
  <2>5. CtxTypes'
    BY <1>4, NodeFacts, SizeAssumption, CtxFacts, BlankIsCtx DEF Iter, Start, CtxTypes
  <2>6. OthersKept(t)
    BY <1>4, NodeFacts, SizeAssumption DEF Iter, Start, OthersKept, CallTypes,
       InserterTypes, IteratorTypes, CtxTypes, SharedTypes
  <2>7. Place(t)'
    BY <1>0, <1>4, NodeFacts, SizeAssumption DEF Iter, Start, Place, Searching,
       CallTypes, InserterTypes, CtxTypes, Ctx, SharedTypes
  <2> QED
    BY <2>1, <2>2, <2>3, <2>4, <2>5, <2>6, <2>7, StaysFrom
<1> QED
  BY <1>1, <1>2, <1>3, <1>4

(* The steps of a search.                                                   *)
LEMMA SearchStays ==
  ASSUME TypeInv, NEW t \in Threads,
         LoadMaxLevel(t) \/ SkipLevel(t) \/ EnterLevel(t) \/ Advance(t) \/ Descend(t)
  PROVE  Stays(t)
<1> USE DEF TypeInv, mem, data, insv, iter, Goto
<1>0. Place(t)
  OBVIOUS
<1>1. ASSUME LoadMaxLevel(t) PROVE Stays(t)
  <2>1. SharedTypes'
    BY <1>1, NodeFacts, SizeAssumption DEF LoadMaxLevel, SharedTypes
  <2>2. CallTypes'
    BY <1>1, NodeFacts, SizeAssumption DEF LoadMaxLevel, CallTypes, PcValues,
       SharedTypes
  <2>3. InserterTypes'
    BY <1>1, NodeFacts, SizeAssumption DEF LoadMaxLevel, InserterTypes,
       SharedTypes
  <2>4. IteratorTypes'
    BY <1>1, NodeFacts, SizeAssumption, BoundFacts DEF LoadMaxLevel, IteratorTypes
  <2>5. CtxTypes'
    <3>1. ctx' = [ctx EXCEPT ![t] = [ctx[t] EXCEPT !.level = max_level]]
      BY <1>1 DEF LoadMaxLevel
    <3>2. max_level \in 0 .. MaxHeadHeight
      BY SizeAssumption DEF SharedTypes
    <3> QED
      BY <3>1, <3>2, CtxFacts, CtxUpdates DEF CtxTypes
  <2>6. OthersKept(t)
    BY <1>1, NodeFacts, SizeAssumption DEF LoadMaxLevel, OthersKept, CallTypes,
       InserterTypes, IteratorTypes, CtxTypes, SharedTypes
  <2>7. Place(t)'
    BY <1>0, <1>1, NodeFacts, SizeAssumption DEF LoadMaxLevel, Place, Searching,
       CallTypes, InserterTypes, CtxTypes, Ctx, SharedTypes
  <2> QED
    BY <2>1, <2>2, <2>3, <2>4, <2>5, <2>6, <2>7, StaysFrom
<1>2. ASSUME SkipLevel(t) PROVE Stays(t)
  <2>1. SharedTypes'
    BY <1>2, NodeFacts, SizeAssumption DEF SkipLevel, SharedTypes
  <2>2. CallTypes'
    <3>1. \E to \in {"found", "count", "link", "skip", "walk"} :
            pc' = [pc EXCEPT ![t] = to]
      BY <1>2, AfterSearchFacts DEF SkipLevel
    <3> QED
      BY <1>2, <3>1 DEF SkipLevel, CallTypes, PcValues
  <2>3. InserterTypes'
    BY <1>2, NodeFacts, SizeAssumption DEF SkipLevel, InserterTypes,
       SharedTypes
  <2>4. IteratorTypes'
    BY <1>2, NodeFacts, SizeAssumption, BoundFacts DEF SkipLevel, IteratorTypes
  <2>5. CtxTypes'
    <3>1. ctx' = [ctx EXCEPT ![t] = [ctx[t] EXCEPT !.level = ctx[t].level - 1]]
      BY <1>2 DEF SkipLevel
    <3>2. ctx[t].level - 1 \in 0 .. MaxHeadHeight
      BY <1>0, <1>2, CtxFacts, SizeAssumption DEF SkipLevel, Place
    <3> QED
      BY <3>1, <3>2, CtxFacts, CtxUpdates DEF CtxTypes
  <2>6. OthersKept(t)
    BY <1>2, NodeFacts, SizeAssumption DEF SkipLevel, OthersKept, CallTypes,
       InserterTypes, IteratorTypes, CtxTypes, SharedTypes
  <2>7. Place(t)'
    <3>1. /\ pc[t] = "skip" /\ UNCHANGED <<node, at, tall, max_level, max_height>>
          /\ pc'[t] = IF ctx[t].level = 1 THEN AfterSearch(t) ELSE "skip"
      BY <1>2 DEF SkipLevel, CallTypes
    <3>2. ctx'[t].level = ctx[t].level - 1 /\ ctx[t].level \in Nat /\ ctx[t].level > 0
      BY <1>0, <1>2, <3>1, CtxFacts, SizeAssumption DEF SkipLevel, CtxTypes, Place, Ctx
    <3>3. CASE ctx[t].level = 1
      <4>1. CASE t \in Readers
        <5>1. node[t] = Null /\ pc'[t] = "found"
          BY <1>0, <3>1, <3>3, <4>1, AfterSearchFacts, RoleAssumption DEF Place
        <5> QED
          BY <1>0, <3>1, <4>1, <5>1 DEF Place
      <4>2. CASE t \notin Readers
        <5>1. t \in Writers /\ pc'[t] = IF node[t] = Null THEN "count" ELSE "link"
          BY <3>1, <3>3, <4>2, AfterSearchFacts DEF Threads
        <5> QED
          BY <1>0, <3>1, <5>1 DEF Place, Searching
      <4> QED
        BY <4>1, <4>2
    <3>4. CASE ctx[t].level # 1
      BY <1>0, <3>1, <3>2, <3>4 DEF Place, Searching
    <3> QED
      BY <3>3, <3>4
  <2> QED
    BY <2>1, <2>2, <2>3, <2>4, <2>5, <2>6, <2>7, StaysFrom
<1>3. ASSUME EnterLevel(t) PROVE Stays(t)
  <2>1. SharedTypes'
    BY <1>3, NodeFacts, SizeAssumption DEF EnterLevel, SharedTypes
  <2>2. CallTypes'
    BY <1>3, NodeFacts, SizeAssumption DEF EnterLevel, CallTypes, PcValues,
       SharedTypes
  <2>3. InserterTypes'
    BY <1>3, NodeFacts, SizeAssumption DEF EnterLevel, InserterTypes,
       SharedTypes
  <2>4. IteratorTypes'
    BY <1>3, NodeFacts, SizeAssumption, BoundFacts DEF EnterLevel, IteratorTypes
  <2>5. CtxTypes'
    BY <1>3, NodeFacts, SizeAssumption, CtxFacts, BlankIsCtx DEF EnterLevel, CtxTypes
  <2>6. OthersKept(t)
    BY <1>3, NodeFacts, SizeAssumption DEF EnterLevel, OthersKept, CallTypes,
       InserterTypes, IteratorTypes, CtxTypes, SharedTypes
  <2>7. Place(t)'
    BY <1>0, <1>3, NodeFacts, SizeAssumption DEF EnterLevel, Place, Searching,
       CallTypes, InserterTypes, CtxTypes, Ctx, SharedTypes
  <2> QED
    BY <2>1, <2>2, <2>3, <2>4, <2>5, <2>6, <2>7, StaysFrom
<1>4. ASSUME Advance(t) PROVE Stays(t)
  <2>1. SharedTypes'
    BY <1>4, NodeFacts, SizeAssumption DEF Advance, SharedTypes
  <2>2. CallTypes'
    BY <1>4, NodeFacts, SizeAssumption DEF Advance, CallTypes, PcValues,
       SharedTypes
  <2>3. InserterTypes'
    BY <1>4, NodeFacts, SizeAssumption DEF Advance, InserterTypes,
       SharedTypes
  <2>4. IteratorTypes'
    BY <1>4, NodeFacts, SizeAssumption, BoundFacts DEF Advance, IteratorTypes
  <2>5. CtxTypes'
    <3>1. ctx' = [ctx EXCEPT ![t] = [ctx[t] EXCEPT !.pred = Curr(t)]] /\ Curr(t) # Null
      BY <1>4 DEF Advance
    <3>2. Curr(t) \in Starts
      <4>1. ctx[t].level - 1 \in Levels
        BY <1>0, <1>4, CtxFacts, NodeFacts, SizeAssumption DEF Advance, Place
      <4> QED
        BY <3>1, <4>1, CtxFacts, NodeFacts DEF Curr
    <3> QED
      BY <3>1, <3>2, CtxFacts, CtxUpdates DEF CtxTypes
  <2>6. OthersKept(t)
    BY <1>4, NodeFacts, SizeAssumption DEF Advance, OthersKept, CallTypes,
       InserterTypes, IteratorTypes, CtxTypes, SharedTypes
  <2>7. Place(t)'
    BY <1>0, <1>4, NodeFacts, SizeAssumption DEF Advance, Place, Searching,
       CallTypes, InserterTypes, CtxTypes, Ctx, SharedTypes
  <2> QED
    BY <2>1, <2>2, <2>3, <2>4, <2>5, <2>6, <2>7, StaysFrom
<1>5. ASSUME Descend(t) PROVE Stays(t)
  <2>1. SharedTypes'
    BY <1>5, NodeFacts, SizeAssumption DEF Descend, SharedTypes
  <2>2. CallTypes'
    <3>1. \E to \in {"found", "count", "link", "skip", "walk"} :
            pc' = [pc EXCEPT ![t] = to]
      BY <1>5, AfterSearchFacts DEF Descend
    <3> QED
      BY <1>5, <3>1 DEF Descend, CallTypes, PcValues
  <2>3. InserterTypes'
    BY <1>5, NodeFacts, SizeAssumption DEF Descend, InserterTypes,
       SharedTypes
  <2>4. IteratorTypes'
    BY <1>5, NodeFacts, SizeAssumption, BoundFacts DEF Descend, IteratorTypes
  <2>5. CtxTypes'
    <3>1. ctx' = [ctx EXCEPT ![t] =
                   [ctx[t] EXCEPT !.preds[ctx[t].level - 1] = ctx[t].pred,
                                  !.succs[ctx[t].level - 1] = Curr(t),
                                  !.level = ctx[t].level - 1]]
      BY <1>5 DEF Descend
    <3>2. ctx[t].level - 1 \in Levels /\ ctx[t].level - 1 \in 0 .. MaxHeadHeight
      BY <1>0, <1>5, CtxFacts, NodeFacts, SizeAssumption DEF Descend, Place
    <3>3. Curr(t) \in NodeOrNull /\ ctx[t].pred \in Starts
      BY <3>2, CtxFacts DEF Curr
    <3> QED
      BY <3>1, <3>2, <3>3, CtxFacts, CtxUpdates DEF CtxTypes
  <2>6. OthersKept(t)
    BY <1>5, NodeFacts, SizeAssumption DEF Descend, OthersKept, CallTypes,
       InserterTypes, IteratorTypes, CtxTypes, SharedTypes
  <2>7. Place(t)'
    <3>1. /\ pc[t] = "walk" /\ UNCHANGED <<node, at, tall, max_level, max_height>>
          /\ pc'[t] = IF ctx[t].level = 1 THEN AfterSearch(t) ELSE "walk"
      BY <1>5 DEF Descend, CallTypes
    <3>2. ctx'[t].level = ctx[t].level - 1 /\ ctx[t].level \in Nat /\ ctx[t].level > 0
      BY <1>0, <1>5, <3>1, CtxFacts, SizeAssumption DEF Descend, CtxTypes, Place, Ctx
    <3>3. CASE ctx[t].level = 1
      <4>1. CASE t \in Readers
        <5>1. node[t] = Null /\ pc'[t] = "found"
          BY <1>0, <3>1, <3>3, <4>1, AfterSearchFacts, RoleAssumption DEF Place
        <5> QED
          BY <1>0, <3>1, <4>1, <5>1 DEF Place
      <4>2. CASE t \notin Readers
        <5>1. t \in Writers /\ pc'[t] = IF node[t] = Null THEN "count" ELSE "link"
          BY <3>1, <3>3, <4>2, AfterSearchFacts DEF Threads
        <5> QED
          BY <1>0, <3>1, <5>1 DEF Place, Searching
      <4> QED
        BY <4>1, <4>2
    <3>4. CASE ctx[t].level # 1
      BY <1>0, <3>1, <3>2, <3>4 DEF Place, Searching
    <3> QED
      BY <3>3, <3>4
  <2> QED
    BY <2>1, <2>2, <2>3, <2>4, <2>5, <2>6, <2>7, StaysFrom
<1> QED
  BY <1>1, <1>2, <1>3, <1>4, <1>5

(* The steps that draw a height and raise max_level.                        *)
LEMMA RaiseStays ==
  ASSUME TypeInv, NEW t \in Threads,
         CountEntry(t) \/ DrawHeight(t) \/ RaiseMaxLevel(t) \/ RaiseFails(t)
  PROVE  Stays(t)
<1> USE DEF TypeInv, mem, data, insv, iter, Goto
<1>0. Place(t)
  OBVIOUS
<1>1. ASSUME CountEntry(t) PROVE Stays(t)
  <2>1. SharedTypes'
    BY <1>1, NodeFacts, SizeAssumption DEF CountEntry, SharedTypes
  <2>2. CallTypes'
    BY <1>1, NodeFacts, SizeAssumption DEF CountEntry, CallTypes, PcValues,
       SharedTypes
  <2>3. InserterTypes'
    BY <1>1, NodeFacts, SizeAssumption DEF CountEntry, InserterTypes,
       SharedTypes
  <2>4. IteratorTypes'
    BY <1>1, NodeFacts, SizeAssumption, BoundFacts DEF CountEntry, IteratorTypes
  <2>5. CtxTypes'
    BY <1>1, NodeFacts, SizeAssumption, CtxFacts, BlankIsCtx DEF CountEntry, CtxTypes
  <2>6. OthersKept(t)
    BY <1>1, NodeFacts, SizeAssumption DEF CountEntry, OthersKept, CallTypes,
       InserterTypes, IteratorTypes, CtxTypes, SharedTypes
  <2>7. Place(t)'
    BY <1>0, <1>1, NodeFacts, SizeAssumption DEF CountEntry, Place, Searching,
       CallTypes, InserterTypes, CtxTypes, Ctx, SharedTypes
  <2> QED
    BY <2>1, <2>2, <2>3, <2>4, <2>5, <2>6, <2>7, StaysFrom
<1>2. ASSUME DrawHeight(t) PROVE Stays(t)
  <2>1. SharedTypes'
    BY <1>2, NodeFacts, SizeAssumption DEF DrawHeight, Trimmed, SharedTypes
  <2>2. CallTypes'
    BY <1>2, NodeFacts, SizeAssumption DEF DrawHeight, Trimmed, CallTypes, PcValues,
       SharedTypes
  <2>3. InserterTypes'
    BY <1>2, NodeFacts, SizeAssumption DEF DrawHeight, Trimmed, InserterTypes,
       SharedTypes
  <2>4. IteratorTypes'
    BY <1>2, NodeFacts, SizeAssumption, BoundFacts DEF DrawHeight, Trimmed, IteratorTypes
  <2>5. CtxTypes'
    BY <1>2, NodeFacts, SizeAssumption, CtxFacts, BlankIsCtx DEF DrawHeight, Trimmed, CtxTypes
  <2>6. OthersKept(t)
    BY <1>2, NodeFacts, SizeAssumption DEF DrawHeight, Trimmed, OthersKept, CallTypes,
       InserterTypes, IteratorTypes, CtxTypes, SharedTypes
  <2>7. Place(t)'
    BY <1>0, <1>2, NodeFacts, SizeAssumption DEF DrawHeight, Trimmed, Place, Searching,
       CallTypes, InserterTypes, CtxTypes, Ctx, SharedTypes
  <2> QED
    BY <2>1, <2>2, <2>3, <2>4, <2>5, <2>6, <2>7, StaysFrom
<1>3. ASSUME RaiseMaxLevel(t) PROVE Stays(t)
  <2>1. SharedTypes'
    <3>1. max_level' = tall[t] /\ tall[t] \in 1 .. MaxHeadHeight
      BY <1>0, <1>3, SizeAssumption DEF RaiseMaxLevel, Place, InserterTypes
    <3> QED
      BY <1>3, <3>1 DEF RaiseMaxLevel, SharedTypes
  <2>2. CallTypes'
    BY <1>3, NodeFacts, SizeAssumption DEF RaiseMaxLevel, CallTypes, PcValues,
       SharedTypes
  <2>3. InserterTypes'
    BY <1>3, NodeFacts, SizeAssumption DEF RaiseMaxLevel, InserterTypes,
       SharedTypes
  <2>4. IteratorTypes'
    BY <1>3, NodeFacts, SizeAssumption, BoundFacts DEF RaiseMaxLevel, IteratorTypes
  <2>5. CtxTypes'
    BY <1>3, NodeFacts, SizeAssumption, CtxFacts, BlankIsCtx DEF RaiseMaxLevel, CtxTypes
  <2>6. OthersKept(t)
    <3>1. max_level' >= max_level
      BY <1>0, <1>3, SizeAssumption DEF RaiseMaxLevel, Place, InserterTypes, SharedTypes
    <3> QED
      BY <1>3, <3>1 DEF RaiseMaxLevel, OthersKept, CallTypes
  <2>7. Place(t)'
    BY <1>0, <1>3, NodeFacts, SizeAssumption DEF RaiseMaxLevel, Place, Searching,
       CallTypes, InserterTypes, CtxTypes, Ctx, SharedTypes
  <2> QED
    BY <2>1, <2>2, <2>3, <2>4, <2>5, <2>6, <2>7, StaysFrom
<1>4. ASSUME RaiseFails(t) PROVE Stays(t)
  <2>1. SharedTypes'
    BY <1>4, NodeFacts, SizeAssumption DEF RaiseFails, SharedTypes
  <2>2. CallTypes'
    BY <1>4, NodeFacts, SizeAssumption DEF RaiseFails, CallTypes, PcValues,
       SharedTypes
  <2>3. InserterTypes'
    BY <1>4, NodeFacts, SizeAssumption DEF RaiseFails, InserterTypes,
       SharedTypes
  <2>4. IteratorTypes'
    BY <1>4, NodeFacts, SizeAssumption, BoundFacts DEF RaiseFails, IteratorTypes
  <2>5. CtxTypes'
    BY <1>4, NodeFacts, SizeAssumption, CtxFacts, BlankIsCtx DEF RaiseFails, CtxTypes
  <2>6. OthersKept(t)
    BY <1>4, NodeFacts, SizeAssumption DEF RaiseFails, OthersKept, CallTypes,
       InserterTypes, IteratorTypes, CtxTypes, SharedTypes
  <2>7. Place(t)'
    BY <1>0, <1>4, NodeFacts, SizeAssumption DEF RaiseFails, Place, Searching,
       CallTypes, InserterTypes, CtxTypes, Ctx, SharedTypes
  <2> QED
    BY <2>1, <2>2, <2>3, <2>4, <2>5, <2>6, <2>7, StaysFrom
<1> QED
  BY <1>1, <1>2, <1>3, <1>4

(* The allocation.                                                          *)
LEMMA AllocStays ==
  ASSUME TypeInv, NEW t \in Threads,
         Alloc(t) \/ AllocPanics(t)
  PROVE  Stays(t)
<1> USE DEF TypeInv, mem, data, insv, iter, Goto
<1>0. Place(t)
  OBVIOUS
<1>1. ASSUME Alloc(t) PROVE Stays(t)
  <2>9. allocated + 1 \in Nodes
    BY <1>1, SizeAssumption DEF Alloc, Nodes, SharedTypes
  <2>0. PICK n \in Nodes :
          /\ n = allocated + 1 /\ allocated' = n
          /\ key' = [key EXCEPT ![n] = ctx[t].key]
          /\ height' = [height EXCEPT ![n] = tall[t]]
          /\ node' = [node EXCEPT ![t] = n]
    BY <1>1, <2>9 DEF Alloc
  <2>8. /\ \/ pc' = [pc EXCEPT ![t] = "link"] /\ ctx' = ctx /\ since' = since
           \/ /\ pc' = [pc EXCEPT ![t] = "load_max"]
              /\ ctx' = [ctx EXCEPT ![t] = Blank(ctx[t].key)]
              /\ since' = [since EXCEPT ![t] = Len(links[0])]
        /\ UNCHANGED <<next, entries, max_level, op, ops, tall, at, max_height,
                       item, bound, out, links>>
    BY <1>1 DEF Alloc, BeginSearch
  <2>1. SharedTypes'
    <3>1. allocated' \in 0 .. ArenaNodes
      BY <2>0, SizeAssumption DEF Nodes
    <3> QED
      BY <2>0, <2>8, <3>1, CtxFacts DEF SharedTypes, InserterTypes
  <2>2. CallTypes'
    <3>1. Len(links[0]) \in Nat
      BY NodeFacts DEF SharedTypes
    <3> QED
      BY <2>8, <3>1 DEF CallTypes, PcValues
  <2>3. InserterTypes'
    BY <2>0, <2>8, NodeFacts DEF InserterTypes
  <2>4. IteratorTypes'
    BY <2>8 DEF IteratorTypes
  <2>5. CtxTypes'
    BY <2>8, CtxFacts, BlankIsCtx DEF CtxTypes
  <2>6. OthersKept(t)
    BY <2>0, <2>8, SizeAssumption DEF OthersKept, CallTypes, CtxTypes, InserterTypes, SharedTypes
  <2>7. Place(t)'
    <3>1. /\ pc[t] = "alloc" /\ pc'[t] \in {"link", "load_max"}
          /\ node'[t] = n /\ n # Null /\ UNCHANGED <<at, tall, max_level>>
      BY <1>1, <2>0, <2>8, NodeFacts DEF Alloc, CallTypes, InserterTypes
    <3>2. t \in Writers /\ tall[t] >= 1 /\ at[t] = 0 /\ tall[t] <= max_level
      BY <1>0, <3>1 DEF Place, Searching
    <3>3. tall[t] \in Nat
      BY SizeAssumption DEF InserterTypes
    <3> QED
      BY <3>1, <3>2, <3>3 DEF Place, Searching
  <2> QED
    BY <2>1, <2>2, <2>3, <2>4, <2>5, <2>6, <2>7, StaysFrom
<1>2. ASSUME AllocPanics(t) PROVE Stays(t)
  <2>1. SharedTypes'
    BY <1>2, NodeFacts, SizeAssumption DEF AllocPanics, SharedTypes
  <2>2. CallTypes'
    BY <1>2, NodeFacts, SizeAssumption DEF AllocPanics, CallTypes, PcValues,
       SharedTypes
  <2>3. InserterTypes'
    BY <1>2, NodeFacts, SizeAssumption DEF AllocPanics, InserterTypes,
       SharedTypes
  <2>4. IteratorTypes'
    BY <1>2, NodeFacts, SizeAssumption, BoundFacts DEF AllocPanics, IteratorTypes
  <2>5. CtxTypes'
    BY <1>2, NodeFacts, SizeAssumption, CtxFacts, BlankIsCtx DEF AllocPanics, CtxTypes
  <2>6. OthersKept(t)
    BY <1>2, NodeFacts, SizeAssumption DEF AllocPanics, OthersKept, CallTypes,
       InserterTypes, IteratorTypes, CtxTypes, SharedTypes
  <2>7. Place(t)'
    BY <1>0, <1>2, NodeFacts, SizeAssumption DEF AllocPanics, Place, Searching,
       CallTypes, InserterTypes, CtxTypes, Ctx, SharedTypes
  <2> QED
    BY <2>1, <2>2, <2>3, <2>4, <2>5, <2>6, <2>7, StaysFrom
<1> QED
  BY <1>1, <1>2

(* The links of the new node, and the return.                               *)
LEMMA LinkStays ==
  ASSUME TypeInv, NEW t \in Threads,
         LinkSucceeds(t) \/ LinkFails(t) \/ Return(t)
  PROVE  Stays(t)
<1> USE DEF TypeInv, mem, data, insv, iter, Goto
<1>0. Place(t)
  OBVIOUS
<1>1. ASSUME LinkSucceeds(t) PROVE Stays(t)
  <2>0. /\ pc[t] = "link" /\ node[t] \in Nodes /\ at[t] \in Levels
        /\ at[t] \in Nat /\ tall[t] \in 0 .. MaxHeadHeight /\ at[t] < tall[t]
        /\ Pred(t) \in Starts /\ Succ(t) \in NodeOrNull
    <3>1. pc[t] = "link" /\ node[t] # Null /\ at[t] < tall[t]
      BY <1>0, <1>1 DEF LinkSucceeds, Place
    <3>2. /\ at[t] \in 0 .. MaxHeadHeight /\ tall[t] \in 0 .. MaxHeadHeight
          /\ node[t] \in NodeOrNull
      BY DEF InserterTypes
    <3>3. at[t] \in Levels /\ at[t] \in Nat
      BY <3>1, <3>2, SizeAssumption DEF Levels
    <3> QED
      BY <3>1, <3>2, <3>3, NodeFacts, CtxFacts DEF Pred, Succ
  <2>8. OwnTower(t) \in Tower
    BY <2>0, NodeFacts, TowerUpdate DEF OwnTower, SharedTypes
  <2>1. SharedTypes'
    <3>1. PICK n1 : n1 = [next EXCEPT ![node[t]] = OwnTower(t)]
      OBVIOUS
    <3>2. n1 \in [Starts -> Tower]
      BY <2>0, <2>8, <3>1, NodeFacts DEF SharedTypes
    <3>3. next' = [n1 EXCEPT ![Pred(t)] = [n1[Pred(t)] EXCEPT ![at[t]] = node[t]]]
      BY <1>1, <3>1 DEF LinkSucceeds
    <3>4. [n1[Pred(t)] EXCEPT ![at[t]] = node[t]] \in Tower
      BY <2>0, <3>2, NodeFacts, TowerUpdate
    <3>5. next' \in [Starts -> Tower]
      BY <2>0, <3>2, <3>3, <3>4
    <3>6. links' \in [Levels -> Seq(Nodes)]
      BY <1>1, <2>0 DEF LinkSucceeds, SharedTypes
    <3> QED
      BY <1>1, <3>5, <3>6 DEF LinkSucceeds, SharedTypes
  <2>2. CallTypes'
    BY <1>1, NodeFacts, SizeAssumption DEF LinkSucceeds, CallTypes, PcValues,
       SharedTypes
  <2>3. InserterTypes'
    <3>1. at[t] + 1 \in 0 .. MaxHeadHeight
      BY <2>0, SizeAssumption
    <3> QED
      BY <1>1, <3>1 DEF LinkSucceeds, InserterTypes
  <2>4. IteratorTypes'
    BY <1>1, NodeFacts, SizeAssumption, BoundFacts DEF LinkSucceeds, IteratorTypes
  <2>5. CtxTypes'
    BY <1>1, NodeFacts, SizeAssumption, CtxFacts, BlankIsCtx DEF LinkSucceeds, CtxTypes
  <2>6. OthersKept(t)
    BY <1>1, NodeFacts, SizeAssumption DEF LinkSucceeds, OthersKept, CallTypes,
       InserterTypes, IteratorTypes, CtxTypes, SharedTypes
  <2>7. Place(t)'
    <3>1. /\ at'[t] = at[t] + 1 /\ UNCHANGED <<node, tall, max_level>>
          /\ pc'[t] = IF at[t] + 1 < tall[t] THEN "link" ELSE "return"
      BY <1>1 DEF LinkSucceeds, CallTypes, InserterTypes
    <3>2. t \in Writers /\ tall[t] <= max_level /\ node[t] # Null
      BY <1>0, <2>0, NodeFacts DEF Place
    <3>3. CASE at[t] + 1 < tall[t]
      BY <3>1, <3>2, <3>3 DEF Place, Searching
    <3>4. CASE ~(at[t] + 1 < tall[t])
      <4>1. at[t] + 1 = tall[t]
        BY <2>0, <3>4
      <4> QED
        BY <3>1, <3>2, <4>1 DEF Place, Searching
    <3> QED
      BY <3>3, <3>4
  <2> QED
    BY <2>1, <2>2, <2>3, <2>4, <2>5, <2>6, <2>7, StaysFrom
<1>2. ASSUME LinkFails(t) PROVE Stays(t)
  <2>0. /\ pc[t] = "link" /\ node[t] \in Nodes /\ at[t] \in Levels
        /\ at[t] \in Nat /\ tall[t] \in 0 .. MaxHeadHeight /\ at[t] < tall[t]
        /\ Pred(t) \in Starts /\ Succ(t) \in NodeOrNull
    <3>1. pc[t] = "link" /\ node[t] # Null /\ at[t] < tall[t]
      BY <1>0, <1>2 DEF LinkFails, Place
    <3>2. /\ at[t] \in 0 .. MaxHeadHeight /\ tall[t] \in 0 .. MaxHeadHeight
          /\ node[t] \in NodeOrNull
      BY DEF InserterTypes
    <3>3. at[t] \in Levels /\ at[t] \in Nat
      BY <3>1, <3>2, SizeAssumption DEF Levels
    <3> QED
      BY <3>1, <3>2, <3>3, NodeFacts, CtxFacts DEF Pred, Succ
  <2>8. OwnTower(t) \in Tower
    BY <2>0, NodeFacts, TowerUpdate DEF OwnTower, SharedTypes
  <2>1. SharedTypes'
    BY <1>2, <2>0, <2>8, NodeFacts DEF LinkFails, SharedTypes
  <2>2. CallTypes'
    BY <1>2, NodeFacts, SizeAssumption DEF LinkFails, BeginSearch, CallTypes, PcValues,
       SharedTypes
  <2>3. InserterTypes'
    BY <1>2, NodeFacts, SizeAssumption DEF LinkFails, BeginSearch, InserterTypes,
       SharedTypes
  <2>4. IteratorTypes'
    BY <1>2, NodeFacts, SizeAssumption, BoundFacts DEF LinkFails, BeginSearch, IteratorTypes
  <2>5. CtxTypes'
    BY <1>2, NodeFacts, SizeAssumption, CtxFacts, BlankIsCtx DEF LinkFails, BeginSearch, CtxTypes
  <2>6. OthersKept(t)
    BY <1>2, NodeFacts, SizeAssumption DEF LinkFails, BeginSearch, OthersKept, CallTypes,
       InserterTypes, IteratorTypes, CtxTypes, SharedTypes
  <2>7. Place(t)'
    BY <1>0, <1>2, NodeFacts, SizeAssumption DEF LinkFails, BeginSearch, Place, Searching,
       CallTypes, InserterTypes, CtxTypes, Ctx, SharedTypes
  <2> QED
    BY <2>1, <2>2, <2>3, <2>4, <2>5, <2>6, <2>7, StaysFrom
<1>3. ASSUME Return(t) PROVE Stays(t)
  <2>1. SharedTypes'
    BY <1>3, NodeFacts, SizeAssumption DEF Return, SharedTypes
  <2>2. CallTypes'
    BY <1>3, NodeFacts, SizeAssumption DEF Return, CallTypes, PcValues,
       SharedTypes
  <2>3. InserterTypes'
    BY <1>3, NodeFacts, SizeAssumption DEF Return, InserterTypes,
       SharedTypes
  <2>4. IteratorTypes'
    BY <1>3, NodeFacts, SizeAssumption, BoundFacts DEF Return, IteratorTypes
  <2>5. CtxTypes'
    BY <1>3, NodeFacts, SizeAssumption, CtxFacts, BlankIsCtx DEF Return, CtxTypes
  <2>6. OthersKept(t)
    BY <1>3, NodeFacts, SizeAssumption DEF Return, OthersKept, CallTypes,
       InserterTypes, IteratorTypes, CtxTypes, SharedTypes
  <2>7. Place(t)'
    BY <1>0, <1>3, NodeFacts, SizeAssumption DEF Return, Place, Searching,
       CallTypes, InserterTypes, CtxTypes, Ctx, SharedTypes
  <2> QED
    BY <2>1, <2>2, <2>3, <2>4, <2>5, <2>6, <2>7, StaysFrom
<1> QED
  BY <1>1, <1>2, <1>3

(* The steps of an iterator.                                                *)
LEMMA ScanStays ==
  ASSUME TypeInv, NEW t \in Threads,
         Position(t) \/ Yield(t) \/ EndScan(t)
  PROVE  Stays(t)
<1> USE DEF TypeInv, mem, data, insv, iter, Goto
<1>0. Place(t)
  OBVIOUS
<1>1. ASSUME Position(t) PROVE Stays(t)
  <2>1. SharedTypes'
    BY <1>1, NodeFacts, SizeAssumption DEF Position, SharedTypes
  <2>2. CallTypes'
    BY <1>1, NodeFacts, SizeAssumption DEF Position, CallTypes, PcValues,
       SharedTypes
  <2>3. InserterTypes'
    BY <1>1, NodeFacts, SizeAssumption DEF Position, InserterTypes,
       SharedTypes
  <2>4. IteratorTypes'
    BY <1>1, NodeFacts, CtxFacts DEF Position, IteratorTypes
  <2>5. CtxTypes'
    BY <1>1, NodeFacts, SizeAssumption, CtxFacts, BlankIsCtx DEF Position, CtxTypes
  <2>6. OthersKept(t)
    BY <1>1, NodeFacts, SizeAssumption DEF Position, OthersKept, CallTypes,
       InserterTypes, IteratorTypes, CtxTypes, SharedTypes
  <2>7. Place(t)'
    BY <1>0, <1>1, NodeFacts, SizeAssumption DEF Position, Place, Searching,
       CallTypes, InserterTypes, CtxTypes, Ctx, SharedTypes
  <2> QED
    BY <2>1, <2>2, <2>3, <2>4, <2>5, <2>6, <2>7, StaysFrom
<1>2. ASSUME Yield(t) PROVE Stays(t)
  <2>1. SharedTypes'
    BY <1>2, NodeFacts, SizeAssumption DEF Yield, SharedTypes
  <2>2. CallTypes'
    BY <1>2, NodeFacts, SizeAssumption DEF Yield, CallTypes, PcValues,
       SharedTypes
  <2>3. InserterTypes'
    BY <1>2, NodeFacts, SizeAssumption DEF Yield, InserterTypes,
       SharedTypes
  <2>4. IteratorTypes'
    <3>1. item[t] \in Nodes
      BY <1>2, NodeFacts DEF Yield, AtEnd, IteratorTypes
    <3>2. next[item[t]][0] \in NodeOrNull
      BY <3>1, NodeFacts, CtxFacts
    <3>3. Append(out[t], item[t]) \in Seq(Nodes)
      BY <3>1 DEF IteratorTypes
    <3> QED
      BY <1>2, <3>2, <3>3 DEF Yield, IteratorTypes
  <2>5. CtxTypes'
    BY <1>2, NodeFacts, SizeAssumption, CtxFacts, BlankIsCtx DEF Yield, CtxTypes
  <2>6. OthersKept(t)
    BY <1>2, NodeFacts, SizeAssumption DEF Yield, OthersKept, CallTypes,
       InserterTypes, IteratorTypes, CtxTypes, SharedTypes
  <2>7. Place(t)'
    BY <1>0, <1>2, NodeFacts, SizeAssumption DEF Yield, Place, Searching,
       CallTypes, InserterTypes, CtxTypes, Ctx, SharedTypes
  <2> QED
    BY <2>1, <2>2, <2>3, <2>4, <2>5, <2>6, <2>7, StaysFrom
<1>3. ASSUME EndScan(t) PROVE Stays(t)
  <2>1. SharedTypes'
    BY <1>3, NodeFacts, SizeAssumption DEF EndScan, SharedTypes
  <2>2. CallTypes'
    BY <1>3, NodeFacts, SizeAssumption DEF EndScan, CallTypes, PcValues,
       SharedTypes
  <2>3. InserterTypes'
    BY <1>3, NodeFacts, SizeAssumption DEF EndScan, InserterTypes,
       SharedTypes
  <2>4. IteratorTypes'
    BY <1>3, NodeFacts, BoundFacts DEF EndScan, IteratorTypes
  <2>5. CtxTypes'
    BY <1>3, NodeFacts, SizeAssumption, CtxFacts, BlankIsCtx DEF EndScan, CtxTypes
  <2>6. OthersKept(t)
    BY <1>3, NodeFacts, SizeAssumption DEF EndScan, OthersKept, CallTypes,
       InserterTypes, IteratorTypes, CtxTypes, SharedTypes
  <2>7. Place(t)'
    BY <1>0, <1>3, NodeFacts, SizeAssumption DEF EndScan, Place, Searching,
       CallTypes, InserterTypes, CtxTypes, Ctx, SharedTypes
  <2> QED
    BY <2>1, <2>2, <2>3, <2>4, <2>5, <2>6, <2>7, StaysFrom
<1> QED
  BY <1>1, <1>2, <1>3

(* Every step of the list keeps the types.                                  *)
LEMMA StepStays ==
  ASSUME TypeInv, NEW t \in Threads, Begin(t) \/ Step(t)
  PROVE  Stays(t)
  BY BeginStays, SearchStays, RaiseStays, AllocStays, LinkStays, ScanStays
  DEF Begin, Step, SearchStep, InsertStep, ScanStep

(* The types are an invariant.                                              *)
LEMMA NextTypeInv == TypeInv /\ [Next]_vars => TypeInv'
<1> SUFFICES ASSUME TypeInv, [Next]_vars PROVE TypeInv'
  OBVIOUS
<1>1. CASE Next
  BY <1>1, StepStays DEF Next, Stays
<1>2. CASE UNCHANGED vars
  BY <1>2 DEF vars, mem, data, insv, iter, TypeInv, SharedTypes, CallTypes,
     InserterTypes, IteratorTypes, CtxTypes, Place
<1> QED
  BY <1>1, <1>2

(* The types hold throughout.                                               *)
LEMMA TypesThroughout == Spec => []TypeInv
  BY InitTypeInv, NextTypeInv, PTL DEF Spec

(* Every variable keeps its type: no search and no insertion ever looks at  *)
(* a level outside a tower, follows null or links a node it does not have.  *)
THEOREM SkipListTypeOK == Spec => []TypeOK
  BY TypeInvImpliesTypeOK, TypesThroughout, PTL

-----------------------------------------------------------------------------
(* Nodes: who has them, on which levels they are, and what searches know.   *)

On(l) == ToSet(links[l])

(* A linked node was allocated, and is linked on the level below.           *)
LevelsNest ==
  \A l \in Levels :
    /\ \A n \in On(l) : n \in Nodes /\ n <= allocated
    /\ l > 0 => \A n \in On(l) : n \in On(l - 1)

(* Nothing was written in a tower before its node is allocated.             *)
FreshNodes ==
  \A n \in Nodes, l \in Levels : n > allocated => next[n][l] = Null

(* A node without an inserter is linked on all its levels.                  *)
Returned ==
  \A n \in Nodes :
    n <= allocated /\ (\A t \in Writers : node[t] # n) =>
      \A l \in Levels : l < height[n] => n \in On(l)

NodesDiffer ==
  \A t, u \in Threads : node[t] # Null /\ node[t] = node[u] => t = u

(* What a search has recorded: predecessors with smaller keys, successors   *)
(* with keys that are not smaller, each linked on its level.  It stays true *)
(* however many nodes are linked between them.                              *)
KnownSmaller(n, l, k) == n # Sentinel => n \in On(l) /\ key[n] < k
KnownNotLess(n, l, k) == n # Null => n \in On(l) /\ key[n] >= k

SearchOk(t) ==
  /\ \A l \in Levels : KnownSmaller(ctx[t].preds[l], l, ctx[t].key)
  /\ \A l \in Levels : KnownNotLess(ctx[t].succs[l], l, ctx[t].key)
  /\ pc[t] \in {"load_max", "skip"} =>
       ctx[t].pred = Sentinel /\ \A l \in Levels : ctx[t].succs[l] = Null
  /\ pc[t] = "walk" => KnownSmaller(ctx[t].pred, ctx[t].level - 1, ctx[t].key)

(* An inserter's node is linked on the levels below `at` and no other; what *)
(* its tower has on level `at`, from a compare-and-swap that failed, is a   *)
(* node that is not smaller.                                                *)
NodeOk(t) ==
  node[t] # Null =>
    /\ node[t] <= allocated
    /\ key[node[t]] = ctx[t].key
    /\ height[node[t]] = tall[t]
    /\ \A l \in Levels : node[t] \in On(l) <=> l < at[t]
    /\ \A l \in Levels : l > at[t] => next[node[t]][l] = Null
    /\ \A l \in Levels : l = at[t] => KnownNotLess(next[node[t]][l], l, key[node[t]])

NodeInv ==
  /\ LevelsNest /\ FreshNodes /\ Returned /\ NodesDiffer
  /\ \A t \in Threads : SearchOk(t) /\ NodeOk(t)

(* A context before its search knows nothing.                               *)
LEMMA BlankFacts ==
  ASSUME NEW k
  PROVE  /\ Blank(k).key = k /\ Blank(k).level = 0 /\ Blank(k).pred = Sentinel
         /\ \A l \in Levels : Blank(k).preds[l] = Sentinel /\ Blank(k).succs[l] = Null
  BY DEF Blank

(* The nodes on a level, and their types.                                   *)
LEMMA OnFacts ==
  ASSUME TypeInv
  PROVE  /\ \A l \in Levels : \A n \in On(l) : n \in Nodes
         /\ \A l \in Levels : links[l] \in Seq(Nodes)
         /\ \A n \in Nodes : key[n] \in Int /\ key[n] \in Keys
         /\ \A t \in Threads : ctx[t].key \in Int
         /\ allocated \in Nat /\ allocated <= ArenaNodes
<1>1. links \in [Levels -> Seq(Nodes)] /\ key \in [Nodes -> Keys] /\ allocated \in 0 .. ArenaNodes
  BY DEF TypeInv, SharedTypes
<1>2. \A l \in Levels : links[l] \in Seq(Nodes)
  BY <1>1
<1>3. \A l \in Levels : \A n \in On(l) : n \in Nodes
  BY <1>2 DEF On, ToSet
<1>4. \A k \in Keys : k \in Int
  BY KeyAssumption
<1> QED
  BY <1>1, <1>2, <1>3, <1>4, CtxFacts, SizeAssumption

(* Nobody has a node in the first state.                                    *)
LEMMA InitNodeInv == Init => NodeInv
<1> SUFFICES ASSUME Init PROVE NodeInv
  OBVIOUS
<1>1. /\ \A l \in Levels : On(l) = {}
      /\ \A n \in Nodes, l \in Levels : next[n][l] = Null
      /\ \A t \in Threads : /\ node[t] = Null /\ pc[t] = "idle"
                            /\ \A l \in Levels : /\ ctx[t].preds[l] = Sentinel
                                                 /\ ctx[t].succs[l] = Null
      /\ \A n \in Nodes : ~(n <= allocated)
  <2>1. \A l \in Levels : On(l) = {}
    BY DEF Init, On, ToSet
  <2>2. \A n \in Nodes, l \in Levels : next[n][l] = Null
    BY NodeFacts DEF Init, Starts
  <2>3. \A n \in Nodes : ~(n <= allocated)
    BY SizeAssumption DEF Init, Nodes
  <2> QED
    BY <2>1, <2>2, <2>3, BlankFacts DEF Init
<1>2. LevelsNest /\ FreshNodes /\ Returned /\ NodesDiffer
  BY <1>1 DEF LevelsNest, FreshNodes, Returned, NodesDiffer
<1>3. \A t \in Threads : SearchOk(t) /\ NodeOk(t)
  BY <1>1 DEF SearchOk, NodeOk, KnownSmaller, KnownNotLess
<1> QED
  BY <1>2, <1>3 DEF NodeInv

(* What is known of a level stays true when nodes are added to it.          *)
Grows ==
  /\ \A l \in Levels : \A n \in On(l) : n \in On(l)'
  /\ \A n \in Nodes : n <= allocated => key'[n] = key[n]

(* A search that is left alone stays right.                                 *)
LEMMA SearchKept ==
  ASSUME TypeInv, LevelsNest, Grows, NEW u \in Threads, SearchOk(u), Place(u),
         ctx'[u] = ctx[u], pc'[u] = pc[u]
  PROVE  SearchOk(u)'
<1>1. ASSUME NEW l \in Levels, NEW n, NEW k
      PROVE  /\ KnownSmaller(n, l, k) => KnownSmaller(n, l, k)'
             /\ KnownNotLess(n, l, k) => KnownNotLess(n, l, k)'
  BY DEF KnownSmaller, KnownNotLess, LevelsNest, Grows
<1>2. PICK c : c = ctx[u]
  OBVIOUS
<1>3. pc[u] = "walk" => c.level - 1 \in Levels
  BY <1>2, CtxFacts, NodeFacts, SizeAssumption DEF Place
<1>4. /\ \A l \in Levels : KnownSmaller(c.preds[l], l, c.key) /\ KnownNotLess(c.succs[l], l, c.key)
      /\ pc[u] \in {"load_max", "skip"} =>
           c.pred = Sentinel /\ \A l \in Levels : c.succs[l] = Null
      /\ pc[u] = "walk" => KnownSmaller(c.pred, c.level - 1, c.key)
  BY <1>2 DEF SearchOk
<1>5. \A l \in Levels : KnownSmaller(c.preds[l], l, c.key)' /\ KnownNotLess(c.succs[l], l, c.key)'
  <2> SUFFICES ASSUME NEW l \in Levels
               PROVE  KnownSmaller(c.preds[l], l, c.key)' /\ KnownNotLess(c.succs[l], l, c.key)'
    OBVIOUS
  <2>1. PICK m, q, k : m = c.preds[l] /\ q = c.succs[l] /\ k = c.key
    OBVIOUS
  <2>2. KnownSmaller(m, l, k)' /\ KnownNotLess(q, l, k)'
    BY <1>1, <1>4, <2>1
  <2> QED
    BY <2>1, <2>2 DEF KnownSmaller, KnownNotLess
<1>6. pc[u] = "walk" => KnownSmaller(c.pred, c.level - 1, c.key)'
  <2> SUFFICES ASSUME pc[u] = "walk" PROVE KnownSmaller(c.pred, c.level - 1, c.key)'
    OBVIOUS
  <2>1. PICK m, l, k : m = c.pred /\ l = c.level - 1 /\ k = c.key
    OBVIOUS
  <2>2. KnownSmaller(m, l, k)'
    BY <1>1, <1>3, <1>4, <2>1
  <2> QED
    BY <2>1, <2>2
<1> QED
  BY <1>2, <1>4, <1>5, <1>6 DEF SearchOk, KnownSmaller, KnownNotLess

(* A step that touches no node, of an inserter that keeps its node.         *)
LEMMA QuietNodes ==
  ASSUME TypeInv, NodeInv, NEW t \in Threads, OthersKept(t),
         UNCHANGED <<key, height, next, allocated, links>>, node' = node,
         node[t] # Null => at'[t] = at[t] /\ tall'[t] = tall[t] /\ ctx'[t].key = ctx[t].key,
         SearchOk(t)'
  PROVE  NodeInv'
<1>1. LevelsNest' /\ FreshNodes' /\ Returned' /\ NodesDiffer' /\ Grows
  <2>1. LevelsNest'
    BY DEF NodeInv, LevelsNest, On
  <2>2. FreshNodes'
    BY DEF NodeInv, FreshNodes
  <2>3. Returned'
    BY DEF NodeInv, Returned, On
  <2>4. NodesDiffer' /\ Grows
    BY DEF NodeInv, NodesDiffer, Grows, On
  <2> QED
    BY <2>1, <2>2, <2>3, <2>4
<1>2. ASSUME NEW u \in Threads PROVE NodeOk(u)'
  <2>1. NodeOk(u)
    BY DEF NodeInv
  <2>2. node[u] # Null => at'[u] = at[u] /\ tall'[u] = tall[u] /\ ctx'[u].key = ctx[u].key
    BY DEF OthersKept
  <2> QED
    BY <2>1, <2>2 DEF NodeOk, KnownNotLess, On
<1>3. ASSUME NEW u \in Threads PROVE SearchOk(u)'
  <2>1. CASE u # t
    BY <1>1, <2>1, SearchKept DEF NodeInv, OthersKept, TypeInv
  <2> QED
    BY <2>1
<1> QED
  BY <1>1, <1>2, <1>3 DEF NodeInv

-----------------------------------------------------------------------------
(* The lists.  A sequence s of nodes is level l if the pointers run along   *)
(* it, it has the nodes linked there once each, and its keys do not fall.   *)
NoRepeats(s) == \A i, j \in 1 .. Len(s) : s[i] = s[j] => i = j

LevelList(s, l) ==
  /\ s \in Seq(Nodes) /\ NoRepeats(s)
  /\ Len(s) = Len(links[l])
  /\ \A n \in Nodes : n \in On(l) <=> \E i \in 1 .. Len(s) : s[i] = n
  /\ Len(s) = 0 => next[Sentinel][l] = Null
  /\ Len(s) > 0 => next[Sentinel][l] = s[1] /\ next[s[Len(s)]][l] = Null
  /\ \A i \in 1 .. Len(s) - 1 : next[s[i]][l] = s[i + 1]
  /\ \A i, j \in 1 .. Len(s) : i < j => key[s[i]] <= key[s[j]]

ListInv == \A l \in Levels : \E s : LevelList(s, l)

(* A pointer on a level leads to a node of that level.                      *)
LEMMA NextIsOn ==
  ASSUME TypeInv, ListInv, NEW l \in Levels, NEW n, n = Sentinel \/ n \in On(l),
         next[n][l] # Null
  PROVE  next[n][l] \in On(l)
<1>1. PICK s : LevelList(s, l)
  BY DEF ListInv
<1>2. /\ s \in Seq(Nodes) /\ Len(s) \in Nat
      /\ \A i \in 1 .. Len(s) : s[i] \in Nodes /\ s[i] \in On(l)
  BY <1>1 DEF LevelList
<1>3. CASE n = Sentinel
  BY <1>1, <1>2, <1>3 DEF LevelList
<1>4. CASE n \in On(l)
  <2>1. PICK i \in 1 .. Len(s) : s[i] = n
    BY <1>1, <1>4, OnFacts DEF LevelList
  <2>2. i # Len(s)
    BY <1>1, <1>2, <2>1 DEF LevelList
  <2>3. i \in 1 .. Len(s) - 1 /\ i + 1 \in 1 .. Len(s)
    BY <1>2, <2>1, <2>2
  <2> QED
    BY <1>1, <1>2, <2>1, <2>3 DEF LevelList
<1> QED
  BY <1>3, <1>4

(* A search that begins knows nothing, which is right.                      *)
LEMMA BlankSearch ==
  ASSUME NEW t \in Threads, NEW k, ctx'[t] = Blank(k), pc'[t] # "walk"
  PROVE  SearchOk(t)'
  BY BlankFacts DEF SearchOk, KnownSmaller, KnownNotLess

(* The calls begin, and the steps between the search and the allocation.    *)
LEMMA BeginNodes ==
  ASSUME TypeInv, NodeInv, NEW t \in Threads,
         \/ Begin(t) \/ CountEntry(t) \/ DrawHeight(t) \/ RaiseMaxLevel(t)
         \/ RaiseFails(t) \/ AllocPanics(t) \/ ScanStep(t)
  PROVE  NodeInv'
<1> USE DEF mem, data, insv, iter, Goto
<1>1. OthersKept(t) /\ Place(t) /\ SearchOk(t)
  BY StepStays DEF Step, InsertStep, Stays, TypeInv, NodeInv
<1>2. ASSUME Begin(t) \/ EndScan(t) PROVE NodeInv'
  <2>1. /\ UNCHANGED <<key, height, next, allocated, links, node>>
        /\ pc[t] \in {"idle", "scan"}
    BY <1>2 DEF Begin, Insert, InsertWith, Seek, Iter, Start, EndScan
  <2>2. node[t] = Null
    BY <1>1, <2>1 DEF Place, Searching
  <2>3. \/ ctx' = ctx /\ pc'[t] = "scan"
        \/ \E k : ctx'[t] = Blank(k) /\ pc'[t] # "walk"
    BY <1>2 DEF Begin, Insert, InsertWith, Seek, Iter, Start, BeginSearch,
       EndScan, TypeInv, CtxTypes, CallTypes
  <2>4. SearchOk(t)'
    <3>1. CASE ctx' = ctx /\ pc'[t] = "scan"
      BY <1>1, <2>1, <3>1 DEF SearchOk, KnownSmaller, KnownNotLess, On
    <3> QED
      BY <2>3, <3>1, BlankSearch
  <2> QED
    BY <1>1, <2>1, <2>2, <2>4, QuietNodes
<1>3. ASSUME \/ CountEntry(t) \/ DrawHeight(t) \/ RaiseMaxLevel(t) \/ RaiseFails(t)
             \/ AllocPanics(t) \/ Position(t) \/ Yield(t)
      PROVE NodeInv'
  <2>1. /\ UNCHANGED <<key, height, next, allocated, links, node, ctx>>
        /\ pc[t] \in {"count", "draw", "raise", "alloc", "found", "scan"}
        /\ pc'[t] \in {"draw", "raise", "alloc", "panicked", "scan"}
    BY <1>3 DEF CountEntry, DrawHeight, RaiseMaxLevel, RaiseFails, AllocPanics,
       Position, Yield, TypeInv, CallTypes
  <2>2. node[t] = Null
    BY <1>1, <2>1 DEF Place, Searching
  <2>3. SearchOk(t)'
    BY <1>1, <2>1 DEF SearchOk, KnownSmaller, KnownNotLess, On
  <2> QED
    BY <1>1, <2>1, <2>2, <2>3, QuietNodes
<1> QED
  BY <1>2, <1>3 DEF ScanStep

(* The steps of a search: what it walks to and what it records is linked on *)
(* its level and on the right side of its key.                              *)
LEMMA SearchNodes ==
  ASSUME TypeInv, NodeInv, ListInv, NEW t \in Threads, SearchStep(t)
  PROVE  NodeInv'
<1> USE DEF mem, data, insv, iter, Goto
<1>1. OthersKept(t) /\ Place(t) /\ SearchOk(t) /\ ctx[t] \in Ctx
  BY StepStays, CtxFacts DEF Step, Stays, TypeInv, NodeInv
<1>2. /\ UNCHANGED <<key, height, next, allocated, links, node, at, tall>>
      /\ pc[t] \in Searching
  BY DEF SearchStep, LoadMaxLevel, SkipLevel, EnterLevel, Advance, Descend, Searching
<1>3. \A l \in Levels : On(l)' = On(l)
  BY <1>2 DEF On
<1>4. /\ \A l \in Levels : KnownSmaller(ctx[t].preds[l], l, ctx[t].key)
      /\ \A l \in Levels : KnownNotLess(ctx[t].succs[l], l, ctx[t].key)
  BY <1>1 DEF SearchOk
<1>5. ASSUME LoadMaxLevel(t) \/ SkipLevel(t) \/ EnterLevel(t) PROVE NodeInv'
  <2>1. /\ ctx'[t].key = ctx[t].key /\ ctx'[t].pred = ctx[t].pred
        /\ ctx'[t].preds = ctx[t].preds /\ ctx'[t].succs = ctx[t].succs
        /\ pc[t] \in {"load_max", "skip"}
        /\ pc'[t] \in {"skip", "walk", "found", "count", "link"}
    BY <1>1, <1>5, AfterSearchFacts DEF LoadMaxLevel, SkipLevel, EnterLevel,
       TypeInv, CtxTypes, CallTypes, Ctx
  <2>2. SearchOk(t)'
    BY <1>1, <1>2, <1>3, <1>4, <2>1 DEF SearchOk, KnownSmaller, KnownNotLess
  <2> QED
    BY <1>1, <1>2, <2>1, <2>2, QuietNodes
<1>6. ASSUME Advance(t) \/ Descend(t)
      PROVE  /\ pc[t] = "walk" /\ ctx[t].level \in 1 .. MaxHeadHeight
             /\ ctx[t].level - 1 \in Levels
             /\ KnownSmaller(ctx[t].pred, ctx[t].level - 1, ctx[t].key)
             /\ Curr(t) \in NodeOrNull
             /\ Curr(t) # Null => Curr(t) \in On(ctx[t].level - 1)
  <2>1. pc[t] = "walk" /\ ctx[t].level \in 1 .. MaxHeadHeight /\ ctx[t].level - 1 \in Levels
    BY <1>1, <1>6, CtxFacts, NodeFacts, SizeAssumption DEF Advance, Descend, Place
  <2>2. KnownSmaller(ctx[t].pred, ctx[t].level - 1, ctx[t].key)
    BY <1>1, <2>1 DEF SearchOk
  <2>3. Curr(t) \in NodeOrNull
    BY <2>1, CtxFacts DEF Curr
  <2>4. PICK l \in Levels, n \in Starts : l = ctx[t].level - 1 /\ n = ctx[t].pred
    BY <2>1, CtxFacts
  <2>5. n = Sentinel \/ n \in On(l)
    BY <2>2, <2>4 DEF KnownSmaller
  <2>6. next[n][l] # Null => next[n][l] \in On(l)
    BY <2>5, NextIsOn
  <2> QED
    BY <2>1, <2>2, <2>3, <2>4, <2>6 DEF Curr
<1>7. ASSUME Advance(t) PROVE NodeInv'
  <2>1. /\ ctx'[t].key = ctx[t].key /\ ctx'[t].pred = Curr(t)
        /\ ctx'[t].level = ctx[t].level
        /\ ctx'[t].preds = ctx[t].preds /\ ctx'[t].succs = ctx[t].succs
        /\ pc' = pc /\ Curr(t) # Null /\ key[Curr(t)] < ctx[t].key
    BY <1>1, <1>7 DEF Advance, Before, TypeInv, CtxTypes, Ctx
  <2>2. PICK m, l, k : m = Curr(t) /\ l = ctx[t].level - 1 /\ k = ctx[t].key
    OBVIOUS
  <2>3. KnownSmaller(m, l, k)'
    BY <1>2, <1>3, <1>6, <1>7, <2>1, <2>2 DEF KnownSmaller
  <2>4. SearchOk(t)'
    BY <1>1, <1>2, <1>3, <1>4, <1>6, <1>7, <2>1, <2>2, <2>3
    DEF SearchOk, KnownSmaller, KnownNotLess
  <2> QED
    BY <1>1, <1>2, <2>1, <2>4, QuietNodes
<1>8. ASSUME Descend(t) PROVE NodeInv'
  <2>0. PICK m, q, l, k : /\ m = ctx[t].pred /\ l = ctx[t].level - 1 /\ k = ctx[t].key
                          /\ q = Curr(t)
    OBVIOUS
  <2>1. /\ ctx'[t].key = k /\ ctx'[t].pred = m /\ ctx'[t].level = l
        /\ ctx'[t].preds = [ctx[t].preds EXCEPT ![l] = m]
        /\ ctx'[t].succs = [ctx[t].succs EXCEPT ![l] = q]
        /\ pc'[t] = IF l = 0 THEN AfterSearch(t) ELSE "walk"
        /\ q # Null => ~(key[q] < k)
    <3>1. ctx[t].level = 1 <=> l = 0
      BY <1>6, <1>8, <2>0
    <3> QED
      BY <1>1, <1>8, <2>0, <3>1 DEF Descend, Before, TypeInv, CtxTypes, CallTypes, Ctx
  <2>2. /\ \A j \in Levels : j # l => /\ ctx'[t].preds[j] = ctx[t].preds[j]
                                      /\ ctx'[t].succs[j] = ctx[t].succs[j]
        /\ ctx'[t].preds[l] = m /\ ctx'[t].succs[l] = q
    BY <1>1, <1>6, <1>8, <2>0, <2>1 DEF Ctx, Tower
  <2>3. KnownSmaller(m, l, k) /\ l \in Levels
    BY <1>6, <1>8, <2>0
  <2>4. KnownNotLess(q, l, k)
    <3>1. q # Null => q \in On(l) /\ q \in Nodes
      BY <1>6, <1>8, <2>0, NodeFacts
    <3>2. k \in Int /\ (q \in Nodes => key[q] \in Int)
      BY <2>0, OnFacts
    <3> QED
      BY <2>1, <3>1, <3>2 DEF KnownNotLess
  <2>5. \A j \in Levels : /\ KnownSmaller(ctx'[t].preds[j], j, k)
                          /\ KnownNotLess(ctx'[t].succs[j], j, k)
    <3> SUFFICES ASSUME NEW j \in Levels
                 PROVE  /\ KnownSmaller(ctx'[t].preds[j], j, k)
                        /\ KnownNotLess(ctx'[t].succs[j], j, k)
      OBVIOUS
    <3>1. CASE j = l
      BY <2>2, <2>3, <2>4, <3>1
    <3>2. CASE j # l
      BY <1>4, <2>0, <2>2, <3>2
    <3> QED
      BY <3>1, <3>2
  <2>6. pc'[t] \in {"walk", "found", "count", "link"}
        /\ (pc'[t] = "walk" => l > 0 /\ l - 1 \in Levels)
    <3>1. l # 0 => l > 0 /\ l - 1 \in Levels
      BY <2>3, SizeAssumption DEF Levels
    <3>2. pc'[t] \in {"walk", "found", "count", "link"} /\ (pc'[t] = "walk" => l # 0)
      BY <2>1, AfterSearchFacts
    <3> QED
      BY <3>1, <3>2
  <2>7. pc'[t] = "walk" => KnownSmaller(m, l - 1, k)
    BY <2>3, <2>6 DEF KnownSmaller, NodeInv, LevelsNest
  <2>8. SearchOk(t)'
    BY <1>2, <1>3, <2>1, <2>5, <2>6, <2>7 DEF SearchOk, KnownSmaller, KnownNotLess
  <2>9. ctx'[t].key = ctx[t].key
    BY <2>0, <2>1
  <2> QED
    BY <1>1, <1>2, <2>8, <2>9, QuietNodes
<1> QED
  BY <1>5, <1>7, <1>8 DEF SearchStep

(* A call returns: its node is linked on all its levels.                    *)
LEMMA ReturnNodes ==
  ASSUME TypeInv, NodeInv, NEW t \in Threads, Return(t)
  PROVE  NodeInv'
<1> USE DEF mem, data, insv, iter, Goto
<1>1. OthersKept(t) /\ Place(t) /\ NodeOk(t)
  BY StepStays DEF Step, InsertStep, Stays, TypeInv, NodeInv
<1>2. /\ UNCHANGED <<key, height, next, allocated, links>> /\ pc[t] = "return"
      /\ node' = [node EXCEPT ![t] = Null] /\ node'[t] = Null
      /\ ctx'[t] = Blank(AnyKey) /\ pc'[t] = "idle"
  BY DEF Return, TypeInv, InserterTypes, CtxTypes, CallTypes
<1>3. node[t] # Null /\ at[t] = tall[t]
  BY <1>1, <1>2 DEF Place
<1>4. LevelsNest' /\ Grows /\ FreshNodes'
  BY <1>2 DEF NodeInv, LevelsNest, FreshNodes, Grows, On
<1>5. NodesDiffer'
  BY <1>2 DEF NodeInv, NodesDiffer, OthersKept, TypeInv, InserterTypes
<1>6. Returned'
  <2> SUFFICES ASSUME NEW n \in Nodes, n <= allocated,
                      \A u \in Writers : node'[u] # n,
                      NEW l \in Levels, l < height[n]
               PROVE  n \in On(l)
    BY <1>2 DEF Returned, On
  <2>1. CASE n = node[t]
    BY <1>1, <1>3, <2>1 DEF NodeOk
  <2>2. CASE n # node[t]
    <3>1. \A u \in Writers : node[u] # n
      BY <1>1, <2>2 DEF OthersKept, Threads
    <3> QED
      BY <3>1 DEF NodeInv, Returned
  <2> QED
    BY <2>1, <2>2
<1>7. ASSUME NEW u \in Threads PROVE SearchOk(u)' /\ NodeOk(u)'
  <2>1. CASE u = t
    BY <1>2, <2>1, BlankSearch DEF NodeOk
  <2>2. CASE u # t
    <3>1. SearchOk(u)'
      BY <1>1, <1>4, <2>2, SearchKept DEF NodeInv, OthersKept, TypeInv
    <3>2. NodeOk(u)'
      BY <1>1, <1>2, <2>2 DEF NodeInv, OthersKept, NodeOk, KnownNotLess, On
    <3> QED
      BY <3>1, <3>2
  <2> QED
    BY <2>1, <2>2
<1> QED
  BY <1>4, <1>5, <1>6, <1>7 DEF NodeInv

(* A level whose nodes, pointers and keys are left alone.                   *)
LEMMA LevelKept ==
  ASSUME NEW s, NEW l \in Levels, LevelList(s, l), links'[l] = links[l],
         next'[Sentinel][l] = next[Sentinel][l],
         \A n \in Nodes : n \in On(l) => next'[n][l] = next[n][l] /\ key'[n] = key[n]
  PROVE  LevelList(s, l)'
<1>1. s \in Seq(Nodes) /\ Len(s) \in Nat /\ On(l)' = On(l)
  BY DEF LevelList, On
<1>2. \A i \in 1 .. Len(s) : /\ s[i] \in Nodes
                             /\ next'[s[i]][l] = next[s[i]][l] /\ key'[s[i]] = key[s[i]]
  BY <1>1 DEF LevelList
<1>3. Len(s) > 0 => next'[s[Len(s)]][l] = next[s[Len(s)]][l]
  BY <1>1, <1>2
<1>4. \A i \in 1 .. Len(s) - 1 : next'[s[i]][l] = next[s[i]][l]
  BY <1>1, <1>2
<1> QED
  BY <1>1, <1>2, <1>3, <1>4 DEF LevelList

(* Levels that nobody links a node on stay nested.                          *)
LEMMA NestKept ==
  ASSUME TypeInv, LevelsNest, allocated' \in Nat, allocated <= allocated',
         \A l \in Levels : On(l)' = On(l)
  PROVE  LevelsNest'
<1> SUFFICES ASSUME NEW l \in Levels
             PROVE  /\ \A n \in On(l)' : n \in Nodes /\ n <= allocated'
                    /\ l > 0 => \A n \in On(l)' : n \in On(l - 1)'
  BY DEF LevelsNest
<1>1. \A n \in On(l)' : n \in Nodes /\ n <= allocated'
  BY OnFacts DEF LevelsNest, Nodes
<1>2. ASSUME l > 0 PROVE \A n \in On(l)' : n \in On(l - 1)'
  <2>1. l - 1 \in Levels
    BY <1>2, SizeAssumption DEF Levels
  <2>2. On(l - 1)' = On(l - 1)
    BY <2>1
  <2> QED
    BY <1>2, <2>2 DEF LevelsNest
<1> QED
  BY <1>1, <1>2

(* The allocation writes a node that nothing leads to.                      *)
LEMMA AllocNodes ==
  ASSUME TypeInv, NodeInv, ListInv, NEW t \in Threads, Alloc(t)
  PROVE  NodeInv' /\ \A s, l : l \in Levels /\ LevelList(s, l) => LevelList(s, l)'
<1> USE DEF mem, data, insv, iter, Goto
<1>1. OthersKept(t) /\ Place(t) /\ NodeOk(t) /\ SearchOk(t) /\ t \in Writers
      /\ pc[t] = "alloc" /\ node[t] = Null /\ at[t] = 0
  <2>1. OthersKept(t) /\ Place(t) /\ NodeOk(t) /\ SearchOk(t) /\ pc[t] = "alloc"
    BY StepStays DEF Step, InsertStep, Stays, TypeInv, NodeInv, Alloc
  <2> QED
    BY <2>1 DEF Place, Searching
<1>2. allocated + 1 \in Nodes
  BY SizeAssumption DEF Alloc, Nodes, TypeInv, SharedTypes
<1>3. PICK n \in Nodes :
        /\ n = allocated + 1 /\ allocated' = n
        /\ key' = [key EXCEPT ![n] = ctx[t].key]
        /\ height' = [height EXCEPT ![n] = tall[t]]
        /\ node' = [node EXCEPT ![t] = n]
  BY <1>2 DEF Alloc
<1>4. /\ n > allocated /\ \A m \in Nodes : m <= allocated' <=> m <= allocated \/ m = n
      /\ \A m \in Nodes : m <= allocated => m # n
  BY <1>3, OnFacts DEF Nodes
<1>5. /\ key'[n] = ctx[t].key /\ height'[n] = tall[t] /\ node'[t] = n /\ n # Null
      /\ \A m \in Nodes : m # n => key'[m] = key[m] /\ height'[m] = height[m]
      /\ \A u \in Threads : u # t => node'[u] = node[u]
      /\ UNCHANGED <<next, links, at, tall>>
  BY <1>3, NodeFacts DEF Alloc, TypeInv, SharedTypes, InserterTypes
<1>6. /\ ctx'[t].key = ctx[t].key
      /\ \/ ctx' = ctx /\ pc'[t] = "link"
         \/ \E k : ctx'[t] = Blank(k) /\ pc'[t] = "load_max"
  BY BlankFacts DEF Alloc, BeginSearch, TypeInv, CallTypes, CtxTypes
<1>7. \A l \in Levels : /\ On(l)' = On(l) /\ n \notin On(l)
                        /\ \A m \in On(l) : m \in Nodes /\ m <= allocated
  BY <1>4, <1>5 DEF On, NodeInv, LevelsNest
<1>8. LevelsNest' /\ Grows
  <2>1. allocated' \in Nat /\ allocated <= allocated'
    BY <1>3, OnFacts DEF Nodes
  <2>2. LevelsNest'
    BY <1>7, <2>1, NestKept DEF NodeInv
  <2>3. Grows
    BY <1>4, <1>5, <1>7 DEF Grows
  <2> QED
    BY <2>2, <2>3
<1>9. FreshNodes'
  <2>1. \A m \in Nodes : m > allocated' => m > allocated
    BY <1>3, OnFacts DEF Nodes
  <2> QED
    BY <1>5, <2>1 DEF FreshNodes, NodeInv
<1>10. NodesDiffer'
  <2>1. \A u \in Threads : u # t => node'[u] # n
    BY <1>4, <1>5 DEF NodeInv, NodeOk
  <2> QED
    BY <1>5, <2>1 DEF NodeInv, NodesDiffer
<1>11. Returned'
  <2> SUFFICES ASSUME NEW m \in Nodes, m <= allocated',
                      \A u \in Writers : node'[u] # m,
                      NEW l \in Levels, l < height'[m]
               PROVE  m \in On(l)
    BY <1>7 DEF Returned
  <2>1. m # n /\ m <= allocated /\ height'[m] = height[m]
    BY <1>1, <1>4, <1>5
  <2>2. \A u \in Writers : node[u] # m
    BY <1>1, <1>5, NodeFacts DEF Threads
  <2> QED
    BY <2>1, <2>2 DEF NodeInv, Returned
<1>12. NodeOk(t)'
  <2>1. \A l \in Levels : /\ ~(l < at'[t]) /\ n \notin On(l)' /\ next'[n][l] = Null
    BY <1>1, <1>4, <1>5, <1>7, NodeFacts DEF NodeInv, FreshNodes
  <2> QED
    BY <1>3, <1>5, <1>6, <2>1, OnFacts DEF NodeOk, KnownNotLess
<1>13. ASSUME NEW u \in Threads, u # t PROVE NodeOk(u)'
  <2>1. NodeOk(u) /\ node'[u] = node[u] /\ ctx'[u] = ctx[u] /\ at'[u] = at[u] /\ tall'[u] = tall[u]
        /\ node[u] \in NodeOrNull
    BY <1>1, <1>13 DEF NodeInv, OthersKept, TypeInv, InserterTypes
  <2>2. node[u] # Null => node[u] \in Nodes /\ node[u] <= allocated /\ node[u] <= allocated'
                          /\ node[u] # n
    BY <1>4, <2>1, NodeFacts DEF NodeOk
  <2>3. \A l \in Levels : \A m, k : KnownNotLess(m, l, k) => KnownNotLess(m, l, k)'
    BY <1>4, <1>5, <1>7 DEF KnownNotLess
  <2>4. node[u] # Null =>
          /\ key'[node[u]] = key[node[u]] /\ height'[node[u]] = height[node[u]]
          /\ \A l \in Levels : node[u] \in On(l)' <=> node[u] \in On(l)
    BY <1>5, <1>7, <2>2
  <2>5. node[u] # Null =>
          \A l \in Levels : l = at[u] => KnownNotLess(next[node[u]][l], l, key[node[u]])'
    <3> SUFFICES ASSUME node[u] # Null, NEW l \in Levels, l = at[u]
                 PROVE  KnownNotLess(next[node[u]][l], l, key[node[u]])'
      OBVIOUS
    <3>1. PICK m, k : m = next[node[u]][l] /\ k = key[node[u]]
      OBVIOUS
    <3>2. KnownNotLess(m, l, k)'
      BY <2>1, <2>3, <3>1 DEF NodeOk
    <3> QED
      BY <1>5, <2>1, <2>4, <3>1, <3>2 DEF KnownNotLess
  <2> QED
    BY <1>5, <2>1, <2>2, <2>4, <2>5 DEF NodeOk
<1>14. ASSUME NEW u \in Threads PROVE SearchOk(u)'
  <2>1. CASE u # t
    BY <1>1, <1>8, <2>1, SearchKept DEF NodeInv, OthersKept, TypeInv
  <2>2. CASE ctx' = ctx /\ pc'[t] = "link" /\ u = t
    <3>1. \A l \in Levels : \A m, k :
            /\ KnownNotLess(m, l, k) => KnownNotLess(m, l, k)'
            /\ KnownSmaller(m, l, k) => KnownSmaller(m, l, k)'
      BY <1>4, <1>5, <1>7 DEF KnownNotLess, KnownSmaller
    <3>2. PICK c : c = ctx[t]
      OBVIOUS
    <3>3. ASSUME NEW l \in Levels
          PROVE  KnownSmaller(c.preds[l], l, c.key)' /\ KnownNotLess(c.succs[l], l, c.key)'
      <4>1. PICK a, b, k : a = c.preds[l] /\ b = c.succs[l] /\ k = c.key
        OBVIOUS
      <4>2. KnownSmaller(a, l, k)' /\ KnownNotLess(b, l, k)'
        BY <1>1, <3>1, <3>2, <4>1 DEF SearchOk
      <4> QED
        BY <4>1, <4>2
    <3> QED
      BY <2>2, <3>2, <3>3 DEF SearchOk, KnownSmaller, KnownNotLess
  <2> QED
    BY <1>6, <2>1, <2>2, BlankSearch
<1>15. NodeInv'
  BY <1>8, <1>9, <1>10, <1>11, <1>12, <1>13, <1>14 DEF NodeInv
<1>16. ASSUME NEW s, NEW l \in Levels, LevelList(s, l) PROVE LevelList(s, l)'
  <2>1. \A m \in Nodes : m \in On(l) => next'[m][l] = next[m][l] /\ key'[m] = key[m]
    BY <1>4, <1>5, <1>7
  <2> QED
    BY <1>5, <1>16, <2>1, LevelKept
<1> QED
  BY <1>15, <1>16

(* A compare-and-swap fails: only the tower of the inserter's node changes, *)
(* on a level where it is not linked.                                       *)
LEMMA LinkFailsNodes ==
  ASSUME TypeInv, NodeInv, ListInv, NEW t \in Threads, LinkFails(t)
  PROVE  NodeInv' /\ \A s, l : l \in Levels /\ LevelList(s, l) => LevelList(s, l)'
<1> USE DEF mem, data, insv, iter, Goto
<1>1. OthersKept(t) /\ Place(t) /\ NodeOk(t) /\ SearchOk(t) /\ pc[t] = "link"
  BY StepStays DEF Step, InsertStep, Stays, TypeInv, NodeInv, LinkFails
<1>2. PICK n, j, q : n = node[t] /\ j = at[t] /\ q = Succ(t)
  OBVIOUS
<1>3. n \in Nodes /\ n # Null /\ j \in Levels /\ j \in Nat
  <2>1. n # Null /\ at[t] < tall[t]
    BY <1>1, <1>2 DEF Place
  <2>2. at[t] \in 0 .. MaxHeadHeight /\ tall[t] \in 0 .. MaxHeadHeight /\ node[t] \in NodeOrNull
    BY DEF TypeInv, InserterTypes
  <2> QED
    BY <1>2, <2>1, <2>2, NodeFacts, SizeAssumption DEF Levels
<1>4. /\ next' = [next EXCEPT ![n] = IF q = Null THEN next[n] ELSE [next[n] EXCEPT ![j] = q]]
      /\ ctx'[t] = Blank(ctx[t].key) /\ pc'[t] = "load_max"
      /\ UNCHANGED <<key, height, allocated, node, at, tall, links>>
  BY <1>2 DEF LinkFails, OwnTower, BeginSearch, TypeInv, CtxTypes, CallTypes
<1>5. /\ \A m \in Starts, l \in Levels : m # n \/ l # j => next'[m][l] = next[m][l]
      /\ next'[n][j] = IF q = Null THEN next[n][j] ELSE q
  BY <1>3, <1>4, NodeFacts DEF TypeInv, SharedTypes, Tower
<1>6. /\ n <= allocated /\ key[n] = ctx[t].key /\ n \notin On(j)
      /\ KnownNotLess(q, j, ctx[t].key) /\ KnownNotLess(next[n][j], j, key[n])
  <2>1. n \notin On(j)
    BY <1>1, <1>2, <1>3 DEF NodeOk
  <2> QED
    BY <1>1, <1>2, <1>3, <2>1 DEF NodeOk, SearchOk, Succ
<1>7. \A l \in Levels : On(l)' = On(l)
  BY <1>4 DEF On
<1>8. LevelsNest' /\ Grows /\ Returned' /\ NodesDiffer'
  <2>1. LevelsNest' /\ Grows
    <3>1. allocated' \in Nat /\ allocated <= allocated'
      BY <1>4, OnFacts
    <3> QED
      BY <1>4, <1>7, <3>1, NestKept DEF NodeInv, Grows
  <2>2. Returned'
    BY <1>4, <1>7 DEF Returned, NodeInv
  <2>3. NodesDiffer'
    BY <1>4 DEF NodesDiffer, NodeInv
  <2> QED
    BY <2>1, <2>2, <2>3
<1>9. FreshNodes'
  <2>1. \A m \in Nodes : m > allocated => m # n /\ m \in Starts
    BY <1>6, NodeFacts, OnFacts DEF Nodes
  <2> QED
    BY <1>4, <1>5, <2>1 DEF FreshNodes, NodeInv
<1>10. NodeOk(t)'
  <2>1. \A l \in Levels : l > j => next'[n][l] = Null
    <3> SUFFICES ASSUME NEW l \in Levels, l > j PROVE next'[n][l] = Null
      OBVIOUS
    <3>1. l # j
      BY <1>3, NodeFacts
    <3>2. next'[n][l] = next[n][l]
      BY <1>3, <1>5, <3>1, NodeFacts
    <3> QED
      BY <1>1, <1>2, <1>3, <3>2 DEF NodeOk
  <2>2. KnownNotLess(next[n][j], j, key[n])'
    BY <1>3, <1>4, <1>5, <1>6, <1>7 DEF KnownNotLess
  <2>3. ctx'[t].key = ctx[t].key
    BY <1>4, BlankFacts
  <2> QED
    BY <1>1, <1>2, <1>3, <1>4, <1>7, <2>1, <2>2, <2>3 DEF NodeOk
<1>11. ASSUME NEW u \in Threads, u # t PROVE NodeOk(u)'
  <2>1. NodeOk(u) /\ ctx'[u] = ctx[u] /\ node[u] \in NodeOrNull
    BY <1>1, <1>11 DEF NodeInv, OthersKept, TypeInv, InserterTypes
  <2>2. node[u] # Null => node[u] # n /\ node[u] \in Starts
    BY <1>2, <1>3, <1>11, <2>1, NodeFacts DEF NodeInv, NodesDiffer
  <2>3. node[u] # Null => \A l \in Levels : next'[node[u]][l] = next[node[u]][l]
    BY <1>5, <2>2
  <2> QED
    BY <1>4, <1>7, <2>1, <2>3 DEF NodeOk, KnownNotLess
<1>12. ASSUME NEW u \in Threads PROVE SearchOk(u)'
  <2>1. CASE u # t
    BY <1>1, <1>8, <2>1, SearchKept DEF NodeInv, OthersKept, TypeInv
  <2> QED
    BY <1>4, <2>1, BlankSearch
<1>13. NodeInv'
  BY <1>8, <1>9, <1>10, <1>11, <1>12 DEF NodeInv
<1>14. ASSUME NEW s, NEW l \in Levels, LevelList(s, l) PROVE LevelList(s, l)'
  <2>1. \A m \in Nodes : m \in On(l) => next'[m][l] = next[m][l] /\ key'[m] = key[m]
    BY <1>4, <1>5, <1>6, NodeFacts
  <2>2. next'[Sentinel][l] = next[Sentinel][l]
    BY <1>3, <1>5, NodeFacts
  <2> QED
    BY <1>4, <1>14, <2>1, <2>2, LevelKept
<1> QED
  BY <1>13, <1>14


-----------------------------------------------------------------------------
(* A node is linked: s2 is s with node n after the first i.                 *)
Inserted(s, s2, i, n) ==
  /\ s2 \in Seq(Nodes) /\ Len(s2) = Len(s) + 1
  /\ s2[i + 1] = n
  /\ \A a \in 1 .. Len(s) : s2[IF a <= i THEN a ELSE a + 1] = s[a]

(* There is such a sequence.                                                *)
LEMMA InsertedExists ==
  ASSUME NEW s \in Seq(Nodes), NEW i \in 0 .. Len(s), NEW n \in Nodes
  PROVE  \E s2 : Inserted(s, s2, i, n)
<1>1. PICK m \in Nat : m = Len(s)
  OBVIOUS
<1> DEFINE f == [a \in 1 .. m + 1 |->
                   IF a <= i THEN s[a] ELSE IF a = i + 1 THEN n ELSE s[a - 1]]
<1>2. \A a \in 1 .. m + 1 : f[a] \in Nodes
  <2> SUFFICES ASSUME NEW a \in 1 .. m + 1 PROVE f[a] \in Nodes
    OBVIOUS
  <2>1. CASE a <= i
    BY <1>1, <2>1
  <2>2. CASE a = i + 1
    BY <1>1, <2>2
  <2>3. CASE a > i + 1
    <3>1. a - 1 \in 1 .. m /\ f[a] = s[a - 1]
      BY <1>1, <2>3
    <3> QED
      BY <1>1, <3>1
  <2> QED
    BY <1>1, <2>1, <2>2, <2>3
<1>3. f \in Seq(Nodes) /\ Len(f) = m + 1
  <2>1. f \in [1 .. m + 1 -> Nodes]
    BY <1>2
  <2> HIDE DEF f
  <2> QED
    BY <1>1, <2>1
<1>4. f[i + 1] = n
  BY <1>1
<1>5. \A a \in 1 .. Len(s) : f[IF a <= i THEN a ELSE a + 1] = s[a]
  BY <1>1
<1> HIDE DEF f
<1> QED
  BY <1>1, <1>3, <1>4, <1>5 DEF Inserted

(* The two halves of the longer sequence, and where each index comes from.  *)
Halves(s, s2, i, n) ==
  /\ s2 \in Seq(Nodes) /\ Len(s2) = Len(s) + 1 /\ Len(s) \in Nat /\ s2[i + 1] = n
  /\ i \in 0 .. Len(s) /\ i + 1 \in 1 .. Len(s2)
  /\ \A a \in 1 .. i : s2[a] = s[a] /\ s[a] \in Nodes /\ a \in 1 .. Len(s)
  /\ \A a \in i + 1 .. Len(s) : s2[a + 1] = s[a] /\ s[a] \in Nodes /\ a \in 1 .. Len(s)
  /\ \A b \in 1 .. Len(s2) :
       \/ b <= i /\ b \in 1 .. i /\ b \in 1 .. Len(s) /\ s2[b] = s[b]
       \/ b = i + 1 /\ s2[b] = n
       \/ b > i + 1 /\ b - 1 \in i + 1 .. Len(s) /\ b - 1 \in 1 .. Len(s) /\ s2[b] = s[b - 1]

LEMMA InsertedFacts ==
  ASSUME NEW s \in Seq(Nodes), NEW s2, NEW i \in 0 .. Len(s), NEW n, Inserted(s, s2, i, n)
  PROVE  Halves(s, s2, i, n)
<1>1. /\ s2 \in Seq(Nodes) /\ Len(s2) = Len(s) + 1 /\ Len(s) \in Nat /\ s2[i + 1] = n
      /\ i \in 0 .. Len(s) /\ i + 1 \in 1 .. Len(s2)
  BY DEF Inserted
<1>2. \A a \in 1 .. i : s2[a] = s[a] /\ s[a] \in Nodes /\ a \in 1 .. Len(s)
  BY <1>1 DEF Inserted
<1>3. \A a \in i + 1 .. Len(s) : s2[a + 1] = s[a] /\ s[a] \in Nodes /\ a \in 1 .. Len(s)
  BY <1>1 DEF Inserted
<1>4. ASSUME NEW b \in 1 .. Len(s2), b > i + 1
      PROVE  b - 1 \in i + 1 .. Len(s) /\ b - 1 \in 1 .. Len(s) /\ s2[b] = s[b - 1]
  <2>1. b - 1 \in i + 1 .. Len(s) /\ b - 1 \in 1 .. Len(s) /\ (b - 1) + 1 = b
    BY <1>1, <1>4
  <2>2. s2[(b - 1) + 1] = s[b - 1]
    BY <1>3, <2>1
  <2> QED
    BY <2>1, <2>2
<1>5. ASSUME NEW b \in 1 .. Len(s2), b <= i
      PROVE  b \in 1 .. i /\ b \in 1 .. Len(s) /\ s2[b] = s[b]
  BY <1>1, <1>2, <1>5
<1>6. \A b \in 1 .. Len(s2) : b <= i \/ b = i + 1 \/ b > i + 1
  BY <1>1
<1> QED
  BY <1>1, <1>2, <1>3, <1>4, <1>5, <1>6 DEF Halves

(* The longer sequence repeats nothing if the node is new.                  *)
LEMMA InsertedDiffer ==
  ASSUME NEW s \in Seq(Nodes), NEW s2, NEW i \in 0 .. Len(s), NEW n, Inserted(s, s2, i, n),
         NoRepeats(s), \A a \in 1 .. Len(s) : s[a] # n
  PROVE  NoRepeats(s2)
<1>0. Halves(s, s2, i, n)
  BY InsertedFacts
<1> SUFFICES ASSUME NEW a \in 1 .. Len(s2), NEW b \in 1 .. Len(s2), a < b
             PROVE  s2[a] # s2[b]
  BY <1>0 DEF NoRepeats, Halves
<1>1. /\ s2[i + 1] = n /\ Len(s) \in Nat
      /\ \A c \in 1 .. Len(s2) :
           c # i + 1 => \E d \in 1 .. Len(s) : s2[c] = s[d] /\ d = IF c <= i THEN c ELSE c - 1
  BY <1>0 DEF Halves
<1>2. CASE a = i + 1 \/ b = i + 1
  BY <1>1, <1>2, <1>0 DEF Halves
<1>3. CASE a # i + 1 /\ b # i + 1
  <2>1. PICK c \in 1 .. Len(s) : s2[a] = s[c] /\ c = IF a <= i THEN a ELSE a - 1
    BY <1>1, <1>3
  <2>2. PICK d \in 1 .. Len(s) : s2[b] = s[d] /\ d = IF b <= i THEN b ELSE b - 1
    BY <1>1, <1>3
  <2>3. c # d
    BY <1>1, <1>3, <2>1, <2>2, <1>0 DEF Halves
  <2> QED
    BY <2>1, <2>2, <2>3 DEF NoRepeats
<1> QED
  BY <1>2, <1>3

(* It has the nodes of the shorter one, and the new node.                   *)
LEMMA InsertedNodes ==
  ASSUME NEW s \in Seq(Nodes), NEW s2, NEW i \in 0 .. Len(s), NEW n, Inserted(s, s2, i, n)
  PROVE  \A m \in Nodes :
           (\E b \in 1 .. Len(s2) : s2[b] = m) <=> (m = n \/ \E a \in 1 .. Len(s) : s[a] = m)
<1> SUFFICES ASSUME NEW m \in Nodes
             PROVE  (\E b \in 1 .. Len(s2) : s2[b] = m) <=>
                      (m = n \/ \E a \in 1 .. Len(s) : s[a] = m)
  OBVIOUS
<1>0. Halves(s, s2, i, n)
  BY InsertedFacts
<1>1. ASSUME NEW b \in 1 .. Len(s2), s2[b] = m
      PROVE  m = n \/ \E a \in 1 .. Len(s) : s[a] = m
  BY <1>0, <1>1 DEF Halves
<1>2. ASSUME NEW a \in 1 .. Len(s), s[a] = m PROVE \E b \in 1 .. Len(s2) : s2[b] = m
  <2>1. CASE a <= i
    BY <1>2, <2>1, <1>0 DEF Halves
  <2>2. CASE a > i
    <3>1. a + 1 \in 1 .. Len(s2) /\ s2[a + 1] = s[a]
      BY <1>2, <2>2, <1>0 DEF Halves
    <3> QED
      BY <1>2, <3>1
  <2> QED
    BY <2>1, <2>2, <1>0 DEF Halves
<1>3. i + 1 \in 1 .. Len(s2) /\ s2[i + 1] = n
  BY <1>0 DEF Halves
<1> QED
  BY <1>1, <1>2, <1>3

(* Where the new node goes: p is the node before it, or the head.           *)
Between(s, i, p, q, n, l) ==
  /\ i \in 0 .. Len(s)
  /\ i = 0 => p = Sentinel
  /\ i > 0 => p = s[i]
  /\ q = IF i = Len(s) THEN Null ELSE s[i + 1]
  /\ \A a \in 1 .. i : key[s[a]] < key[n]
  /\ \A a \in i + 1 .. Len(s) : key[s[a]] >= key[n]

(* A level on which a node is linked in its place.                          *)
LEMMA LevelGrows ==
  ASSUME TypeInv, NEW s, NEW s2, NEW l \in Levels, NEW i, NEW p, NEW q, NEW n \in Nodes,
         LevelList(s, l), Between(s, i, p, q, n, l), Inserted(s, s2, i, n),
         n \notin On(l), \A m \in Nodes : m \in On(l)' <=> m = n \/ m \in On(l),
         Len(links'[l]) = Len(links[l]) + 1,
         \A m \in Starts : m # p /\ m # n => next'[m][l] = next[m][l],
         next'[p][l] = n, next'[n][l] = q, key' = key
  PROVE  LevelList(s2, l)'
<1>1. /\ s \in Seq(Nodes) /\ Len(s) \in Nat /\ NoRepeats(s) /\ i \in 0 .. Len(s)
      /\ \A a \in 1 .. Len(s) : /\ s[a] \in Nodes /\ s[a] \in On(l) /\ s[a] # n
                                /\ s[a] # Sentinel /\ s[a] \in Starts
  BY NodeFacts DEF LevelList, Between
<1>0. Halves(s, s2, i, n)
  BY <1>1, InsertedFacts
<1>2. s2 \in Seq(Nodes) /\ NoRepeats(s2) /\ Len(s2) \in Nat
  <2>1. NoRepeats(s2)
    BY <1>1, InsertedDiffer
  <2> QED
    BY <1>0, <2>1 DEF Halves
<1>3. Len(s2) = Len(links'[l])
  BY <1>1, <1>0 DEF LevelList, Halves
<1>4. \A m \in Nodes : m \in On(l)' <=> \E b \in 1 .. Len(s2) : s2[b] = m
  <2> SUFFICES ASSUME NEW m \in Nodes
               PROVE  m \in On(l)' <=> \E b \in 1 .. Len(s2) : s2[b] = m
    OBVIOUS
  <2>1. (\E b \in 1 .. Len(s2) : s2[b] = m) <=> (m = n \/ \E a \in 1 .. Len(s) : s[a] = m)
    BY <1>1, InsertedNodes
  <2> QED
    BY <2>1 DEF LevelList
<1>5. Len(s2) > 0 /\ next'[Sentinel][l] = s2[1]
  <2>1. CASE i = 0
    BY <1>1, <2>1, <1>0 DEF Between, Halves
  <2>2. CASE i > 0
    <3>1. p # Sentinel /\ next'[Sentinel][l] = next[Sentinel][l]
      BY <1>1, <2>2, NodeFacts DEF Between
    <3> QED
      BY <1>1, <2>2, <3>1, <1>0 DEF LevelList, Halves
  <2> QED
    BY <1>1, <2>1, <2>2
<1>6. ASSUME NEW a \in 1 .. Len(s), a # i
      PROVE  next'[s[a]][l] = IF a = Len(s) THEN Null ELSE s[a + 1]
  <2>1. s[a] # p
    BY <1>1, <1>6 DEF Between, NoRepeats
  <2>2. next'[s[a]][l] = next[s[a]][l]
    BY <1>1, <2>1
  <2>3. a # Len(s) => a \in 1 .. Len(s) - 1
    BY <1>1
  <2> QED
    BY <1>1, <2>2, <2>3 DEF LevelList
<1>7. next'[s2[Len(s2)]][l] = Null
  <2>1. CASE i = Len(s)
    BY <1>1, <2>1, <1>0 DEF Between, Halves
  <2>2. CASE i # Len(s)
    <3>1. Len(s) \in 1 .. Len(s) /\ Len(s) \in i + 1 .. Len(s)
      BY <1>1, <2>2
    <3>2. s2[Len(s2)] = s[Len(s)]
      BY <1>1, <3>1, <1>0 DEF Halves
    <3> QED
      BY <1>6, <2>2, <3>1, <3>2
  <2> QED
    BY <2>1, <2>2
<1>8. ASSUME NEW b \in 1 .. Len(s2) - 1 PROVE next'[s2[b]][l] = s2[b + 1]
  <2>1. CASE b < i
    <3>1. b \in 1 .. Len(s) /\ b # i /\ b # Len(s) /\ b \in 1 .. i /\ b + 1 \in 1 .. i
      BY <1>1, <2>1
    <3> QED
      BY <1>1, <1>6, <3>1, <1>0 DEF Halves
  <2>2. CASE b = i
    <3>1. i > 0 /\ s2[i] = s[i] /\ s2[i + 1] = n
      BY <1>1, <2>2, <1>0 DEF Halves
    <3> QED
      BY <2>2, <3>1 DEF Between
  <2>3. CASE b = i + 1
    <3>1. i # Len(s) /\ i + 1 \in i + 1 .. Len(s)
      BY <1>1, <2>3, <1>0 DEF Halves
    <3>2. s2[i + 1] = n /\ s2[(i + 1) + 1] = s[i + 1]
      BY <1>1, <3>1, <1>0 DEF Halves
    <3> QED
      BY <2>3, <3>1, <3>2 DEF Between
  <2>4. CASE b > i + 1
    <3>1. PICK a \in 1 .. Len(s) : a = b - 1
      BY <1>1, <2>4, <1>0 DEF Halves
    <3>2. a \in i + 1 .. Len(s) /\ a + 1 \in i + 1 .. Len(s) /\ a # Len(s) /\ a # i
      BY <1>1, <2>4, <3>1, <1>0 DEF Halves
    <3>3. s2[a + 1] = s[a] /\ s2[(a + 1) + 1] = s[a + 1]
      BY <1>1, <3>2, <1>0 DEF Halves
    <3>4. b = a + 1
      BY <3>1, <1>1
    <3> QED
      BY <1>6, <3>2, <3>3, <3>4
  <2> QED
    BY <1>1, <2>1, <2>2, <2>3, <2>4, <1>0 DEF Halves
<1>9. ASSUME NEW a \in 1 .. Len(s2), NEW b \in 1 .. Len(s2), a < b
      PROVE  key[s2[a]] <= key[s2[b]]
  <2>1. \A c \in 1 .. Len(s) : key[s[c]] \in Int
    BY <1>1, OnFacts
  <2>2. key[n] \in Int
    BY OnFacts
  <2>3. \A c \in 1 .. Len(s2) :
          \/ c <= i /\ c \in 1 .. Len(s) /\ c \in 1 .. i /\ s2[c] = s[c]
          \/ c = i + 1 /\ s2[c] = n
          \/ c > i + 1 /\ c - 1 \in i + 1 .. Len(s) /\ c - 1 \in 1 .. Len(s) /\ s2[c] = s[c - 1]
    BY <1>0 DEF Halves
  <2>4. \A c, d \in 1 .. Len(s) : c < d => key[s[c]] <= key[s[d]]
    BY DEF LevelList
  <2>5. CASE b <= i
    BY <1>1, <1>9, <2>3, <2>4, <2>5
  <2>6. CASE b = i + 1
    <3>1. a \in 1 .. i /\ s2[a] = s[a] /\ s2[b] = n
      BY <1>1, <1>9, <2>3, <2>6
    <3>2. a \in 1 .. Len(s)
      BY <1>1, <3>1
    <3> QED
      BY <2>1, <2>2, <3>1, <3>2 DEF Between
  <2>7. CASE b > i + 1
    <3>1. b - 1 \in i + 1 .. Len(s) /\ b - 1 \in 1 .. Len(s) /\ s2[b] = s[b - 1]
      BY <1>1, <1>9, <2>3, <2>7
    <3>2. CASE a = i + 1
      <4>1. key[s[b - 1]] >= key[n] /\ key[s[b - 1]] \in Int
        BY <2>1, <3>1 DEF Between
      <4>2. s2[a] = n
        BY <1>0, <3>2 DEF Halves
      <4> QED
        BY <2>2, <3>1, <4>1, <4>2
    <3>3. CASE a < i + 1
      <4>1. a \in 1 .. Len(s) /\ s2[a] = s[a] /\ a < b - 1
        BY <1>1, <2>3, <2>7, <3>3
      <4> QED
        BY <2>4, <3>1, <4>1
    <3>4. CASE a > i + 1
      <4>1. a - 1 \in 1 .. Len(s) /\ s2[a] = s[a - 1] /\ a - 1 < b - 1
        BY <1>1, <1>9, <2>3, <3>4
      <4> QED
        BY <2>4, <3>1, <4>1
    <3> QED
      BY <1>1, <3>2, <3>3, <3>4
  <2> QED
    BY <1>1, <2>5, <2>6, <2>7
<1> QED
  BY <1>2, <1>3, <1>4, <1>5, <1>7, <1>8, <1>9 DEF LevelList


(* What a compare-and-swap that succeeds changes: the pointers of n and p   *)
(* on level j, and the nodes linked there.                                  *)
Links(t, n, j, p, q) ==
  /\ n = node[t] /\ j = at[t] /\ p = Pred(t)
  /\ n \in Nodes /\ n # Null /\ j \in Levels /\ j \in Nat
  /\ p \in Starts /\ p # n /\ n <= allocated /\ n \notin On(j)
  /\ key[n] = ctx[t].key
  /\ KnownSmaller(p, j, key[n])
  /\ next'[p][j] = n /\ next'[n][j] = q
  /\ \A m \in Starts, l \in Levels : (m # n /\ m # p) \/ l # j => next'[m][l] = next[m][l]
  /\ \A l \in Levels : l # j => links'[l] = links[l] /\ On(l)' = On(l)
  /\ Len(links'[j]) = Len(links[j]) + 1
  /\ \A m : m \in On(j)' <=> m = n \/ m \in On(j)
  /\ at'[t] = j + 1 /\ pc'[t] \in {"link", "return"}
  /\ UNCHANGED <<key, height, allocated, ctx, node, tall>>

(* A node linked is the last of the history of its level.                   *)
LEMMA AppendFacts ==
  ASSUME NEW s \in Seq(Nodes), NEW n \in Nodes
  PROVE  /\ Append(s, n) \in Seq(Nodes) /\ Len(Append(s, n)) = Len(s) + 1 /\ Len(s) \in Nat
         /\ Append(s, n)[Len(s) + 1] = n
         /\ \A i \in 1 .. Len(s) : Append(s, n)[i] = s[i]
         /\ \A m : m \in ToSet(Append(s, n)) <=> m = n \/ m \in ToSet(s)
<1>1. /\ Append(s, n) \in Seq(Nodes) /\ Len(Append(s, n)) = Len(s) + 1 /\ Len(s) \in Nat
      /\ Append(s, n)[Len(s) + 1] = n
      /\ \A i \in 1 .. Len(s) : Append(s, n)[i] = s[i]
  OBVIOUS
<1>2. PICK a : a = Append(s, n)
  OBVIOUS
<1>3. ASSUME NEW m PROVE m \in ToSet(a) <=> m = n \/ m \in ToSet(s)
  <2>1. m \in ToSet(a) <=> \E i \in 1 .. Len(s) + 1 : a[i] = m
    BY <1>1, <1>2 DEF ToSet
  <2>2. m \in ToSet(s) <=> \E i \in 1 .. Len(s) : s[i] = m
    BY DEF ToSet
  <2>3. \A i \in 1 .. Len(s) + 1 : i = Len(s) + 1 \/ i \in 1 .. Len(s)
    BY <1>1
  <2>4. Len(s) + 1 \in 1 .. Len(s) + 1 /\ \A i \in 1 .. Len(s) : i \in 1 .. Len(s) + 1
    BY <1>1
  <2> QED
    BY <1>1, <1>2, <2>1, <2>2, <2>3, <2>4
<1> QED
  BY <1>1, <1>2, <1>3

LEMMA LinkFacts ==
  ASSUME TypeInv, NodeInv, ListInv, NEW t \in Threads, LinkSucceeds(t)
  PROVE  /\ OthersKept(t) /\ Place(t) /\ NodeOk(t) /\ SearchOk(t) /\ t \in Writers
         /\ \E n, j, p, q :
              /\ Links(t, n, j, p, q)
              /\ KnownNotLess(next[p][j], j, key[n])
              /\ KnownNotLess(next[n][j], j, key[n])
              /\ q = IF next[p][j] = Null THEN next[n][j] ELSE next[p][j]
<1> USE DEF mem, data, insv, iter, Goto
<1>1. OthersKept(t) /\ Place(t) /\ NodeOk(t) /\ SearchOk(t) /\ pc[t] = "link" /\ t \in Writers
  <2>1. OthersKept(t) /\ Place(t) /\ NodeOk(t) /\ SearchOk(t) /\ pc[t] = "link"
    BY StepStays DEF Step, InsertStep, Stays, TypeInv, NodeInv, LinkSucceeds
  <2> QED
    BY <2>1 DEF Place
<1>2. PICK n, j, p, q :
        /\ n = node[t] /\ j = at[t] /\ p = Pred(t)
        /\ q = IF Succ(t) = Null THEN next[n][j] ELSE Succ(t)
  OBVIOUS
<1>3. n \in Nodes /\ n # Null /\ j \in Levels /\ j \in Nat
  <2>1. n # Null /\ at[t] < tall[t]
    BY <1>1, <1>2 DEF Place
  <2>2. at[t] \in 0 .. MaxHeadHeight /\ tall[t] \in 0 .. MaxHeadHeight /\ node[t] \in NodeOrNull
    BY DEF TypeInv, InserterTypes
  <2> QED
    BY <1>2, <2>1, <2>2, NodeFacts, SizeAssumption DEF Levels
<1>4. /\ n <= allocated /\ key[n] = ctx[t].key /\ n \notin On(j) /\ p \in Starts
      /\ KnownNotLess(Succ(t), j, key[n]) /\ KnownNotLess(next[n][j], j, key[n])
      /\ KnownSmaller(p, j, key[n]) /\ Succ(t) \in NodeOrNull
  <2>1. n \notin On(j)
    BY <1>1, <1>2, <1>3 DEF NodeOk
  <2>2. p \in Starts /\ Succ(t) \in NodeOrNull
    BY <1>2, <1>3, CtxFacts DEF Pred, Succ
  <2> QED
    BY <1>1, <1>2, <1>3, <2>1, <2>2 DEF NodeOk, SearchOk, Succ, Pred
<1>5. p # n /\ n # Sentinel
  BY <1>3, <1>4, NodeFacts DEF KnownSmaller
<1>6. /\ next[p][j] = Succ(t)
      /\ next' = [next EXCEPT ![n] = IF Succ(t) = Null THEN next[n]
                                     ELSE [next[n] EXCEPT ![j] = Succ(t)],
                              ![p][j] = n]
      /\ links' = [links EXCEPT ![j] = Append(links[j], n)]
      /\ at' = [at EXCEPT ![t] = j + 1]
      /\ pc' = [pc EXCEPT ![t] = IF j + 1 < tall[t] THEN "link" ELSE "return"]
      /\ UNCHANGED <<key, height, allocated, ctx, node, tall>>
  BY <1>2 DEF LinkSucceeds, OwnTower
<1>7. /\ next'[p][j] = n /\ next'[n][j] = q
      /\ \A m \in Starts, l \in Levels : (m # n /\ m # p) \/ l # j => next'[m][l] = next[m][l]
  <2>1. next \in [Starts -> Tower] /\ n \in Starts
    BY <1>3, NodeFacts DEF TypeInv, SharedTypes
  <2> DEFINE f == [next EXCEPT ![n] = IF Succ(t) = Null THEN next[n]
                                      ELSE [next[n] EXCEPT ![j] = Succ(t)]]
  <2>2. /\ f \in [Starts -> Tower] /\ f[n][j] = q
        /\ \A m \in Starts, l \in Levels : m # n \/ l # j => f[m][l] = next[m][l]
    <3>1. CASE Succ(t) = Null
      BY <1>2, <1>3, <2>1, <3>1
    <3>2. CASE Succ(t) # Null
      <4>1. [next[n] EXCEPT ![j] = Succ(t)] \in Tower
        BY <1>3, <1>4, <2>1, TowerUpdate
      <4> QED
        BY <1>2, <1>3, <2>1, <3>2, <4>1 DEF Tower
    <3> QED
      BY <3>1, <3>2
  <2>3. next' = [f EXCEPT ![p][j] = n]
    BY <1>6
  <2> HIDE DEF f
  <2>4. /\ next'[p][j] = n /\ next'[n][j] = f[n][j]
        /\ \A m \in Starts, l \in Levels : m # p \/ l # j => next'[m][l] = f[m][l]
    BY <1>3, <1>4, <1>5, <2>1, <2>2, <2>3 DEF Tower
  <2> QED
    BY <1>3, <1>4, <1>5, <2>1, <2>2, <2>4
<1>8. /\ \A l \in Levels : l # j => links'[l] = links[l] /\ On(l)' = On(l)
      /\ Len(links'[j]) = Len(links[j]) + 1
      /\ \A m : m \in On(j)' <=> m = n \/ m \in On(j)
  <2>1. links'[j] = Append(links[j], n) /\ \A l \in Levels : l # j => links'[l] = links[l]
    BY <1>3, <1>6 DEF TypeInv, SharedTypes
  <2>2. links[j] \in Seq(Nodes)
    BY <1>3, OnFacts
  <2>3. /\ Len(links'[j]) = Len(links[j]) + 1
        /\ \A m : m \in ToSet(links'[j]) <=> m = n \/ m \in ToSet(links[j])
    BY <1>3, <2>1, <2>2, AppendFacts
  <2> QED
    BY <2>1, <2>3 DEF On
<1>9. at'[t] = j + 1 /\ pc'[t] \in {"link", "return"}
  BY <1>6 DEF TypeInv, InserterTypes, CallTypes
<1>10. Links(t, n, j, p, q)
  BY <1>2, <1>3, <1>4, <1>5, <1>6, <1>7, <1>8, <1>9 DEF Links
<1> QED
  BY <1>1, <1>2, <1>4, <1>6, <1>10

(* Where a search for k is on a level: behind the first i nodes, which are  *)
(* smaller, at p.                                                           *)
Splits(s, i, p, k, l) ==
  /\ i \in 0 .. Len(s)
  /\ i = 0 => p = Sentinel
  /\ i > 0 => p = s[i]
  /\ next[p][l] = IF i = Len(s) THEN Null ELSE s[i + 1]
  /\ \A a \in 1 .. i : key[s[a]] < k
  /\ \A a \in i + 1 .. Len(s) : key[s[a]] >= k

(* Two neighbours on either side of k split the level.                      *)
LEMMA Neighbours ==
  ASSUME TypeInv, NEW s, NEW k \in Int, NEW j \in Levels, NEW p, LevelList(s, j),
         KnownSmaller(p, j, k), KnownNotLess(next[p][j], j, k)
  PROVE  \E i : Splits(s, i, p, k, j)
<1>1. /\ s \in Seq(Nodes) /\ Len(s) \in Nat /\ NoRepeats(s)
      /\ \A a \in 1 .. Len(s) : /\ s[a] \in Nodes /\ key[s[a]] \in Int
                                /\ s[a] # Null /\ s[a] # Sentinel
      /\ \A m \in On(j) : \E a \in 1 .. Len(s) : s[a] = m
  BY NodeFacts, OnFacts DEF LevelList
<1>2. \E i \in 0 .. Len(s) : (i = 0 => p = Sentinel) /\ (i > 0 => p = s[i])
  <2>1. CASE p = Sentinel
    <3>1. 0 \in 0 .. Len(s)
      BY <1>1
    <3> QED
      BY <2>1, <3>1
  <2>2. CASE p # Sentinel
    <3>1. PICK a \in 1 .. Len(s) : s[a] = p
      BY <1>1, <2>2 DEF KnownSmaller
    <3>2. a \in 0 .. Len(s) /\ a # 0
      BY <1>1
    <3> QED
      BY <3>1, <3>2
  <2> QED
    BY <2>1, <2>2
<1>3. PICK i \in 0 .. Len(s) : (i = 0 => p = Sentinel) /\ (i > 0 => p = s[i])
  BY <1>2
<1>4. next[p][j] = IF i = Len(s) THEN Null ELSE s[i + 1]
  <2>1. CASE i = 0
    BY <1>1, <1>3, <2>1 DEF LevelList
  <2>2. CASE i > 0 /\ i = Len(s)
    BY <1>1, <1>3, <2>2 DEF LevelList
  <2>3. CASE i > 0 /\ i < Len(s)
    <3>1. i \in 1 .. Len(s) - 1
      BY <1>1, <2>3
    <3> QED
      BY <1>1, <1>3, <2>3, <3>1 DEF LevelList
  <2> QED
    BY <1>1, <2>1, <2>2, <2>3
<1>5. \A a \in 1 .. i : key[s[a]] < k
  <2> SUFFICES ASSUME NEW a \in 1 .. i PROVE key[s[a]] < k
    OBVIOUS
  <2>1. i > 0 /\ p = s[i] /\ a \in 1 .. Len(s) /\ i \in 1 .. Len(s)
    BY <1>1, <1>3
  <2>2. key[s[i]] < k
    BY <1>1, <2>1 DEF KnownSmaller
  <2>3. a = i \/ key[s[a]] <= key[s[i]]
    BY <2>1 DEF LevelList
  <2> QED
    BY <1>1, <2>1, <2>2, <2>3
<1>6. \A a \in i + 1 .. Len(s) : key[s[a]] >= k
  <2> SUFFICES ASSUME NEW a \in i + 1 .. Len(s) PROVE key[s[a]] >= k
    OBVIOUS
  <2>1. i # Len(s) /\ i + 1 \in 1 .. Len(s) /\ a \in 1 .. Len(s)
    BY <1>1, <1>3
  <2>2. key[s[i + 1]] >= k
    BY <1>1, <1>4, <2>1 DEF KnownNotLess
  <2>3. a = i + 1 \/ i + 1 < a
    BY <1>1, <1>3
  <2>4. a = i + 1 \/ key[s[i + 1]] <= key[s[a]]
    BY <2>1, <2>3 DEF LevelList
  <2> QED
    BY <1>1, <2>1, <2>2, <2>4
<1> QED
  BY <1>3, <1>4, <1>5, <1>6 DEF Splits

(* The node goes where its key belongs.                                     *)
LEMMA LinkPlace ==
  ASSUME TypeInv, NEW s, NEW n \in Nodes, NEW j \in Levels, NEW p, NEW q, LevelList(s, j),
         KnownSmaller(p, j, key[n]),
         KnownNotLess(next[p][j], j, key[n]), KnownNotLess(next[n][j], j, key[n]),
         q = IF next[p][j] = Null THEN next[n][j] ELSE next[p][j]
  PROVE  \E i : Between(s, i, p, q, n, j)
<1>1. /\ s \in Seq(Nodes) /\ Len(s) \in Nat
      /\ \A a \in 1 .. Len(s) : s[a] \in Nodes /\ key[s[a]] \in Int /\ s[a] # Null
      /\ \A m \in On(j) : \E a \in 1 .. Len(s) : s[a] = m
  BY NodeFacts, OnFacts DEF LevelList
<1>2. PICK k \in Int : k = key[n]
  BY OnFacts
<1>3. PICK i : Splits(s, i, p, k, j)
  BY <1>2, Neighbours
<1>4. i \in 0 .. Len(s) /\ next[p][j] = IF i = Len(s) THEN Null ELSE s[i + 1]
  BY <1>3 DEF Splits
<1>5. \A a \in 1 .. i : key[s[a]] < k
  BY <1>3 DEF Splits
<1>6. q = IF i = Len(s) THEN Null ELSE s[i + 1]
  <2>1. CASE i # Len(s)
    <3>1. i + 1 \in 1 .. Len(s)
      BY <1>1, <1>4, <2>1
    <3> QED
      BY <1>1, <1>4, <2>1, <3>1
  <2>2. CASE i = Len(s)
    <3>1. q = next[n][j]
      BY <1>4, <2>2
    <3>2. ASSUME next[n][j] # Null PROVE FALSE
      <4>1. next[n][j] \in On(j) /\ key[next[n][j]] >= key[n]
        BY <3>2 DEF KnownNotLess
      <4>2. PICK a \in 1 .. Len(s) : s[a] = next[n][j]
        BY <1>1, <4>1
      <4>3. a \in 1 .. i
        BY <2>2
      <4>4. key[s[a]] < k /\ key[s[a]] >= k
        BY <1>2, <1>5, <4>1, <4>2, <4>3
      <4> QED
        BY <1>1, <4>4, <4>2
    <3> QED
      BY <2>2, <3>1, <3>2
  <2> QED
    BY <2>1, <2>2
<1> QED
  BY <1>2, <1>3, <1>6 DEF Between, Splits

(* What a context has recorded stays true when levels grow.                 *)
LEMMA RecordKept ==
  ASSUME LevelsNest, Grows, NEW c, NEW k,
         \A l \in Levels : KnownSmaller(c.preds[l], l, k) /\ KnownNotLess(c.succs[l], l, k)
  PROVE  \A l \in Levels : KnownSmaller(c.preds[l], l, k)' /\ KnownNotLess(c.succs[l], l, k)'
<1> SUFFICES ASSUME NEW l \in Levels
             PROVE  KnownSmaller(c.preds[l], l, k)' /\ KnownNotLess(c.succs[l], l, k)'
  OBVIOUS
<1>1. PICK m, q : m = c.preds[l] /\ q = c.succs[l]
  OBVIOUS
<1>2. KnownSmaller(m, l, k) /\ KnownNotLess(q, l, k)
  BY <1>1
<1>3. KnownSmaller(m, l, k)' /\ KnownNotLess(q, l, k)'
  BY <1>2 DEF KnownSmaller, KnownNotLess, LevelsNest, Grows
<1> QED
  BY <1>1, <1>3

(* A node is linked: what is known of the nodes stays true.                 *)
LEMMA LinkNodes ==
  ASSUME TypeInv, NodeInv, ListInv, NEW t \in Threads, LinkSucceeds(t)
  PROVE  NodeInv'
<1>1. OthersKept(t) /\ Place(t) /\ NodeOk(t) /\ SearchOk(t)
  BY LinkFacts
<1>2. PICK n, j, p, q : Links(t, n, j, p, q)
  BY LinkFacts
<1>3. n \in Nodes /\ j \in Levels /\ j \in Nat /\ n <= allocated /\ n \notin On(j) /\ n = node[t]
      /\ j = at[t] /\ n # Null /\ UNCHANGED <<key, height, allocated, ctx, node, tall>>
      /\ n # p /\ at'[t] = j + 1 /\ n \in Starts
  BY <1>2, NodeFacts DEF Links
<1>4. /\ \A l \in Levels : l # j => On(l)' = On(l)
      /\ \A m : m \in On(j)' <=> m = n \/ m \in On(j)
      /\ \A m \in Starts, l \in Levels : (m # n /\ m # p) \/ l # j => next'[m][l] = next[m][l]
  BY <1>2 DEF Links
<1>5. \A l \in Levels : \A m : /\ m \in On(l) => m \in On(l)'
                               /\ m \in On(l)' => m \in On(l) \/ (m = n /\ l = j)
  BY <1>4
<1>6. Grows
  BY <1>3, <1>5 DEF Grows
<1>7. LevelsNest'
  <2> SUFFICES ASSUME NEW l \in Levels, NEW m, m \in On(l)'
               PROVE  m \in Nodes /\ m <= allocated /\ (l > 0 => m \in On(l - 1)')
    BY <1>3 DEF LevelsNest
  <2>1. m \in Nodes /\ m <= allocated
    BY <1>3, <1>5 DEF NodeInv, LevelsNest
  <2>2. ASSUME l > 0 PROVE m \in On(l - 1)'
    <3>1. l - 1 \in Levels /\ l - 1 < l
      BY <2>2, SizeAssumption DEF Levels
    <3>2. CASE m \in On(l)
      BY <1>5, <2>2, <3>1, <3>2 DEF NodeInv, LevelsNest
    <3>3. CASE m = n /\ l = j
      <4>1. n \in On(l - 1)
        BY <1>1, <1>3, <3>1, <3>3 DEF NodeOk
      <4> QED
        BY <1>5, <3>1, <3>3, <4>1
    <3> QED
      BY <1>5, <3>2, <3>3
  <2> QED
    BY <2>1, <2>2
<1>8. p = Sentinel \/ p \in On(j)
  BY <1>2 DEF Links, KnownSmaller
<1>9. FreshNodes'
  <2>1. \A m \in Nodes : m > allocated => m # n /\ m # p /\ m \in Starts
    BY <1>3, <1>8, NodeFacts, OnFacts DEF NodeInv, LevelsNest, Nodes
  <2> QED
    BY <1>3, <1>4, <2>1 DEF FreshNodes, NodeInv
<1>10. Returned' /\ NodesDiffer'
  BY <1>3, <1>5 DEF Returned, NodesDiffer, NodeInv
<1>11. NodeOk(t)'
  <2>1. \A l \in Levels : n \in On(l)' <=> l < j + 1
    <3> SUFFICES ASSUME NEW l \in Levels PROVE n \in On(l)' <=> l < j + 1
      OBVIOUS
    <3>1. l \in Nat /\ (n \in On(l) <=> l < j)
      BY <1>1, <1>3, NodeFacts DEF NodeOk
    <3> QED
      BY <1>3, <1>4, <3>1
  <2>2. \A l \in Levels : l >= j + 1 => next'[n][l] = Null
    <3> SUFFICES ASSUME NEW l \in Levels, l >= j + 1 PROVE next'[n][l] = Null
      OBVIOUS
    <3>0. l \in Nat /\ j \in Nat
      BY <1>3, NodeFacts
    <3>1. l # j /\ l > j
      BY <3>0
    <3>2. next'[n][l] = next[n][l]
      BY <1>3, <1>4, <3>1
    <3> QED
      BY <1>1, <1>3, <3>1, <3>2 DEF NodeOk
  <2>3. \A l \in Levels : (l > j + 1 \/ l = j + 1) => l >= j + 1
    <3>1. j \in Nat
      BY <1>3
    <3> QED
      BY <3>1, SizeAssumption DEF Levels
  <2>4. /\ key[n] = ctx[t].key /\ height[n] = tall[t]
    BY <1>1, <1>3 DEF NodeOk
  <2> QED
    BY <1>3, <2>1, <2>2, <2>3, <2>4 DEF NodeOk, KnownNotLess
<1>12. ASSUME NEW u \in Threads, u # t PROVE NodeOk(u)'
  <2>1. NodeOk(u) /\ at'[u] = at[u] /\ node[u] \in NodeOrNull /\ at[u] \in Nat
    BY <1>1, <1>12, SizeAssumption DEF NodeInv, OthersKept, TypeInv, InserterTypes
  <2>2. node[u] # Null => node[u] # n /\ node[u] \in Starts /\ node[u] # Sentinel
    BY <1>3, <1>12, <2>1, NodeFacts DEF NodeInv, NodesDiffer
  <2>3. node[u] # Null => \A l \in Levels : node[u] \in On(l)' <=> node[u] \in On(l)
    BY <1>5, <2>2
  <2>4. node[u] # Null =>
          \A l \in Levels : (l > at[u] \/ l = at[u]) => next'[node[u]][l] = next[node[u]][l]
    <3> SUFFICES ASSUME node[u] # Null, NEW l \in Levels, l > at[u] \/ l = at[u]
                 PROVE  next'[node[u]][l] = next[node[u]][l]
      OBVIOUS
    <3>1. node[u] \notin On(l)
      BY <2>1, NodeFacts DEF NodeOk
    <3>2. node[u] # p \/ l # j
      BY <1>8, <2>2, <3>1
    <3> QED
      BY <1>4, <2>2, <3>2
  <2>5. \A l \in Levels : \A m, k : KnownNotLess(m, l, k) => KnownNotLess(m, l, k)'
    BY <1>3, <1>5 DEF KnownNotLess
  <2>6. node[u] # Null =>
          \A l \in Levels : l = at[u] => KnownNotLess(next[node[u]][l], l, key[node[u]])'
    <3> SUFFICES ASSUME node[u] # Null, NEW l \in Levels, l = at[u]
                 PROVE  KnownNotLess(next[node[u]][l], l, key[node[u]])'
      OBVIOUS
    <3>1. PICK m, k : m = next[node[u]][l] /\ k = key[node[u]]
      OBVIOUS
    <3>2. KnownNotLess(m, l, k)'
      BY <2>1, <2>5, <3>1 DEF NodeOk
    <3> QED
      BY <1>3, <2>4, <3>1, <3>2 DEF KnownNotLess
  <2> QED
    BY <1>3, <2>1, <2>3, <2>4, <2>6 DEF NodeOk
<1>13. ASSUME NEW u \in Threads PROVE SearchOk(u)'
  <2>1. CASE u # t
    BY <1>1, <1>6, <2>1, SearchKept DEF NodeInv, OthersKept, TypeInv
  <2>2. CASE u = t
    <3>1. PICK c, k : c = ctx[t] /\ k = ctx[t].key
      OBVIOUS
    <3>2. \A l \in Levels : KnownSmaller(c.preds[l], l, k)' /\ KnownNotLess(c.succs[l], l, k)'
      BY <1>1, <1>6, <3>1, RecordKept DEF NodeInv, SearchOk
    <3>3. pc'[t] \in {"link", "return"}
      BY <1>2 DEF Links
    <3> QED
      BY <1>3, <2>2, <3>1, <3>2, <3>3 DEF SearchOk, KnownSmaller, KnownNotLess
  <2> QED
    BY <2>1, <2>2
<1> QED
  BY <1>7, <1>9, <1>10, <1>11, <1>12, <1>13 DEF NodeInv

(* What a link does to the levels: one of them gets the node in its place.  *)
GrowsTo(s, s2, n, l) ==
  \E i, p, q : Between(s, i, p, q, n, l) /\ Inserted(s, s2, i, n)

LEMMA LinkLists ==
  ASSUME TypeInv, NodeInv, ListInv, NEW t \in Threads, LinkSucceeds(t)
  PROVE  /\ \A s, l : l \in Levels /\ l # at[t] /\ LevelList(s, l) => LevelList(s, l)'
         /\ \A s, l : l = at[t] /\ LevelList(s, l) =>
              \E s2 : GrowsTo(s, s2, node[t], l) /\ LevelList(s2, l)'
<1>1. PICK n, j, p, q : /\ Links(t, n, j, p, q)
                        /\ KnownNotLess(next[p][j], j, key[n])
                        /\ KnownNotLess(next[n][j], j, key[n])
                        /\ q = IF next[p][j] = Null THEN next[n][j] ELSE next[p][j]
  BY LinkFacts
<1>2. n \in Nodes /\ n = node[t] /\ j = at[t] /\ j \in Levels /\ key' = key /\ n \notin On(j)
      /\ KnownSmaller(p, j, key[n])
  BY <1>1 DEF Links
<1>3. ASSUME NEW s, NEW l \in Levels, l # j, LevelList(s, l) PROVE LevelList(s, l)'
  <2>1. /\ links'[l] = links[l] /\ next'[Sentinel][l] = next[Sentinel][l]
        /\ \A m \in Nodes : next'[m][l] = next[m][l]
    BY <1>1, <1>3, NodeFacts DEF Links
  <2> QED
    BY <1>2, <1>3, <2>1, LevelKept
<1>4. ASSUME NEW s, LevelList(s, j)
      PROVE  \E s2 : GrowsTo(s, s2, n, j) /\ LevelList(s2, j)'
  <2>1. PICK i : Between(s, i, p, q, n, j)
    BY <1>1, <1>2, <1>4, LinkPlace
  <2>2. PICK s2 : Inserted(s, s2, i, n)
    BY <1>2, <1>4, <2>1, InsertedExists DEF LevelList, Between
  <2>3. /\ \A m \in Nodes : m \in On(j)' <=> m = n \/ m \in On(j)
        /\ Len(links'[j]) = Len(links[j]) + 1
        /\ \A m \in Starts : m # p /\ m # n => next'[m][j] = next[m][j]
        /\ next'[p][j] = n /\ next'[n][j] = q
    BY <1>1, <1>2 DEF Links
  <2>4. LevelList(s2, j)'
    BY <1>2, <1>4, <2>1, <2>2, <2>3, LevelGrows
  <2> QED
    BY <2>1, <2>2, <2>4 DEF GrowsTo
<1>5. \A s : LevelList(s, j) => \E s2 : GrowsTo(s, s2, n, j) /\ LevelList(s2, j)'
  BY <1>4
<1> QED
  BY <1>2, <1>3, <1>5

(* A step that links nothing leaves every level as it is.                   *)
LEMMA ListsKept ==
  ASSUME TypeInv, NodeInv, ListInv, NEW t \in Threads, Begin(t) \/ Step(t), ~LinkSucceeds(t)
  PROVE  \A s, l : l \in Levels /\ LevelList(s, l) => LevelList(s, l)'
<1>1. CASE Alloc(t)
  BY <1>1, AllocNodes
<1>2. CASE LinkFails(t)
  BY <1>2, LinkFailsNodes
<1>3. CASE ~Alloc(t) /\ ~LinkFails(t)
  <2>1. UNCHANGED <<key, next, links>>
    BY <1>3 DEF Begin, Step, SearchStep, InsertStep, ScanStep, Insert, InsertWith, Seek, Iter,
       LoadMaxLevel, SkipLevel, EnterLevel, Advance, Descend, CountEntry, DrawHeight,
       RaiseMaxLevel, RaiseFails, AllocPanics, Return, Position, Yield, EndScan,
       mem, data, insv, iter
  <2> QED
    BY <2>1, LevelKept
<1> QED
  BY <1>1, <1>2, <1>3

(* The inductive invariant: types, nodes and lists.                         *)
IInv == TypeInv /\ NodeInv /\ ListInv

LEMMA InitIInv == Init => IInv
<1> SUFFICES ASSUME Init PROVE ListInv
  BY InitTypeInv, InitNodeInv DEF IInv
<1> SUFFICES ASSUME NEW l \in Levels PROVE \E s : LevelList(s, l)
  BY DEF ListInv
<1>1. PICK s \in Seq(Nodes) : s = links[l]
  BY InitTypeInv DEF TypeInv, SharedTypes
<1>2. Len(s) = 0 /\ s = links[l]
  BY <1>1 DEF Init
<1>3. next[Sentinel][l] = Null
  BY NodeFacts DEF Init, Starts
<1>4. \A n \in Nodes : n \notin On(l)
  BY <1>1, <1>2 DEF On, ToSet
<1> QED
  BY <1>1, <1>2, <1>3, <1>4 DEF LevelList, NoRepeats

LEMMA StepIInv ==
  ASSUME IInv, NEW t \in Threads, Begin(t) \/ Step(t)
  PROVE  IInv'
<1>1. TypeInv'
  BY StepStays DEF IInv, Stays
<1>2. NodeInv'
  BY BeginNodes, SearchNodes, ReturnNodes, AllocNodes, LinkFailsNodes, LinkNodes
  DEF IInv, Step, InsertStep
<1>3. ListInv'
  <2> SUFFICES ASSUME NEW l \in Levels PROVE \E s : LevelList(s, l)'
    BY DEF ListInv
  <2>1. PICK s : LevelList(s, l)
    BY DEF IInv, ListInv
  <2>2. CASE ~LinkSucceeds(t)
    BY <2>1, <2>2, ListsKept DEF IInv
  <2>3. CASE LinkSucceeds(t)
    <3>1. CASE l # at[t]
      BY <2>1, <2>3, <3>1, LinkLists DEF IInv
    <3>2. CASE l = at[t]
      BY <2>1, <2>3, <3>2, LinkLists DEF IInv
    <3> QED
      BY <3>1, <3>2
  <2> QED
    BY <2>2, <2>3
<1> QED
  BY <1>1, <1>2, <1>3 DEF IInv

LEMMA NextIInv == IInv /\ [Next]_vars => IInv'
<1> SUFFICES ASSUME IInv, [Next]_vars PROVE IInv'
  OBVIOUS
<1>1. CASE Next
  BY <1>1, StepIInv DEF Next
<1>2. CASE UNCHANGED vars
  <2> USE <1>2 DEF vars, mem, data, insv, iter
  <2>1. TypeInv'
    BY NextTypeInv DEF IInv
  <2>2. LevelsNest' /\ FreshNodes' /\ Returned' /\ NodesDiffer'
    BY DEF IInv, NodeInv, LevelsNest, FreshNodes, Returned, NodesDiffer, On
  <2>3. \A u \in Threads : SearchOk(u)' /\ NodeOk(u)'
    BY DEF IInv, NodeInv, SearchOk, NodeOk, KnownSmaller, KnownNotLess, On
  <2>4. ListInv'
    BY DEF IInv, ListInv, LevelList, On
  <2> QED
    BY <2>1, <2>2, <2>3, <2>4 DEF IInv, NodeInv
<1> QED
  BY <1>1, <1>2

(* Types, nodes and lists are right throughout.                             *)
THEOREM SkipListInvariance == Spec => []IInv
  BY InitIInv, NextIInv, PTL DEF Spec

(* A node that no insertion works on is linked on all its levels, and a     *)
(* linked node is linked on every level below: whatever compare-and-swaps   *)
(* failed on the way.                                                       *)
THEOREM NodesEndFullyLinked == Spec => []FullyLinked
<1>1. IInv => FullyLinked
  <2> SUFFICES ASSUME IInv, NEW n \in 1 .. allocated
               PROVE  /\ (\A t \in Writers : node[t] # n) =>
                            \A l \in 0 .. height[n] - 1 : n \in ToSet(links[l])
                      /\ \A l \in 1 .. MaxHeadHeight - 1 :
                            n \in ToSet(links[l]) => n \in ToSet(links[l - 1])
    BY DEF FullyLinked
  <2>1. n \in Nodes /\ n <= allocated /\ height[n] \in 0 .. MaxHeadHeight
    BY SizeAssumption DEF IInv, TypeInv, SharedTypes, Nodes
  <2>2. \A l \in 0 .. height[n] - 1 : l \in Levels /\ l < height[n]
    BY <2>1, SizeAssumption DEF Levels
  <2>3. \A l \in 1 .. MaxHeadHeight - 1 : l \in Levels /\ l > 0
    BY SizeAssumption DEF Levels
  <2> QED
    BY <2>1, <2>2, <2>3 DEF IInv, NodeInv, Returned, LevelsNest, On
<1> QED
  BY <1>1, SkipListInvariance, PTL


(* A step leaves the first pointer of a level alone, or links a node there. *)
LEMMA HeadKept ==
  ASSUME IInv, NEW t \in Threads, Begin(t) \/ Step(t), NEW l \in Levels,
         ~(LinkSucceeds(t) /\ l = at[t])
  PROVE  next'[Sentinel][l] = next[Sentinel][l]
<1>1. PICK s : LevelList(s, l)
  BY DEF IInv, ListInv
<1>2. LevelList(s, l)'
  <2>1. CASE LinkSucceeds(t)
    BY <1>1, <2>1, LinkLists DEF IInv
  <2>2. CASE ~LinkSucceeds(t)
    BY <1>1, <2>2, ListsKept DEF IInv
  <2> QED
    BY <2>1, <2>2
<1>3. Len(s) \in Nat
  BY <1>1 DEF LevelList
<1> QED
  BY <1>1, <1>2, <1>3 DEF LevelList

(* No level above max_level is in use, in whichever order inserters raise   *)
(* it: no search starts below a node it has to find.                        *)
THEOREM NoLevelAboveMax == Spec => []MaxLevelCovers
<1>1. Init => MaxLevelCovers
  BY NodeFacts DEF Init, MaxLevelCovers, Starts
<1>2. ASSUME IInv, MaxLevelCovers, [Next]_vars PROVE MaxLevelCovers'
  <2>1. CASE UNCHANGED vars
    BY <1>2, <2>1 DEF vars, mem, data, MaxLevelCovers
  <2>2. CASE Next
    <3>1. PICK t \in Threads : Begin(t) \/ Step(t)
      BY <2>2 DEF Next
    <3>2. max_level' >= max_level /\ max_level' \in Nat /\ max_level \in Nat
      BY <1>2, <3>1, StepStays, SizeAssumption
      DEF IInv, Stays, OthersKept, TypeInv, SharedTypes
    <3> SUFFICES ASSUME NEW l \in Levels, next'[Sentinel][l] # Null PROVE l < max_level'
      BY DEF MaxLevelCovers
    <3>3. l \in Nat
      BY NodeFacts
    <3>4. l < max_level
      <4>1. CASE LinkSucceeds(t) /\ l = at[t]
        <5>1. pc[t] = "link" /\ Place(t)
          BY <1>2, <4>1 DEF LinkSucceeds, IInv, TypeInv
        <5>2. at[t] < tall[t] /\ tall[t] <= max_level /\ tall[t] \in Nat
          BY <1>2, <5>1, SizeAssumption DEF Place, IInv, TypeInv, InserterTypes
        <5> QED
          BY <3>2, <3>3, <4>1, <5>2
      <4>2. CASE ~(LinkSucceeds(t) /\ l = at[t])
        BY <1>2, <3>1, <4>2, HeadKept DEF MaxLevelCovers
      <4> QED
        BY <4>1, <4>2
    <3> QED
      BY <3>2, <3>3, <3>4
  <2> QED
    BY <1>2, <2>1, <2>2
<1> QED
  BY <1>1, <1>2, SkipListInvariance, PTL DEF Spec

-----------------------------------------------------------------------------
(* The walk along a level that the properties are stated with.              *)

(* The least element of a set of numbers: induction, in a form in which it  *)
(* needs no predicate as a parameter.                                       *)
LEMMA LeastNat ==
  ASSUME NEW T \in SUBSET Nat, T # {}
  PROVE  \E m \in T : \A k \in T : m <= k
<1>1. PICK x \in T : \A y \in T : ~(<<y, x>> \in OpToRel(<, Nat))
  BY WFMin, NatLessThanWellFounded
<1>2. ASSUME NEW k \in T PROVE x <= k
  <2>1. <<k, x>> \in Nat \X Nat
    OBVIOUS
  <2>2. <<k, x>> \in OpToRel(<, Nat) <=> k < x
    BY <2>1 DEF OpToRel
  <2>3. ~(<<k, x>> \in OpToRel(<, Nat))
    BY <1>1, Zenon
  <2>4. k \in Nat /\ x \in Nat
    OBVIOUS
  <2>5. ~(k < x)
    BY <2>2, <2>3, Zenon
  <2> QED
    BY <2>4, <2>5
<1> QED
  BY <1>2

(* A sequence of distinct nodes is no longer than there are nodes.          *)
LEMMA NoRepeatsIsShort ==
  ASSUME NEW s \in Seq(Nodes), NoRepeats(s)
  PROVE  Len(s) \in 0 .. ArenaNodes
<1>1. Len(s) \in Nat /\ s \in [1 .. Len(s) -> Nodes]
  OBVIOUS
<1>2. IsFiniteSet(1 .. Len(s)) /\ Cardinality(1 .. Len(s)) = Len(s)
  BY <1>1, FS_Interval
<1>3. IsFiniteSet(Nodes) /\ Cardinality(Nodes) = ArenaNodes
  BY SizeAssumption, FS_Interval DEF Nodes
<1>4. ASSUME ArenaNodes < Len(s) PROVE FALSE
  <2>1. \E x, y \in 1 .. Len(s) : x # y /\ s[x] = s[y]
    BY <1>1, <1>2, <1>3, <1>4, FS_PigeonHole
  <2> QED
    BY <2>1 DEF NoRepeats
<1> QED
  BY <1>1, <1>4, SizeAssumption

(* The pointers nx run along s on level l.                                  *)
Runs(s, nx, l) ==
  /\ s \in Seq(Nodes) /\ Len(s) \in 0 .. ArenaNodes
  /\ Len(s) = 0 => nx[Sentinel][l] = Null
  /\ Len(s) > 0 => nx[Sentinel][l] = s[1] /\ nx[s[Len(s)]][l] = Null
  /\ \A i \in 1 .. Len(s) - 1 : nx[s[i]][l] = s[i + 1]

(* Node i of the walk.                                                      *)
Met(s, i) == IF i = 0 THEN Sentinel ELSE IF i <= Len(s) THEN s[i] ELSE Null

LEMMA MetFacts ==
  ASSUME NEW s, NEW nx, NEW l, Runs(s, nx, l), NEW i \in 1 .. ArenaNodes
  PROVE  Met(s, i) = IF Met(s, i - 1) = Null THEN Null ELSE nx[Met(s, i - 1)][l]
<1>1. /\ Len(s) \in Nat /\ ArenaNodes \in Nat /\ i \in Nat
      /\ \A a \in 1 .. Len(s) : s[a] \in Nodes /\ s[a] # Null
  BY NodeFacts, SizeAssumption DEF Runs
<1>2. Sentinel # Null
  BY DEF Sentinel, Null
<1>3. CASE i = 1
  BY <1>1, <1>2, <1>3 DEF Met, Runs
<1>4. CASE i > 1 /\ i <= Len(s)
  <2>1. PICK a \in 1 .. Len(s) - 1 : a = i - 1
    BY <1>1, <1>4
  <2>2. Met(s, i - 1) = s[a] /\ s[a] # Null /\ Met(s, i) = s[i] /\ nx[s[a]][l] = s[a + 1]
    BY <1>1, <1>4, <2>1 DEF Met, Runs
  <2> QED
    BY <1>1, <2>1, <2>2
<1>5. CASE i > 1 /\ i = Len(s) + 1
  <2>1. Met(s, i - 1) = s[Len(s)] /\ s[Len(s)] # Null /\ Met(s, i) = Null
    BY <1>1, <1>5 DEF Met
  <2>2. nx[s[Len(s)]][l] = Null
    BY <1>1, <1>5 DEF Runs
  <2> QED
    BY <2>1, <2>2
<1>6. CASE i > 1 /\ i > Len(s) + 1
  BY <1>1, <1>6 DEF Met
<1> QED
  BY <1>1, <1>3, <1>4, <1>5, <1>6

(* A walk of ArenaNodes steps meets the nodes of the level, in order.       *)
LEMMA HopUnique ==
  ASSUME NEW s, NEW nx, NEW l, Runs(s, nx, l), NEW f, f[0] = Sentinel,
         \A i \in 1 .. ArenaNodes :
           f[i] = IF f[i - 1] = Null THEN Null ELSE nx[f[i - 1]][l]
  PROVE  \A i \in 0 .. ArenaNodes : f[i] = Met(s, i)
<1> DEFINE Bad == {i \in 0 .. ArenaNodes : f[i] # Met(s, i)}
<1> SUFFICES ASSUME Bad # {} PROVE FALSE
  OBVIOUS
<1>1. PICK m \in Bad : \A k \in Bad : m <= k
  <2>1. Bad \in SUBSET Nat
    BY SizeAssumption
  <2> HIDE DEF Bad
  <2> QED
    BY <2>1, LeastNat
<1>2. m \in 1 .. ArenaNodes /\ m - 1 \in 0 .. ArenaNodes
  BY SizeAssumption DEF Met
<1>3. f[m - 1] = Met(s, m - 1)
  BY <1>1, <1>2, SizeAssumption
<1>4. Met(s, m) = IF Met(s, m - 1) = Null THEN Null ELSE nx[Met(s, m - 1)][l]
  BY <1>2, MetFacts
<1> QED
  BY <1>2, <1>3, <1>4

(* The walk, with the pointers as a parameter.                              *)
HopOf(nx, l) ==
  LET hop[i \in 0 .. ArenaNodes] ==
        IF i = 0 THEN Sentinel
        ELSE IF hop[i - 1] = Null THEN Null
        ELSE nx[hop[i - 1]][l]
  IN  hop

ChainOf(nx, l) ==
  LET hop == HopOf(nx, l)
      reached == {i \in 1 .. ArenaNodes : hop[i] # Null}
  IN  [i \in 1 .. Cardinality(reached) |-> hop[i]]

LEMMA HopIsMet ==
  ASSUME NEW s, NEW nx, NEW l, Runs(s, nx, l)
  PROVE  \A i \in 0 .. ArenaNodes : HopOf(nx, l)[i] = Met(s, i)
<1> DEFINE P(f) == f = [i \in 0 .. ArenaNodes |->
                          IF i = 0 THEN Sentinel
                          ELSE IF f[i - 1] = Null THEN Null
                          ELSE nx[f[i - 1]][l]]
           hop == CHOOSE f : P(f)
           g == [i \in 0 .. ArenaNodes |-> Met(s, i)]
<1>1. P(g)
  <2>1. ASSUME NEW i \in 0 .. ArenaNodes
        PROVE  g[i] = IF i = 0 THEN Sentinel ELSE IF g[i - 1] = Null THEN Null
                      ELSE nx[g[i - 1]][l]
    <3>1. CASE i = 0
      BY <3>1 DEF Met
    <3>2. CASE i # 0
      <4>1. i \in 1 .. ArenaNodes /\ i - 1 \in 0 .. ArenaNodes
        BY <3>2, SizeAssumption
      <4>2. Met(s, i) = IF Met(s, i - 1) = Null THEN Null ELSE nx[Met(s, i - 1)][l]
        BY <4>1, MetFacts
      <4> QED
        BY <3>2, <4>1, <4>2
    <3> QED
      BY <3>1, <3>2
  <2> QED
    BY <2>1
<1>2. P(hop)
  <2>1. \E f : P(f)
    <3> HIDE DEF P, g
    <3> QED
      BY <1>1, Zenon
  <2> HIDE DEF P
  <2> QED
    BY <2>1, Zenon
<1>3. HopOf(nx, l) = hop
  BY Zenon DEF HopOf
<1> HIDE DEF hop
<1>4. hop[0] = Sentinel
  BY <1>2, SizeAssumption
<1>5. \A i \in 1 .. ArenaNodes : hop[i] = IF hop[i - 1] = Null THEN Null ELSE nx[hop[i - 1]][l]
  BY <1>2, SizeAssumption
<1> QED
  BY <1>3, <1>4, <1>5, HopUnique

LEMMA ChainOfList ==
  ASSUME NEW s, NEW nx, NEW l, Runs(s, nx, l)
  PROVE  ChainOf(nx, l) = s
<1>1. PICK hop : hop = HopOf(nx, l)
  OBVIOUS
<1>2. s \in Seq(Nodes) /\ Len(s) \in 0 .. ArenaNodes
      /\ \A a \in 1 .. Len(s) : s[a] \in Nodes /\ s[a] # Null
  BY NodeFacts DEF Runs
<1>3. \A i \in 1 .. ArenaNodes : hop[i] = IF i <= Len(s) THEN s[i] ELSE Null
  BY <1>1, HopIsMet, SizeAssumption DEF Met
<1>4. {i \in 1 .. ArenaNodes : hop[i] # Null} = 1 .. Len(s)
  BY <1>2, <1>3, SizeAssumption
<1>5. Cardinality(1 .. Len(s)) = Len(s)
  BY <1>2, FS_Interval
<1>6. ChainOf(nx, l) = [i \in 1 .. Len(s) |-> hop[i]]
  BY <1>1, <1>4, <1>5 DEF ChainOf
<1>7. \A i \in 1 .. Len(s) : hop[i] = s[i]
  BY <1>2, <1>3, SizeAssumption
<1>8. s = [i \in 1 .. Len(s) |-> s[i]]
  BY <1>2
<1> QED
  BY <1>6, <1>7, <1>8

(* The nodes reached on a level are its list.                               *)
LEMMA ChainIsList ==
  ASSUME NEW l \in Levels, NEW s, LevelList(s, l)
  PROVE  Chain(l) = s
<1>1. Runs(s, next, l)
  BY NoRepeatsIsShort DEF Runs, LevelList
<1>2. Chain(l) = ChainOf(next, l)
  BY Zenon DEF Chain, ChainOf, Hop, HopOf
<1> QED
  BY <1>1, <1>2, ChainOfList

(* The same after a step.                                                   *)
LEMMA ChainIsListAfter ==
  ASSUME NEW l \in Levels, NEW s, LevelList(s, l)'
  PROVE  Chain(l)' = s
<1>1. Runs(s, next', l)
  BY NoRepeatsIsShort DEF Runs, LevelList
<1>2. Chain(l)' = ChainOf(next', l)
  BY Zenon DEF Chain, ChainOf, Hop, HopOf
<1> QED
  BY <1>1, <1>2, ChainOfList

(* On every level the nodes reached from the head are exactly those linked  *)
(* there, once each, in the order of their keys: no race of the             *)
(* compare-and-swaps loses or duplicates an insertion.                      *)
THEOREM NoInsertionIsLost == Spec => []LevelsIntact
<1>1. IInv => LevelsIntact
  <2> SUFFICES ASSUME IInv, NEW l \in Levels
               PROVE  /\ Len(Chain(l)) = Len(links[l])
                      /\ ToSet(Chain(l)) = ToSet(links[l])
                      /\ \A i \in 1 .. Len(Chain(l)) - 1 :
                           key[Chain(l)[i]] <= key[Chain(l)[i + 1]]
    BY DEF LevelsIntact
  <2>1. PICK s : LevelList(s, l)
    BY DEF IInv, ListInv
  <2>2. Chain(l) = s
    BY <2>1, ChainIsList
  <2>3. s \in Seq(Nodes) /\ Len(s) \in Nat /\ Len(s) = Len(links[l])
    BY <2>1 DEF LevelList
  <2>4. ToSet(s) = ToSet(links[l])
    <3>1. \A n \in Nodes : n \in ToSet(links[l]) <=> \E i \in 1 .. Len(s) : s[i] = n
      BY <2>1 DEF LevelList, On
    <3>2. \A n \in ToSet(links[l]) : n \in Nodes
      BY OnFacts DEF IInv, On
    <3>3. \A n : n \in ToSet(s) <=> \E i \in 1 .. Len(s) : s[i] = n
      BY <2>3 DEF ToSet
    <3>4. \A i \in 1 .. Len(s) : s[i] \in Nodes
      BY <2>3
    <3>5. \A n : n \in ToSet(s) <=> n \in ToSet(links[l])
      BY <3>1, <3>2, <3>3, <3>4
    <3> QED
      BY <3>5
  <2>5. \A i \in 1 .. Len(s) - 1 : key[s[i]] <= key[s[i + 1]]
    <3>1. \A i \in 1 .. Len(s) - 1 : i \in 1 .. Len(s) /\ i + 1 \in 1 .. Len(s) /\ i < i + 1
      BY <2>3
    <3> QED
      BY <2>1, <3>1 DEF LevelList
  <2> QED
    BY <2>2, <2>3, <2>4, <2>5
<1> QED
  BY <1>1, SkipListInvariance, PTL
-----------------------------------------------------------------------------
(* Searches.                                                                *)

(* A search for k ends with q, the first node behind those smaller than k.  *)
EndsAt(s, i, k, q) ==
  /\ i \in 0 .. Len(s)
  /\ q = IF i = Len(s) THEN Null ELSE s[i + 1]
  /\ \A a \in 1 .. i : key[s[a]] < k
  /\ \A a \in i + 1 .. Len(s) : key[s[a]] >= k

LEMMA SearchEnds ==
  ASSUME IInv, NEW t \in Threads, SearchStep(t), pc'[t] \in {"found", "count", "link"},
         NEW s, LevelList(s, 0)
  PROVE  \E i : EndsAt(s, i, ctx[t].key, ctx'[t].succs[0])
<1> USE DEF Goto
<1>1. /\ TypeInv /\ Place(t) /\ SearchOk(t) /\ ctx[t] \in Ctx /\ ctx[t].level \in 0 .. MaxHeadHeight
      /\ s \in Seq(Nodes) /\ Len(s) \in Nat /\ 0 \in Levels
  BY CtxFacts, NodeFacts DEF IInv, TypeInv, NodeInv, LevelList
<1>2. SkipLevel(t) \/ Descend(t)
  BY <1>1 DEF SearchStep, LoadMaxLevel, EnterLevel, Advance, TypeInv, CallTypes
<1>3. ctx[t].level = 1
  BY <1>1, <1>2 DEF SkipLevel, Descend, TypeInv, CallTypes
<1>4. CASE SkipLevel(t)
  <2>1. next[Sentinel][0] = Null /\ pc[t] = "skip"
    BY <1>3, <1>4 DEF SkipLevel
  <2>2. Len(s) = 0
    <3>1. Len(s) > 0 => s[1] \in Nodes /\ next[Sentinel][0] = s[1]
      BY <1>1 DEF LevelList
    <3> QED
      BY <1>1, <2>1, <3>1, NodeFacts
  <2>3. ctx'[t].succs[0] = Null
    <3>1. ctx[t].succs[0] = Null
      BY <1>1, <2>1 DEF SearchOk
    <3>2. ctx'[t].succs = ctx[t].succs
      BY <1>1, <1>4 DEF SkipLevel, TypeInv, CtxTypes, Ctx
    <3> QED
      BY <3>1, <3>2
  <2>4. EndsAt(s, 0, ctx[t].key, ctx'[t].succs[0])
    BY <2>2, <2>3 DEF EndsAt
  <2> QED
    BY <2>4
<1>5. CASE Descend(t)
  <2>1. PICK p, k, q : p = ctx[t].pred /\ k = ctx[t].key /\ q = next[p][0]
    OBVIOUS
  <2>2. ctx'[t].succs[0] = q /\ pc[t] = "walk" /\ (q # Null => ~(key[q] < k))
    <3>1. Curr(t) = q
      BY <1>3, <2>1 DEF Curr
    <3>2. ctx'[t].succs = [ctx[t].succs EXCEPT ![ctx[t].level - 1] = Curr(t)]
      BY <1>1, <1>5 DEF Descend, TypeInv, CtxTypes, Ctx
    <3>3. ctx'[t].succs[0] = q
      BY <1>1, <1>3, <3>1, <3>2 DEF Ctx, Tower
    <3> QED
      BY <1>5, <2>1, <3>1, <3>3 DEF Descend, Before
  <2>3. KnownSmaller(p, 0, k) /\ k \in Int /\ p \in Starts
    BY <1>1, <1>3, <2>1, <2>2, OnFacts, CtxFacts DEF SearchOk
  <2>4. KnownNotLess(q, 0, k)
    <3>1. q # Null => q \in On(0)
      BY <1>1, <2>1, <2>3, NextIsOn DEF KnownSmaller, IInv
    <3>2. q # Null => key[q] \in Int
      BY <1>1, <3>1, OnFacts
    <3> QED
      BY <2>2, <2>3, <3>1, <3>2 DEF KnownNotLess
  <2>5. PICK i : Splits(s, i, p, k, 0)
    BY <1>1, <2>1, <2>3, <2>4, Neighbours
  <2>6. EndsAt(s, i, k, q)
    BY <2>1, <2>5 DEF EndsAt, Splits
  <2> QED
    BY <2>1, <2>2, <2>6
<1> QED
  BY <1>2, <1>4, <1>5

(* Such a node is the first one not less than k.                            *)
LEMMA FirstIsFound ==
  ASSUME IInv, NEW s, LevelList(s, 0), NEW k \in Int, NEW i, NEW q, EndsAt(s, i, k, q)
  PROVE  q = FirstGE(k)
<1>1. Chain(0) = s /\ Len(s) \in Nat /\ i \in 0 .. Len(s)
      /\ \A a \in 1 .. Len(s) : key[s[a]] \in Int
  <2>1. Chain(0) = s
    BY ChainIsList, NodeFacts
  <2>2. s \in Seq(Nodes) /\ i \in 0 .. Len(s)
    BY DEF LevelList, EndsAt
  <2>3. \A a \in 1 .. Len(s) : s[a] \in Nodes
    BY <2>2
  <2> QED
    BY <2>1, <2>2, <2>3, OnFacts DEF IInv
<1> DEFINE ge == {a \in 1 .. Len(s) : key[s[a]] >= k}
<1>2. FirstGE(k) = IF ge = {} THEN Null ELSE s[Min(ge)]
  BY <1>1 DEF FirstGE
<1>3. CASE i = Len(s)
  <2>1. ge = {}
    BY <1>1, <1>3 DEF EndsAt
  <2> QED
    BY <1>2, <1>3, <2>1 DEF EndsAt
<1>4. CASE i # Len(s)
  <2>1. i + 1 \in ge
    BY <1>1, <1>4 DEF EndsAt
  <2>2. \A a \in ge : i + 1 <= a
    <3> SUFFICES ASSUME NEW a \in 1 .. Len(s), key[s[a]] >= k, ~(i + 1 <= a) PROVE FALSE
      OBVIOUS
    <3>1. a \in 1 .. i
      BY <1>1
    <3>2. key[s[a]] < k
      BY <3>1 DEF EndsAt
    <3> QED
      BY <1>1, <3>2
  <2>3. \A a \in ge : a \in Int
    BY <1>1
  <2> HIDE DEF ge
  <2>4. Min(ge) = i + 1
    BY <1>1, <2>1, <2>2, <2>3 DEF Min
  <2> QED
    BY <1>2, <1>4, <2>1, <2>4 DEF EndsAt
<1> QED
  BY <1>3, <1>4

(* Every search ends with the first node of the list that is not less than  *)
(* its key at the moment of its last load, whatever was inserted while it   *)
(* ran.                                                                     *)
THEOREM SearchesAreExact == Spec => SearchIsExact
<1>1. ASSUME IInv, [Next]_vars, NEW t \in Threads, pc[t] \in {"skip", "walk"},
             pc'[t] \in {"found", "count", "link"}, ~(UNCHANGED vars)
      PROVE  ctx'[t].succs[0] = FirstGE(ctx[t].key)
  <2>1. PICK u \in Threads : Begin(u) \/ Step(u)
    BY <1>1 DEF Next
  <2>2. u = t
    BY <1>1, <2>1, StepStays DEF IInv, Stays, OthersKept
  <2>3. SearchStep(t)
    BY <1>1, <2>1, <2>2 DEF Begin, Insert, InsertWith, Seek, Iter, Start, Step, InsertStep,
       ScanStep, CountEntry, DrawHeight, RaiseMaxLevel, RaiseFails, Alloc, AllocPanics,
       LinkSucceeds, LinkFails, Return, Position, Yield, EndScan
  <2>4. PICK s : LevelList(s, 0)
    BY <1>1, NodeFacts DEF IInv, ListInv
  <2>5. PICK k \in Int : k = ctx[t].key
    BY <1>1, OnFacts DEF IInv
  <2>6. PICK i : EndsAt(s, i, k, ctx'[t].succs[0])
    BY <1>1, <2>3, <2>4, <2>5, SearchEnds
  <2>7. PICK q : q = ctx'[t].succs[0]
    OBVIOUS
  <2>8. q = FirstGE(k)
    BY <1>1, <2>4, <2>6, <2>7, FirstIsFound
  <2> QED
    BY <2>5, <2>7, <2>8
<1>2. IInv /\ [Next]_vars =>
        [\A t \in Threads :
           pc[t] \in {"skip", "walk"} /\ pc'[t] \in {"found", "count", "link"} =>
             ctx'[t].succs[0] = FirstGE(ctx[t].key)]_vars
  BY <1>1
<1> QED
  BY <1>2, SkipListInvariance, PTL DEF Spec, SearchIsExact
-----------------------------------------------------------------------------
(* Iterators.                                                               *)

(* Node a is in front of node b; b is not in front of a.                    *)
Precedes(s, a, b) == \E i, j \in 1 .. Len(s) : i < j /\ s[i] = a /\ s[j] = b
From(s, a, n) == a = n \/ Precedes(s, a, n)

(* What a reader knows of list s: it holds its yielded nodes in order, the  *)
(* next one behind them, and what was linked when it started and is not     *)
(* smaller than the key it sought was yielded or is still ahead.            *)
Ahead(t, s, q) ==
  \A i \in 1 .. since[t] :
    key[links[0][i]] >= ctx[t].key => q # Null /\ From(s, q, links[0][i])

Yielded(t, s) ==
  /\ \A i, j \in 1 .. Len(out[t]) : i < j => Precedes(s, out[t][i], out[t][j])
  /\ item[t] # Null => \A i \in 1 .. Len(out[t]) : Precedes(s, out[t][i], item[t])

NoneMissed(t, s) ==
  \A i \in 1 .. since[t] :
    (op[t] = "seek" => key[links[0][i]] >= ctx[t].key) =>
      \/ \E j \in 1 .. Len(out[t]) : out[t][j] = links[0][i]
      \/ item[t] # Null /\ From(s, item[t], links[0][i])

ScanOk(t, s) ==
  /\ since[t] <= Len(links[0])
  /\ pc[t] \in Searching \union {"found"} => op[t] = "seek"
  /\ pc[t] # "scan" => Len(out[t]) = 0
  /\ pc[t] = "found" => Ahead(t, s, ctx[t].succs[0])
  /\ pc[t] = "scan" => /\ item[t] # Null => item[t] \in On(0)
                       /\ Yielded(t, s) /\ NoneMissed(t, s)

ScanInv == \E s : LevelList(s, 0) /\ \A t \in Readers : ScanOk(t, s)

(* The order of a list without repeats.                                     *)
LEMMA PrecedesFacts ==
  ASSUME NEW s \in Seq(Nodes), NoRepeats(s)
  PROVE  /\ \A i, j \in 1 .. Len(s) : i < j <=> Precedes(s, s[i], s[j])
         /\ \A a, b, c : Precedes(s, a, b) /\ Precedes(s, b, c) => Precedes(s, a, c)
         /\ \A a : ~Precedes(s, a, a)
<1>1. Len(s) \in Nat
  OBVIOUS
<1>2. ASSUME NEW i \in 1 .. Len(s), NEW j \in 1 .. Len(s)
      PROVE  i < j <=> Precedes(s, s[i], s[j])
  <2>1. ASSUME Precedes(s, s[i], s[j]) PROVE i < j
    <3>1. PICK x \in 1 .. Len(s), y \in 1 .. Len(s) : x < y /\ s[x] = s[i] /\ s[y] = s[j]
      BY <2>1 DEF Precedes
    <3> QED
      BY <3>1 DEF NoRepeats
  <2> QED
    BY <2>1 DEF Precedes
<1>3. ASSUME NEW a, NEW b, NEW c, Precedes(s, a, b), Precedes(s, b, c) PROVE Precedes(s, a, c)
  <2>1. PICK i \in 1 .. Len(s), j \in 1 .. Len(s) : i < j /\ s[i] = a /\ s[j] = b
    BY <1>3 DEF Precedes
  <2>2. PICK x \in 1 .. Len(s), y \in 1 .. Len(s) : x < y /\ s[x] = b /\ s[y] = c
    BY <1>3 DEF Precedes
  <2>3. j = x
    BY <2>1, <2>2 DEF NoRepeats
  <2>4. i < y
    BY <1>1, <2>1, <2>2, <2>3
  <2> QED
    BY <2>1, <2>2, <2>4 DEF Precedes
<1>4. ASSUME NEW a, Precedes(s, a, a) PROVE FALSE
  <2>1. PICK i \in 1 .. Len(s), j \in 1 .. Len(s) : i < j /\ s[i] = a /\ s[j] = a
    BY <1>4 DEF Precedes
  <2>2. i = j
    BY <2>1 DEF NoRepeats
  <2> QED
    BY <1>1, <2>1, <2>2
<1> QED
  BY <1>2, <1>3, <1>4

(* It is kept when a node is linked between.                                *)
LEMMA InsertedOrder ==
  ASSUME NEW s \in Seq(Nodes), NEW s2, NEW i \in 0 .. Len(s), NEW n, Inserted(s, s2, i, n)
  PROVE  \A a, b : Precedes(s, a, b) => Precedes(s2, a, b)
<1>0. Halves(s, s2, i, n)
  BY InsertedFacts
<1> SUFFICES ASSUME NEW a, NEW b, Precedes(s, a, b) PROVE Precedes(s2, a, b)
  OBVIOUS
<1>1. PICK x \in 1 .. Len(s), y \in 1 .. Len(s) : x < y /\ s[x] = a /\ s[y] = b
  BY DEF Precedes
<1>2. Len(s) \in Nat /\ Len(s2) = Len(s) + 1 /\ i \in 0 .. Len(s)
  BY <1>0 DEF Halves
<1>3. ASSUME NEW z \in 1 .. Len(s)
      PROVE  \E w \in 1 .. Len(s2) : s2[w] = s[z] /\ w = IF z <= i THEN z ELSE z + 1
  <2>1. CASE z <= i
    <3>1. z \in 1 .. i /\ z \in 1 .. Len(s2)
      BY <1>2, <2>1
    <3> QED
      BY <1>0, <2>1, <3>1 DEF Halves
  <2>2. CASE ~(z <= i)
    <3>1. z \in i + 1 .. Len(s) /\ z + 1 \in 1 .. Len(s2)
      BY <1>2, <2>2
    <3> QED
      BY <1>0, <2>2, <3>1 DEF Halves
  <2> QED
    BY <2>1, <2>2
<1>4. PICK v \in 1 .. Len(s2) : s2[v] = s[x] /\ v = IF x <= i THEN x ELSE x + 1
  BY <1>3
<1>5. PICK w \in 1 .. Len(s2) : s2[w] = s[y] /\ w = IF y <= i THEN y ELSE y + 1
  BY <1>3
<1>6. v < w
  BY <1>1, <1>2, <1>4, <1>5
<1> QED
  BY <1>1, <1>4, <1>5, <1>6 DEF Precedes

(* The history of level 0 only grows, and its nodes keep their keys.        *)
HistoryGrows ==
  /\ Len(links[0]) \in Nat /\ Len(links'[0]) \in Nat /\ Len(links[0]) <= Len(links'[0])
  /\ \A i \in 1 .. Len(links[0]) : /\ links'[0][i] = links[0][i]
                                   /\ links[0][i] \in On(0)
                                   /\ key'[links[0][i]] = key[links[0][i]]
  /\ \A n : n \in On(0) => n \in On(0)'

LEMMA StepHistory ==
  ASSUME IInv, NEW t \in Threads, Begin(t) \/ Step(t)
  PROVE  HistoryGrows
<1> USE DEF mem
<1>1. links[0] \in Seq(Nodes) /\ links'[0] \in Seq(Nodes) /\ TypeInv /\ 0 \in Levels
      /\ TypeInv'
  BY OnFacts, StepIInv, NodeFacts DEF IInv, TypeInv, SharedTypes
<1>2. \A i \in 1 .. Len(links[0]) : links[0][i] \in On(0) /\ links[0][i] \in Nodes
                                    /\ links[0][i] <= allocated
  <2>1. \A i \in 1 .. Len(links[0]) : links[0][i] \in On(0)
    BY <1>1 DEF On, ToSet
  <2> QED
    BY <1>1, <2>1 DEF IInv, NodeInv, LevelsNest
<1>3. CASE LinkSucceeds(t)
  <2>1. key' = key
    BY <1>3 DEF LinkSucceeds
  <2>2. links'[0] = links[0] \/ \E n \in Nodes : links'[0] = Append(links[0], n)
    <3>1. links' = [links EXCEPT ![at[t]] = Append(links[at[t]], node[t])]
      BY <1>3 DEF LinkSucceeds
    <3>2. node[t] \in Nodes
      BY <1>3, LinkFacts DEF IInv, Links
    <3>3. CASE at[t] = 0
      BY <1>1, <3>1, <3>2, <3>3 DEF TypeInv, SharedTypes
    <3>4. CASE at[t] # 0
      BY <1>1, <3>1, <3>4 DEF TypeInv, SharedTypes
    <3> QED
      BY <3>3, <3>4
  <2>3. CASE links'[0] = links[0]
    BY <1>1, <1>2, <2>1, <2>3 DEF HistoryGrows, On
  <2>4. ASSUME NEW n \in Nodes, links'[0] = Append(links[0], n) PROVE HistoryGrows
    <3>1. /\ Len(links'[0]) = Len(links[0]) + 1 /\ Len(links[0]) \in Nat
          /\ \A i \in 1 .. Len(links[0]) : links'[0][i] = links[0][i]
          /\ \A m : m \in ToSet(links[0]) => m \in ToSet(links'[0])
      BY <1>1, <2>4, AppendFacts
    <3> QED
      BY <1>2, <2>1, <3>1 DEF HistoryGrows, On
  <2> QED
    BY <2>2, <2>3, <2>4
<1>4. CASE ~LinkSucceeds(t)
  <2>1. links' = links
    BY <1>4 DEF Begin, Step, SearchStep, InsertStep, ScanStep, Insert, InsertWith, Seek, Iter,
       LoadMaxLevel, SkipLevel, EnterLevel, Advance, Descend, CountEntry, DrawHeight,
       RaiseMaxLevel, RaiseFails, Alloc, AllocPanics, LinkFails, Return, Position, Yield, EndScan
  <2>2. \A n \in Nodes : n <= allocated => key'[n] = key[n]
    <3>1. CASE Alloc(t)
      <4>1. key' = [key EXCEPT ![allocated + 1] = ctx[t].key]
        BY <3>1 DEF Alloc
      <4>2. \A n \in Nodes : n <= allocated => n # allocated + 1
        BY <1>1, OnFacts DEF Nodes
      <4> QED
        BY <1>1, <4>1, <4>2 DEF TypeInv, SharedTypes
    <3>2. CASE ~Alloc(t)
      BY <1>4, <3>2 DEF Begin, Step, SearchStep, InsertStep, ScanStep, Insert, InsertWith, Seek,
         Iter, LoadMaxLevel, SkipLevel, EnterLevel, Advance, Descend, CountEntry, DrawHeight,
         RaiseMaxLevel, RaiseFails, AllocPanics, LinkFails, Return, Position, Yield, EndScan
    <3> QED
      BY <3>1, <3>2
  <2>3. Len(links[0]) \in Nat /\ Len(links'[0]) = Len(links[0])
    BY <1>1, <2>1
  <2> QED
    BY <1>2, <2>1, <2>2, <2>3 DEF HistoryGrows, On
<1> QED
  BY <1>3, <1>4

(* A reader that is left alone stays right.                                 *)
LEMMA ScanKept ==
  ASSUME TypeInv, HistoryGrows, NEW u \in Threads, NEW s, NEW s2, ScanOk(u, s),
         \A a, b : Precedes(s, a, b) => Precedes(s2, a, b),
         pc'[u] = pc[u], op'[u] = op[u], ctx'[u] = ctx[u], since'[u] = since[u],
         item'[u] = item[u], out'[u] = out[u]
  PROVE  ScanOk(u, s2)'
<1>1. since[u] \in Nat /\ since[u] <= Len(links[0])
  BY DEF TypeInv, CallTypes, ScanOk
<1>2. \A i \in 1 .. since[u] : /\ i \in 1 .. Len(links[0]) /\ links'[0][i] = links[0][i]
                               /\ key'[links[0][i]] = key[links[0][i]]
  BY <1>1 DEF HistoryGrows
<1>3. \A a, n : From(s, a, n) => From(s2, a, n)
  BY DEF From
<1>4. since'[u] <= Len(links'[0])
  BY <1>1 DEF HistoryGrows
<1>5. ASSUME NEW q, Ahead(u, s, q) PROVE Ahead(u, s2, q)'
  BY <1>2, <1>3, <1>5 DEF Ahead
<1>6. pc[u] = "found" => Ahead(u, s2, ctx[u].succs[0])'
  <2> SUFFICES ASSUME pc[u] = "found" PROVE Ahead(u, s2, ctx[u].succs[0])'
    OBVIOUS
  <2>1. PICK q : q = ctx[u].succs[0]
    OBVIOUS
  <2>2. Ahead(u, s2, q)'
    BY <1>5, <2>1 DEF ScanOk
  <2> QED
    BY <2>1, <2>2 DEF Ahead
<1>7. ASSUME pc[u] = "scan"
      PROVE  (item[u] # Null => item[u] \in On(0)') /\ Yielded(u, s2)' /\ NoneMissed(u, s2)'
  <2>1. (item[u] # Null => item[u] \in On(0)) /\ Yielded(u, s) /\ NoneMissed(u, s)
    BY <1>7 DEF ScanOk
  <2>2. Yielded(u, s2)'
    BY <2>1 DEF Yielded
  <2>3. NoneMissed(u, s2)'
    BY <1>2, <1>3, <2>1 DEF NoneMissed
  <2> QED
    BY <2>1, <2>2, <2>3 DEF HistoryGrows
<1> QED
  BY <1>4, <1>6, <1>7 DEF ScanOk
(* What is linked is somewhere in the list, which goes on after each node   *)
(* with the next one.                                                       *)
LEMMA ListFacts ==
  ASSUME TypeInv, NEW s, LevelList(s, 0)
  PROVE  /\ s \in Seq(Nodes) /\ NoRepeats(s) /\ Len(s) \in Nat
         /\ links[0] \in Seq(Nodes) /\ Len(links[0]) \in Nat
         /\ \A a \in 1 .. Len(s) : s[a] \in Nodes /\ s[a] # Null /\ s[a] \in On(0)
         /\ \A n \in On(0) : n \in Nodes /\ \E a \in 1 .. Len(s) : s[a] = n
         /\ \A i \in 1 .. Len(links[0]) : \E a \in 1 .. Len(s) : s[a] = links[0][i]
         /\ \A a \in 1 .. Len(s) : next[s[a]][0] = IF a = Len(s) THEN Null ELSE s[a + 1]
<1>1. s \in Seq(Nodes) /\ NoRepeats(s) /\ Len(s) \in Nat /\ links[0] \in Seq(Nodes)
      /\ Len(links[0]) \in Nat
  BY OnFacts, NodeFacts DEF LevelList
<1>2. \A a \in 1 .. Len(s) : s[a] \in Nodes /\ s[a] # Null /\ s[a] \in On(0)
  BY <1>1, NodeFacts DEF LevelList
<1>3. \A n \in On(0) : n \in Nodes /\ \E a \in 1 .. Len(s) : s[a] = n
  BY OnFacts, NodeFacts DEF LevelList
<1>4. \A i \in 1 .. Len(links[0]) : links[0][i] \in On(0)
  BY <1>1 DEF On, ToSet
<1>5. ASSUME NEW a \in 1 .. Len(s) PROVE next[s[a]][0] = IF a = Len(s) THEN Null ELSE s[a + 1]
  <2>1. a = Len(s) \/ a \in 1 .. Len(s) - 1
    BY <1>1
  <2>2. a = Len(s) => Len(s) > 0
    BY <1>1
  <2> QED
    BY <2>1, <2>2 DEF LevelList
<1> QED
  BY <1>1, <1>2, <1>3, <1>4, <1>5

(* A reader's search: at its end, what was linked when it began and is not  *)
(* smaller is at the node it found, or behind.                              *)
LEMMA SearchScan ==
  ASSUME IInv, NEW t \in Readers, NEW s, LevelList(s, 0), ScanOk(t, s), SearchStep(t)
  PROVE  ScanOk(t, s)'
<1> USE DEF mem, data, insv, iter, Goto
<1>0. TypeInv /\ t \in Threads
  BY DEF IInv, Threads
<1>1. /\ pc[t] \in Searching
      /\ UNCHANGED <<links, key, since, op, out>>
      /\ pc'[t] \in Searching \union {"found"}
      /\ ctx'[t].key = ctx[t].key
  <2>1. pc[t] \in Searching /\ UNCHANGED <<links, key, since, op, out>>
    BY DEF SearchStep, LoadMaxLevel, SkipLevel, EnterLevel, Advance, Descend, Searching
  <2>2. AfterSearch(t) = "found"
    BY <1>0, AfterSearchFacts
  <2>3. pc'[t] \in Searching \union {"found"}
    BY <1>0, <2>2 DEF SearchStep, LoadMaxLevel, SkipLevel, EnterLevel, Advance, Descend,
       Searching, TypeInv, CallTypes
  <2>4. ctx'[t].key = ctx[t].key
    BY <1>0, CtxFacts DEF SearchStep, LoadMaxLevel, SkipLevel, EnterLevel, Advance, Descend,
       TypeInv, CtxTypes, Ctx
  <2> QED
    BY <2>1, <2>3, <2>4
<1>2. Len(out[t]) = 0 /\ op[t] = "seek" /\ since[t] <= Len(links[0])
  BY <1>1 DEF ScanOk, Searching
<1>3. ASSUME pc'[t] = "found" PROVE Ahead(t, s, ctx[t].succs[0])'
  <2>1. PICK k, q : k = ctx[t].key /\ q = ctx'[t].succs[0]
    OBVIOUS
  <2>2. PICK i : EndsAt(s, i, k, q)
    BY <1>0, <1>3, <2>1, SearchEnds
  <2>3. k \in Int /\ \A a \in 1 .. Len(s) : key[s[a]] \in Int
    BY <1>0, <2>1, OnFacts, ListFacts
  <2>4. since[t] \in Nat
    BY <1>0 DEF TypeInv, CallTypes
  <2>5. ASSUME NEW x \in 1 .. since[t], key[links[0][x]] >= k
        PROVE  q # Null /\ From(s, q, links[0][x])
    <3>1. x \in 1 .. Len(links[0])
      BY <1>0, <1>2, <2>4, ListFacts
    <3>2. PICK a \in 1 .. Len(s) : s[a] = links[0][x]
      BY <1>0, <3>1, ListFacts
    <3>3. i \in 0 .. Len(s) /\ ~(a \in 1 .. i)
      BY <2>2, <2>3, <2>5, <3>2 DEF EndsAt
    <3>4. Len(s) \in Nat
      BY <1>0, ListFacts
    <3>5. i # Len(s) /\ i + 1 \in 1 .. Len(s) /\ (a = i + 1 \/ i + 1 < a)
      BY <3>3, <3>4
    <3>6. q = s[i + 1] /\ q # Null
      BY <1>0, <2>2, <3>5, ListFacts DEF EndsAt
    <3> QED
      BY <3>2, <3>5, <3>6 DEF From, Precedes
  <2> QED
    BY <1>1, <2>1, <2>5 DEF Ahead
<1>4. pc'[t] # "scan"
  BY <1>1 DEF Searching
<1> QED
  BY <1>1, <1>2, <1>3, <1>4 DEF ScanOk

(* A reader's own steps.                                                    *)
LEMMA ReaderScan ==
  ASSUME IInv, NEW t \in Readers, NEW s, LevelList(s, 0), ScanOk(t, s),
         Seek(t) \/ Iter(t) \/ Position(t) \/ EndScan(t)
  PROVE  ScanOk(t, s)'
<1> USE DEF mem, data, insv, iter, Goto
<1>0. TypeInv /\ t \in Threads /\ Len(links[0]) \in Nat
  BY ListFacts DEF IInv, Threads
<1>1. ASSUME Seek(t) PROVE ScanOk(t, s)'
  <2>1. /\ pc[t] = "idle" /\ pc'[t] = "load_max" /\ op'[t] = "seek" /\ out' = out /\ links' = links
        /\ since'[t] = Len(links[0])
    BY <1>0, <1>1 DEF Seek, Start, BeginSearch, TypeInv, CallTypes
  <2> QED
    BY <1>0, <2>1 DEF ScanOk
<1>2. ASSUME Iter(t) PROVE ScanOk(t, s)'
  <2>1. /\ pc[t] = "idle" /\ pc'[t] = "scan" /\ op'[t] = "iter" /\ out' = out /\ links' = links
        /\ since'[t] = Len(links[0]) /\ item'[t] = next[Sentinel][0] /\ key' = key
    BY <1>0, <1>2 DEF Iter, Start, TypeInv, CallTypes, IteratorTypes
  <2>2. Len(out[t]) = 0 /\ Yielded(t, s)'
    BY <2>1 DEF ScanOk, Yielded
  <2>3. \A x \in 1 .. Len(links[0]) :
          next[Sentinel][0] # Null /\ From(s, next[Sentinel][0], links[0][x])
    <3> SUFFICES ASSUME NEW x \in 1 .. Len(links[0])
                 PROVE  next[Sentinel][0] # Null /\ From(s, next[Sentinel][0], links[0][x])
      OBVIOUS
    <3>1. PICK a \in 1 .. Len(s) : s[a] = links[0][x]
      BY <1>0, ListFacts
    <3>2. Len(s) \in Nat
      BY <1>0, ListFacts
    <3>3. 1 \in 1 .. Len(s) /\ Len(s) > 0 /\ (a = 1 \/ 1 < a)
      BY <3>2
    <3>4. next[Sentinel][0] = s[1] /\ s[1] # Null
      BY <1>0, <3>3, ListFacts DEF LevelList
    <3> QED
      BY <3>1, <3>3, <3>4 DEF From, Precedes
  <2>4. NoneMissed(t, s)'
    BY <2>1, <2>3 DEF NoneMissed
  <2>5. next[Sentinel][0] # Null => next[Sentinel][0] \in On(0)
    BY <1>0, NodeFacts, NextIsOn DEF IInv
  <2>6. On(0)' = On(0)
    BY <2>1 DEF On
  <2>7. since'[t] <= Len(links'[0])
    BY <1>0, <2>1
  <2> QED
    BY <2>1, <2>2, <2>4, <2>5, <2>6, <2>7 DEF ScanOk, Searching
<1>3. ASSUME Position(t) PROVE ScanOk(t, s)'
  <2>1. /\ pc[t] = "found" /\ pc'[t] = "scan" /\ item'[t] = ctx[t].succs[0]
        /\ UNCHANGED <<op, out, links, since, key, ctx>>
    BY <1>0, <1>3 DEF Position, TypeInv, CallTypes, IteratorTypes
  <2>2. /\ Len(out[t]) = 0 /\ Ahead(t, s, ctx[t].succs[0]) /\ op[t] = "seek"
        /\ since[t] <= Len(links[0])
    BY <2>1 DEF ScanOk
  <2>3. Yielded(t, s)' /\ NoneMissed(t, s)'
    BY <2>1, <2>2 DEF Yielded, NoneMissed, Ahead
  <2>4. ctx[t].succs[0] # Null => ctx[t].succs[0] \in On(0)
    BY <1>0, NodeFacts DEF IInv, NodeInv, SearchOk, KnownNotLess
  <2>5. On(0)' = On(0)
    BY <2>1 DEF On
  <2> QED
    BY <2>1, <2>2, <2>3, <2>4, <2>5 DEF ScanOk, Searching
<1>4. ASSUME EndScan(t) PROVE ScanOk(t, s)'
  <2>1. pc'[t] = "idle" /\ Len(out'[t]) = 0 /\ since'[t] = 0 /\ links' = links
    BY <1>0, <1>4 DEF EndScan, TypeInv, CallTypes, IteratorTypes
  <2> QED
    BY <1>0, <2>1 DEF ScanOk, Searching
<1> QED
  BY <1>1, <1>2, <1>3, <1>4

(* An iterator yields a node and goes to the next.                          *)
LEMMA YieldScan ==
  ASSUME IInv, NEW t \in Readers, NEW s, LevelList(s, 0), ScanOk(t, s), Yield(t)
  PROVE  ScanOk(t, s)'
<1> USE DEF mem, data, insv, iter
<1>0. TypeInv /\ t \in Threads /\ out[t] \in Seq(Nodes)
  BY DEF IInv, Threads, TypeInv, IteratorTypes
<1>1. /\ pc[t] = "scan" /\ UNCHANGED <<pc, op, ctx, links, since, key>>
      /\ item[t] # Null /\ out'[t] = Append(out[t], item[t]) /\ item'[t] = next[item[t]][0]
  BY <1>0 DEF Yield, AtEnd, TypeInv, IteratorTypes
<1>2. /\ item[t] \in On(0) /\ since[t] <= Len(links[0]) /\ Yielded(t, s) /\ NoneMissed(t, s)
      /\ item[t] \in Nodes
  BY <1>0, <1>1, OnFacts, NodeFacts DEF ScanOk
<1>3. PICK x \in 1 .. Len(s) : s[x] = item[t]
  BY <1>0, <1>2, ListFacts
<1>4. Len(s) \in Nat /\ item'[t] = IF x = Len(s) THEN Null ELSE s[x + 1]
  BY <1>0, <1>1, <1>3, ListFacts
<1>5. PICK o \in Seq(Nodes), m \in Nat, c \in Nodes :
        o = out[t] /\ m = Len(o) /\ c = item[t]
  BY <1>0, <1>2
<1>6. /\ Len(out'[t]) = m + 1 /\ out'[t][m + 1] = c
      /\ \A i \in 1 .. m : out'[t][i] = o[i]
  BY <1>1, <1>5, AppendFacts
<1>7. /\ \A i, j \in 1 .. m : i < j => Precedes(s, o[i], o[j])
      /\ \A i \in 1 .. m : Precedes(s, o[i], c)
  BY <1>1, <1>2, <1>5 DEF Yielded
<1>8. \A i \in 1 .. m + 1 : i = m + 1 \/ i \in 1 .. m
  OBVIOUS
<1>9. \A i, j \in 1 .. Len(out'[t]) : i < j => Precedes(s, out'[t][i], out'[t][j])
  <2> SUFFICES ASSUME NEW i \in 1 .. m + 1, NEW j \in 1 .. m + 1, i < j
               PROVE  Precedes(s, out'[t][i], out'[t][j])
    BY <1>6
  <2>1. i \in 1 .. m
    OBVIOUS
  <2> QED
    BY <1>6, <1>7, <1>8, <2>1
<1>10. ASSUME item'[t] # Null
       PROVE  Precedes(s, c, item'[t]) /\ item'[t] \in On(0)
  <2>1. x # Len(s) /\ x + 1 \in 1 .. Len(s) /\ x < x + 1 /\ item'[t] = s[x + 1]
    BY <1>4, <1>10
  <2> QED
    BY <1>0, <1>3, <1>5, <2>1, ListFacts DEF Precedes
<1>11. item'[t] # Null => \A i \in 1 .. Len(out'[t]) : Precedes(s, out'[t][i], item'[t])
  <2>1. s \in Seq(Nodes) /\ NoRepeats(s)
    BY <1>0, ListFacts
  <2>2. \A a, b, d : Precedes(s, a, b) /\ Precedes(s, b, d) => Precedes(s, a, d)
    BY <2>1, PrecedesFacts
  <2> QED
    BY <1>6, <1>7, <1>8, <1>10, <2>2
<1>12. Yielded(t, s)'
  BY <1>9, <1>11 DEF Yielded
<1>13. NoneMissed(t, s)'
  <2> SUFFICES ASSUME NEW i \in 1 .. since[t],
                      op[t] = "seek" => key[links[0][i]] >= ctx[t].key
               PROVE  \/ \E j \in 1 .. Len(out'[t]) : out'[t][j] = links[0][i]
                      \/ item'[t] # Null /\ From(s, item'[t], links[0][i])
    BY <1>1 DEF NoneMissed
  <2>1. \/ \E j \in 1 .. m : o[j] = links[0][i]
        \/ From(s, c, links[0][i])
    BY <1>2, <1>5 DEF NoneMissed
  <2>2. CASE \E j \in 1 .. m : o[j] = links[0][i]
    <3>1. \A j \in 1 .. m : j \in 1 .. m + 1
      OBVIOUS
    <3> QED
      BY <1>6, <2>2, <3>1
  <2>3. CASE c = links[0][i]
    <3>1. m + 1 \in 1 .. m + 1
      OBVIOUS
    <3> QED
      BY <1>6, <2>3, <3>1
  <2>4. CASE Precedes(s, c, links[0][i])
    <3>1. PICK y \in 1 .. Len(s), z \in 1 .. Len(s) : y < z /\ s[y] = c /\ s[z] = links[0][i]
      BY <2>4 DEF Precedes
    <3>2. y = x
      BY <1>0, <1>3, <1>5, <3>1, ListFacts DEF NoRepeats
    <3>3. x # Len(s) /\ x + 1 \in 1 .. Len(s) /\ (z = x + 1 \/ x + 1 < z)
      BY <1>4, <3>1, <3>2
    <3>4. item'[t] = s[x + 1] /\ s[x + 1] # Null
      BY <1>0, <1>4, <3>3, ListFacts
    <3> QED
      BY <3>1, <3>3, <3>4 DEF From, Precedes
  <2> QED
    BY <2>1, <2>2, <2>3, <2>4 DEF From
<1>14. On(0)' = On(0)
  BY <1>1 DEF On
<1> QED
  BY <1>1, <1>2, <1>10, <1>12, <1>13, <1>14 DEF ScanOk, Searching

(* Every step keeps what the readers know.                                  *)
LEMMA StepScan ==
  ASSUME IInv, ScanInv, NEW t \in Threads, Begin(t) \/ Step(t)
  PROVE  ScanInv'
<1>1. PICK s : LevelList(s, 0) /\ \A u \in Readers : ScanOk(u, s)
  BY DEF ScanInv
<1>2. \E s2 : /\ LevelList(s2, 0)' /\ \A a, b : Precedes(s, a, b) => Precedes(s2, a, b)
              /\ LinkSucceeds(t) \/ s2 = s
  <2>1. CASE LinkSucceeds(t) /\ at[t] = 0
    <3>1. PICK l : l = 0
      OBVIOUS
    <3>2. PICK s2 : GrowsTo(s, s2, node[t], l) /\ LevelList(s2, l)'
      BY <1>1, <2>1, <3>1, LinkLists DEF IInv
    <3>3. PICK i, p, q : Between(s, i, p, q, node[t], l) /\ Inserted(s, s2, i, node[t])
      BY <3>2 DEF GrowsTo
    <3>4. PICK n : n = node[t]
      OBVIOUS
    <3>5. s \in Seq(Nodes) /\ i \in 0 .. Len(s) /\ Inserted(s, s2, i, n)
      BY <1>1, <3>3, <3>4 DEF LevelList, Between
    <3> QED
      BY <2>1, <3>1, <3>2, <3>5, InsertedOrder
  <2>2. CASE ~(LinkSucceeds(t) /\ at[t] = 0)
    <3>1. LevelList(s, 0)'
      <4>1. CASE LinkSucceeds(t)
        BY <1>1, <2>2, <4>1, LinkLists, NodeFacts DEF IInv
      <4>2. CASE ~LinkSucceeds(t)
        BY <1>1, <4>2, ListsKept, NodeFacts DEF IInv
      <4> QED
        BY <4>1, <4>2
    <3> QED
      BY <3>1
  <2> QED
    BY <2>1, <2>2
<1>3. PICK s2 : /\ LevelList(s2, 0)' /\ \A a, b : Precedes(s, a, b) => Precedes(s2, a, b)
                /\ LinkSucceeds(t) \/ s2 = s
  BY <1>2
<1>4. ASSUME NEW u \in Readers PROVE ScanOk(u, s2)'
  <2>0. u \in Threads /\ TypeInv
    BY DEF Threads, IInv
  <2>1. CASE u # t
    <3>1. HistoryGrows /\ OthersKept(t)
      BY StepHistory, StepStays DEF IInv, Stays
    <3>2. /\ pc'[u] = pc[u] /\ op'[u] = op[u] /\ ctx'[u] = ctx[u] /\ since'[u] = since[u]
          /\ item'[u] = item[u] /\ out'[u] = out[u]
      BY <2>0, <2>1, <3>1 DEF OthersKept
    <3> QED
      BY <1>1, <1>3, <2>0, <3>1, <3>2, ScanKept
  <2>2. CASE u = t
    <3>1. t \in Readers /\ t \notin Writers /\ Place(t)
      BY <2>0, <2>2, RoleAssumption DEF TypeInv
    <3>2. ~LinkSucceeds(t)
      BY <3>1 DEF LinkSucceeds, Place
    <3>3. SearchStep(t) \/ Seek(t) \/ Iter(t) \/ Position(t) \/ Yield(t) \/ EndScan(t)
      BY <3>1 DEF Begin, Step, InsertStep, ScanStep, Insert, InsertWith, Place, CountEntry,
         DrawHeight, RaiseMaxLevel, RaiseFails, Alloc, AllocPanics, LinkSucceeds, LinkFails,
         Return
    <3> QED
      BY <1>1, <1>3, <2>2, <3>1, <3>2, <3>3, SearchScan, ReaderScan, YieldScan
  <2> QED
    BY <2>1, <2>2
<1> QED
  BY <1>3, <1>4 DEF ScanInv

LEMMA InitScan == Init => ScanInv
<1> SUFFICES ASSUME Init PROVE ScanInv
  OBVIOUS
<1>1. PICK s : LevelList(s, 0)
  BY InitIInv, NodeFacts DEF IInv, ListInv
<1>2. \A t \in Readers : ScanOk(t, s)
  BY NodeFacts DEF Init, ScanOk, Threads, Searching
<1> QED
  BY <1>1, <1>2 DEF ScanInv

LEMMA ScansThroughout == Spec => []ScanInv
<1>1. IInv /\ ScanInv /\ [Next]_vars => ScanInv'
  <2> SUFFICES ASSUME IInv, ScanInv, [Next]_vars PROVE ScanInv'
    OBVIOUS
  <2>1. CASE Next
    BY <2>1, StepScan DEF Next
  <2>2. CASE UNCHANGED vars
    BY <2>2 DEF vars, mem, data, insv, iter, ScanInv, LevelList, ScanOk, On, Yielded,
       NoneMissed, Ahead
  <2> QED
    BY <2>1, <2>2
<1> QED
  BY <1>1, InitScan, SkipListInvariance, PTL DEF Spec

(* The raw bytes of keys are ordered like the keys: what a range has to     *)
(* rely on, since its end bound is compared with raw bytes.                 *)
BytesAgree == \A a, b \in Keys : a < b => Bytes[a] < Bytes[b]

(* Where the order of raw bytes agrees with the comparator, an iterator     *)
(* yields nodes in order, none twice, and no node of its range that was in  *)
(* the list when it was created is missed, however many insertions happen   *)
(* around it.                                                               *)
THEOREM ScansAreComplete ==
  ASSUME BytesAgree
  PROVE  Spec => []ScanIsComplete
<1>1. ASSUME IInv, ScanInv PROVE ScanIsComplete
  <2> SUFFICES ASSUME NEW t \in Readers, pc[t] = "scan"
               PROVE  /\ \A i \in 1 .. Len(out[t]) - 1 : key[out[t][i]] <= key[out[t][i + 1]]
                      /\ IsInjective(out[t])
                      /\ AtEnd(t) =>
                           \A i \in 1 .. since[t] :
                             InRange(t, links[0][i]) => links[0][i] \in ToSet(out[t])
    BY DEF ScanIsComplete
  <2>1. PICK s : LevelList(s, 0) /\ ScanOk(t, s)
    BY <1>1 DEF ScanInv
  <2>2. /\ TypeInv /\ t \in Threads /\ Yielded(t, s) /\ NoneMissed(t, s)
        /\ item[t] # Null => item[t] \in On(0)
    BY <1>1, <2>1 DEF IInv, Threads, ScanOk
  <2>3. out[t] \in Seq(Nodes) /\ Len(out[t]) \in Nat /\ DOMAIN out[t] = 1 .. Len(out[t])
    BY <2>2 DEF TypeInv, IteratorTypes
  <2>4. \A a, b : Precedes(s, a, b) => key[a] <= key[b] /\ a # b
    <3>1. s \in Seq(Nodes) /\ NoRepeats(s) /\ Len(s) \in Nat
      BY <2>1, <2>2, ListFacts
    <3>2. \A a, b : Precedes(s, a, b) => key[a] <= key[b]
      BY <2>1 DEF Precedes, LevelList
    <3> QED
      BY <3>1, <3>2, PrecedesFacts
  <2>5. \A i \in 1 .. Len(out[t]) - 1 : key[out[t][i]] <= key[out[t][i + 1]]
    <3>1. \A i \in 1 .. Len(out[t]) - 1 : i \in 1 .. Len(out[t]) /\ i + 1 \in 1 .. Len(out[t]) /\ i < i + 1
      BY <2>3
    <3> QED
      BY <2>2, <2>4, <3>1 DEF Yielded
  <2>6. IsInjective(out[t])
    <3> SUFFICES ASSUME NEW a \in 1 .. Len(out[t]), NEW b \in 1 .. Len(out[t]), a # b
                 PROVE  out[t][a] # out[t][b]
      BY <2>3 DEF IsInjective
    <3>1. a < b \/ b < a
      BY <2>3
    <3> QED
      BY <2>2, <2>4, <3>1 DEF Yielded
  <2>7. ASSUME AtEnd(t), NEW i \in 1 .. since[t], InRange(t, links[0][i]),
               ~(\E j \in 1 .. Len(out[t]) : out[t][j] = links[0][i])
        PROVE  FALSE
    <3>1. item[t] # Null /\ From(s, item[t], links[0][i])
      BY <2>2, <2>7 DEF NoneMissed, InRange
    <3>2. since[t] \in Nat /\ Len(links[0]) \in Nat /\ since[t] <= Len(links[0])
      BY <2>1, <2>2, ListFacts DEF TypeInv, CallTypes, ScanOk
    <3>3. i \in 1 .. Len(links[0])
      BY <3>2
    <3>4. links[0][i] \in Nodes /\ item[t] \in Nodes
      BY <2>1, <2>2, <3>1, <3>3, ListFacts, OnFacts, NodeFacts
    <3>0. PICK d : d = bound[t]
      OBVIOUS
    <3>5. PICK a \in Keys, b \in Keys, e \in Keys :
            /\ a = key[item[t]] /\ b = key[links[0][i]] /\ d = bound[t] /\ e = d.key
      BY <2>2, <3>0, <3>4, OnFacts DEF TypeInv, IteratorTypes
    <3>6. a \in Int /\ b \in Int /\ e \in Int /\ Bytes[a] \in Int /\ Bytes[e] \in Int
      BY KeyAssumption
    <3>7. a <= b
      BY <2>4, <3>1, <3>5, <3>6 DEF From
    <3>8. PastEnd(d, a)
      BY <2>7, <3>1, <3>5 DEF AtEnd
    <3>9. CASE d.kind = "Excluded"
      <4>1. b < e /\ Bytes[a] >= Bytes[e]
        BY <2>7, <3>5, <3>8, <3>9 DEF InRange, PastEnd
      <4>2. a < e
        BY <3>6, <3>7, <4>1
      <4> QED
        BY <1>1, <3>6, <4>1, <4>2 DEF BytesAgree
    <3>10. CASE d.kind = "Included"
      <4>1. b <= e /\ Bytes[a] > Bytes[e]
        BY <2>7, <3>5, <3>8, <3>10 DEF InRange, PastEnd
      <4>2. a < e \/ a = e
        BY <3>6, <3>7, <4>1
      <4> QED
        BY <1>1, <3>6, <4>1, <4>2 DEF BytesAgree
    <3> QED
      BY <3>8, <3>9, <3>10 DEF PastEnd
  <2>8. \A n : (\E j \in 1 .. Len(out[t]) : out[t][j] = n) => n \in ToSet(out[t])
    BY <2>3 DEF ToSet
  <2> QED
    BY <2>5, <2>6, <2>7, <2>8
<1>2. IInv /\ ScanInv => ScanIsComplete
  BY <1>1
<1> QED
  BY <1>2, SkipListInvariance, ScansThroughout, PTL


-----------------------------------------------------------------------------
(* Level 0 implements OrderedList.                                          *)

Entry == [id : Nodes, key : Keys]

(* Two sequences of entries, one after the other.                           *)
LEMMA ConcatFacts ==
  ASSUME NEW a \in Seq(Entry), NEW b \in Seq(Entry)
  PROVE  /\ a \o b \in Seq(Entry) /\ Len(a \o b) = Len(a) + Len(b)
         /\ Len(a) \in Nat /\ Len(b) \in Nat
         /\ \A x \in 1 .. Len(a) : (a \o b)[x] = a[x]
         /\ \A x \in 1 .. Len(b) : (a \o b)[Len(a) + x] = b[x]
<1>1. a \o b \in Seq(Entry) /\ Len(a \o b) = Len(a) + Len(b) /\ Len(a) \in Nat /\ Len(b) \in Nat
  OBVIOUS
<1>2. \A x \in 1 .. Len(a) : (a \o b)[x] = a[x]
  OBVIOUS
<1>3. \A x \in 1 .. Len(b) : (a \o b)[Len(a) + x] = b[x]
  OBVIOUS
<1> QED
  BY <1>1, <1>2, <1>3

(* What inserting into a sequence of entries gives, index by index.         *)
LEMMA InsertAtFacts ==
  ASSUME NEW B \in Seq(Entry), NEW i \in 0 .. Len(B), NEW e \in Entry
  PROVE  InsertAt(B, i + 1, e) =
           [x \in 1 .. Len(B) + 1 |->
              IF x <= i THEN B[x] ELSE IF x = i + 1 THEN e ELSE B[x - 1]]
<1>1. Len(B) \in Nat /\ i \in Nat /\ (i + 1) - 1 = i
  OBVIOUS
<1>2. PICK b1, b2, b3 : /\ b1 = SubSeq(B, 1, i) /\ b2 = <<e>> /\ b3 = SubSeq(B, i + 1, Len(B))
  OBVIOUS
<1>3. /\ b1 \in Seq(Entry) /\ Len(b1) = i /\ \A x \in 1 .. i : b1[x] = B[x]
  BY <1>1, <1>2
<1>4. /\ b2 \in Seq(Entry) /\ Len(b2) = 1 /\ b2[1] = e
  BY <1>2
<1>5. /\ b3 \in Seq(Entry) /\ Len(b3) = Len(B) - i
      /\ \A x \in 1 .. Len(B) - i : b3[x] = B[i + x]
  <2>1. CASE i = Len(B)
    BY <1>1, <1>2, <2>1
  <2>2. CASE i < Len(B)
    BY <1>1, <1>2, <2>2
  <2> QED
    BY <1>1, <2>1, <2>2
<1>6. PICK c : c = b1 \o b2
  OBVIOUS
<1>7. /\ c \in Seq(Entry) /\ Len(c) = i + 1 /\ c[i + 1] = e
      /\ \A x \in 1 .. i : c[x] = B[x]
  <2>0. /\ b1 \o b2 \in Seq(Entry) /\ Len(b1 \o b2) = Len(b1) + Len(b2)
        /\ \A x \in 1 .. Len(b1) : (b1 \o b2)[x] = b1[x]
        /\ \A x \in 1 .. Len(b2) : (b1 \o b2)[Len(b1) + x] = b2[x]
    BY <1>3, <1>4, ConcatFacts
  <2>1. /\ c \in Seq(Entry) /\ Len(c) = i + 1
        /\ \A x \in 1 .. i : c[x] = b1[x]
        /\ \A x \in 1 .. 1 : c[i + x] = b2[x]
    BY <1>3, <1>4, <1>6, <2>0
  <2> QED
    BY <1>3, <1>4, <2>1
<1>8. PICK d : d = c \o b3
  OBVIOUS
<1>9. /\ d \in Seq(Entry) /\ Len(d) = Len(B) + 1
      /\ \A x \in 1 .. i + 1 : d[x] = c[x]
      /\ \A x \in i + 2 .. Len(B) + 1 : d[x] = B[x - 1]
  <2>0. /\ d \in Seq(Entry) /\ Len(d) = (i + 1) + (Len(B) - i)
        /\ \A x \in 1 .. i + 1 : d[x] = c[x]
        /\ \A x \in 1 .. Len(B) - i : d[(i + 1) + x] = b3[x]
    <3>1. /\ c \o b3 \in Seq(Entry) /\ Len(c \o b3) = Len(c) + Len(b3)
          /\ \A x \in 1 .. Len(c) : (c \o b3)[x] = c[x]
          /\ \A x \in 1 .. Len(b3) : (c \o b3)[Len(c) + x] = b3[x]
      BY <1>5, <1>7, ConcatFacts
    <3> QED
      BY <1>5, <1>7, <1>8, <3>1
  <2>1. d \in Seq(Entry) /\ Len(d) = Len(B) + 1
    BY <1>1, <2>0
  <2>2. \A x \in 1 .. i + 1 : d[x] = c[x]
    BY <2>0
  <2>3. ASSUME NEW x \in i + 2 .. Len(B) + 1 PROVE d[x] = B[x - 1]
    <3>1. PICK y \in 1 .. Len(B) - i : y = x - (i + 1)
      BY <1>1
    <3>2. d[x] = b3[y]
      <4>1. (i + 1) + y = x
        BY <1>1, <3>1
      <4> QED
        BY <2>0, <4>1
    <3>3. i + y = x - 1
      BY <1>1, <3>1
    <3> QED
      BY <1>5, <3>1, <3>2, <3>3
  <2> QED
    BY <2>1, <2>2, <2>3
<1>10. InsertAt(B, i + 1, e) = d
  <2>1. InsertAt(B, i + 1, e) = SubSeq(B, 1, (i + 1) - 1) \o <<e>> \o SubSeq(B, i + 1, Len(B))
    BY Zenon DEF InsertAt
  <2> QED
    BY <1>1, <1>2, <1>6, <1>8, <2>1, Zenon
<1>11. \A x \in 1 .. Len(B) + 1 :
         d[x] = IF x <= i THEN B[x] ELSE IF x = i + 1 THEN e ELSE B[x - 1]
  <2> SUFFICES ASSUME NEW x \in 1 .. Len(B) + 1
               PROVE  d[x] = IF x <= i THEN B[x] ELSE IF x = i + 1 THEN e ELSE B[x - 1]
    OBVIOUS
  <2>1. CASE x <= i
    <3>1. x \in 1 .. i /\ x \in 1 .. i + 1
      BY <1>1, <2>1
    <3> QED
      BY <1>7, <1>9, <2>1, <3>1
  <2>2. CASE x = i + 1
    <3>1. x \in 1 .. i + 1 /\ ~(x <= i)
      BY <1>1, <2>2
    <3> QED
      BY <1>7, <1>9, <2>2, <3>1
  <2>3. CASE x > i + 1
    <3>1. x \in i + 2 .. Len(B) + 1 /\ ~(x <= i) /\ x # i + 1
      BY <1>1, <2>3
    <3> QED
      BY <1>9, <3>1
  <2> QED
    BY <1>1, <2>1, <2>2, <2>3
<1>12. d = [x \in 1 .. Len(B) + 1 |-> d[x]]
  BY <1>9
<1> QED
  BY <1>10, <1>11, <1>12

(* The entries of list s.                                                   *)
Entries(s, k) == [i \in 1 .. Len(s) |-> [id |-> s[i], key |-> k[s[i]]]]

LEMMA EntriesFacts ==
  ASSUME NEW s \in Seq(Nodes), NEW k \in [Nodes -> Keys]
  PROVE  /\ Entries(s, k) \in Seq(Entry) /\ Len(Entries(s, k)) = Len(s) /\ Len(s) \in Nat
         /\ DOMAIN Entries(s, k) = 1 .. Len(s)
         /\ \A i \in 1 .. Len(s) : /\ Entries(s, k)[i] = [id |-> s[i], key |-> k[s[i]]]
                                   /\ Entries(s, k)[i].id = s[i]
                                   /\ Entries(s, k)[i].key = k[s[i]]
<1>1. Len(s) \in Nat /\ \A i \in 1 .. Len(s) : s[i] \in Nodes /\ k[s[i]] \in Keys
  OBVIOUS
<1>2. Entries(s, k) \in [1 .. Len(s) -> Entry]
  BY <1>1 DEF Entries, Entry
<1>3. \A i \in 1 .. Len(s) : Entries(s, k)[i] = [id |-> s[i], key |-> k[s[i]]]
  BY DEF Entries
<1>4. Entries(s, k) \in Seq(Entry) /\ Len(Entries(s, k)) = Len(s)
      /\ DOMAIN Entries(s, k) = 1 .. Len(s)
  BY <1>1, <1>2
<1> QED
  BY <1>1, <1>3, <1>4

(* What level 0 is to OrderedList, before and after a step.                 *)
LEMMA BaseIsEntries ==
  ASSUME NEW s
  PROVE  /\ LevelList(s, 0) => BaseList = Entries(s, key)
         /\ LevelList(s, 0)' => BaseList' = Entries(s, key')
<1>1. LevelList(s, 0) => Chain(0) = s
  BY ChainIsList, NodeFacts
<1>2. LevelList(s, 0)' => Chain(0)' = s
  BY ChainIsListAfter, NodeFacts
<1> QED
  BY <1>1, <1>2 DEF BaseList, Entries

(* A link on level 0 is the insertion of OrderedList.                       *)
LEMMA LinkInserts ==
  ASSUME NEW s \in Seq(Nodes), NEW s2 \in Seq(Nodes), NEW n \in Nodes, NEW k \in [Nodes -> Keys],
         NEW i \in 0 .. Len(s), Inserted(s, s2, i, n),
         \A a \in 1 .. i : k[s[a]] < k[n],
         \A a \in i + 1 .. Len(s) : k[s[a]] >= k[n]
  PROVE  LET B == Entries(s, k)
             smaller == {a \in 1 .. Len(B) : B[a].key < k[n]}
         IN  Entries(s2, k) = InsertAt(B, Cardinality(smaller) + 1, [id |-> n, key |-> k[n]])
<1>0. Halves(s, s2, i, n)
  BY InsertedFacts
<1>1. /\ Len(s) \in Nat /\ Len(s2) = Len(s) + 1 /\ i \in Nat
      /\ \A a \in 1 .. Len(s) : k[s[a]] \in Int
      /\ k[n] \in Int
  <2>1. \A a \in 1 .. Len(s) : s[a] \in Nodes
    OBVIOUS
  <2>2. \A m \in Nodes : k[m] \in Int
    BY KeyAssumption
  <2> QED
    BY <1>0, <2>1, <2>2 DEF Halves
<1>2. PICK B : B = Entries(s, k)
  OBVIOUS
<1>3. /\ B \in Seq(Entry) /\ Len(B) = Len(s)
      /\ \A a \in 1 .. Len(s) : B[a] = [id |-> s[a], key |-> k[s[a]]] /\ B[a].key = k[s[a]]
  BY <1>2, EntriesFacts
<1>4. {a \in 1 .. Len(B) : B[a].key < k[n]} = 1 .. i
  <2>1. \A a \in 1 .. Len(s) : B[a].key < k[n] <=> a <= i
    <3> SUFFICES ASSUME NEW a \in 1 .. Len(s) PROVE k[s[a]] < k[n] <=> a <= i
      BY <1>3
    <3>1. CASE a <= i
      BY <1>1, <3>1
    <3>2. CASE ~(a <= i)
      <4>1. a \in i + 1 .. Len(s)
        BY <1>1, <3>2
      <4> QED
        BY <1>1, <3>2, <4>1
    <3> QED
      BY <3>1, <3>2
  <2> QED
    BY <1>1, <1>3, <2>1
<1>5. Cardinality(1 .. i) = i
  BY <1>1, FS_Interval
<1>6. PICK e \in Entry : e = [id |-> n, key |-> k[n]]
  BY DEF Entry
<1>7. i \in 0 .. Len(B)
  BY <1>3
<1>8. InsertAt(B, i + 1, e) =
        [x \in 1 .. Len(B) + 1 |-> IF x <= i THEN B[x] ELSE IF x = i + 1 THEN e ELSE B[x - 1]]
  BY <1>3, <1>7, InsertAtFacts
<1>9. Entries(s2, k) = [x \in 1 .. Len(s2) |-> [id |-> s2[x], key |-> k[s2[x]]]]
  BY DEF Entries
<1>10. \A x \in 1 .. Len(s2) :
         [id |-> s2[x], key |-> k[s2[x]]] =
           IF x <= i THEN B[x] ELSE IF x = i + 1 THEN e ELSE B[x - 1]
  <2> SUFFICES ASSUME NEW x \in 1 .. Len(s2)
               PROVE  [id |-> s2[x], key |-> k[s2[x]]] =
                        IF x <= i THEN B[x] ELSE IF x = i + 1 THEN e ELSE B[x - 1]
    OBVIOUS
  <2>1. CASE x <= i
    <3>1. x \in 1 .. Len(s) /\ s2[x] = s[x]
      BY <1>0, <1>1, <2>1 DEF Halves
    <3> QED
      BY <1>3, <2>1, <3>1
  <2>2. CASE x = i + 1
    <3>1. s2[x] = n /\ ~(x <= i)
      BY <1>0, <1>1, <2>2 DEF Halves
    <3> QED
      BY <1>6, <2>2, <3>1
  <2>3. CASE x > i + 1
    <3>1. PICK y \in 1 .. Len(s) : y = x - 1 /\ s2[x] = s[y]
      BY <1>0, <1>1, <2>3 DEF Halves
    <3>2. ~(x <= i) /\ x # i + 1
      BY <1>1, <2>3
    <3> QED
      BY <1>3, <3>1, <3>2
  <2> QED
    BY <1>1, <2>1, <2>2, <2>3
<1>11. Len(B) + 1 = Len(s2)
  BY <1>1, <1>3
<1>12. Entries(s2, k) = InsertAt(B, i + 1, e)
  BY <1>8, <1>9, <1>10, <1>11
<1> QED
  BY <1>2, <1>4, <1>5, <1>6, <1>12

(* A step of the list is an insertion of OrderedList or changes nothing     *)
(* that it can see.                                                         *)
LEMMA StepRefines ==
  ASSUME IInv, NEW t \in Threads, Begin(t) \/ Step(t)
  PROVE  Abstract!ListNext \/ UNCHANGED BaseList
<1>1. PICK s : LevelList(s, 0)
  BY NodeFacts DEF IInv, ListInv
<1>2. s \in Seq(Nodes) /\ key \in [Nodes -> Keys] /\ TypeInv /\ BaseList = Entries(s, key)
  BY <1>1, BaseIsEntries DEF LevelList, IInv, TypeInv, SharedTypes
<1>3. CASE LinkSucceeds(t) /\ at[t] = 0
  <2>1. PICK l : l = 0
    OBVIOUS
  <2>2. PICK s2 : GrowsTo(s, s2, node[t], l) /\ LevelList(s2, l)'
    BY <1>1, <1>3, <2>1, LinkLists DEF IInv
  <2>3. PICK i, p, q : Between(s, i, p, q, node[t], l) /\ Inserted(s, s2, i, node[t])
    BY <2>2 DEF GrowsTo
  <2>4. PICK n \in Nodes : n = node[t] /\ n \notin On(0)
    BY <1>3, LinkFacts DEF IInv, Links
  <2>5. PICK k \in [Nodes -> Keys] : k = key /\ key' = k
    BY <1>2, <1>3 DEF LinkSucceeds
  <2>6. BaseList = Entries(s, k) /\ BaseList' = Entries(s2, k)
    BY <1>2, <2>1, <2>2, <2>5, BaseIsEntries
  <2>7. s2 \in Seq(Nodes) /\ i \in 0 .. Len(s) /\ Inserted(s, s2, i, n)
    BY <2>2, <2>3, <2>4 DEF LevelList, Between
  <2>8. /\ \A a \in 1 .. i : k[s[a]] < k[n]
        /\ \A a \in i + 1 .. Len(s) : k[s[a]] >= k[n]
    BY <2>3, <2>4, <2>5 DEF Between
  <2>9. PICK B : B = Entries(s, k)
    OBVIOUS
  <2>10. Entries(s2, k) =
           InsertAt(B, Cardinality({a \in 1 .. Len(B) : B[a].key < k[n]}) + 1,
                    [id |-> n, key |-> k[n]])
    BY <1>2, <2>7, <2>8, <2>9, LinkInserts
  <2>11. \A a \in DOMAIN B : B[a].id # n
    <3>1. DOMAIN B = 1 .. Len(s) /\ \A a \in 1 .. Len(s) : B[a].id = s[a]
      BY <1>2, <2>9, EntriesFacts
    <3>2. \A a \in 1 .. Len(s) : s[a] \in On(0)
      BY <1>1, <1>2, ListFacts
    <3> QED
      BY <2>4, <3>1, <3>2
  <2>12. k[n] \in Keys
    OBVIOUS
  <2>13. /\ \A a \in DOMAIN BaseList : BaseList[a].id # n
         /\ BaseList' = InsertAt(BaseList, Cardinality({a \in 1 .. Len(BaseList) :
                                                       Smaller(BaseList[a].key, k[n])}) + 1,
                                 [id |-> n, key |-> k[n]])
    BY <2>6, <2>9, <2>10, <2>11 DEF Smaller
  <2>14. Abstract!Insert(n, k[n])
    <3>1. \A S : Abstract!Cardinality(S) = Cardinality(S)
      BY Zenon DEF Abstract!Cardinality, Cardinality
    <3>2. \A x, y, z : Abstract!InsertAt(x, y, z) = InsertAt(x, y, z)
      BY Zenon DEF Abstract!InsertAt, InsertAt
    <3> QED
      BY <2>13, <3>1, <3>2, Zenon DEF Abstract!Insert
  <2> QED
    BY <2>12, <2>13, <2>14 DEF Abstract!ListNext
<1>4. CASE ~(LinkSucceeds(t) /\ at[t] = 0)
  <2>1. LevelList(s, 0)'
    <3>1. CASE LinkSucceeds(t)
      BY <1>1, <1>4, <3>1, LinkLists, NodeFacts DEF IInv
    <3>2. CASE ~LinkSucceeds(t)
      BY <1>1, <3>2, ListsKept, NodeFacts DEF IInv
    <3> QED
      BY <3>1, <3>2
  <2>2. BaseList' = Entries(s, key')
    BY <2>1, BaseIsEntries
  <2>3. \A a \in 1 .. Len(s) : key'[s[a]] = key[s[a]]
    <3>1. HistoryGrows
      BY StepHistory
    <3>2. ASSUME NEW a \in 1 .. Len(s) PROVE key'[s[a]] = key[s[a]]
      <4>1. s[a] \in On(0) /\ links[0] \in Seq(Nodes)
        BY <1>1, <1>2, ListFacts
      <4>2. PICK x \in 1 .. Len(links[0]) : links[0][x] = s[a]
        BY <4>1 DEF On, ToSet
      <4> QED
        BY <3>1, <4>2 DEF HistoryGrows
    <3> QED
      BY <3>2
  <2> QED
    BY <1>2, <2>2, <2>3 DEF Entries
<1> QED
  BY <1>3, <1>4

(* Level 0 implements the abstract ordered list: an insertion takes effect, *)
(* whole, in front of the entries that have its key, at its                 *)
(* compare-and-swap on level 0, and no other step changes the list.         *)
THEOREM ImplementsOrderedList == Spec => RefinesOrderedList
<1>1. Init => Abstract!ListInit
  <2> SUFFICES ASSUME Init PROVE BaseList = <<>>
    BY DEF Abstract!ListInit
  <2>1. PICK s : LevelList(s, 0)
    BY InitIInv, NodeFacts DEF IInv, ListInv
  <2>2. Len(s) = 0
    BY <2>1, NodeFacts DEF LevelList, Init
  <2>3. BaseList = Entries(s, key)
    BY <2>1, BaseIsEntries
  <2> QED
    BY <2>2, <2>3 DEF Entries
<1>2. IInv /\ [Next]_vars => [Abstract!ListNext]_BaseList
  <2> SUFFICES ASSUME IInv, [Next]_vars PROVE Abstract!ListNext \/ UNCHANGED BaseList
    OBVIOUS
  <2>1. CASE Next
    BY <2>1, StepRefines DEF Next
  <2>2. CASE UNCHANGED vars
    <3>1. next' = next /\ key' = key
      BY <2>2 DEF vars, mem
    <3>2. Chain(0)' = Chain(0)
      <4>1. Chain(0) = ChainOf(next, 0) /\ Chain(0)' = ChainOf(next', 0)
        BY Zenon DEF Chain, ChainOf, Hop, HopOf
      <4> QED
        BY <3>1, <4>1
    <3> QED
      BY <3>1, <3>2, Zenon DEF BaseList
  <2> QED
    BY <2>1, <2>2
<1> QED
  BY <1>1, <1>2, SkipListInvariance, PTL DEF Spec, RefinesOrderedList, Abstract!ListSpec
=============================================================================

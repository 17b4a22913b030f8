------------------------------ MODULE SkipList ------------------------------
(***************************************************************************)
(* The lock-free skip list of crates/engine/src/memtable/skip_list.rs.     *)
(*                                                                         *)
(* Nodes are never removed.  An insertion searches the neighbours of its   *)
(* key on every level, links its node on level 0 with a compare-and-swap   *)
(* on the predecessor, then links the levels above one at a time; a failed *)
(* compare-and-swap searches again.  Readers walk the same pointers with   *)
(* no synchronisation.                                                     *)
(*                                                                         *)
(* Every load or compare-and-swap of a shared pointer or counter is one    *)
(* action.  Two things are folded into the access they belong to: the      *)
(* comparison with a key just reached (keys never change), and the store   *)
(* of a successor in the new node's own tower, which nobody can read until *)
(* the compare-and-swap that follows it.  Keys stand for what the          *)
(* comparator compares: numbers.  Values are left out.                     *)
(***************************************************************************)
EXTENDS Integers, Sequences, FiniteSets, SequencesExt

CONSTANTS
  Writers,        \* threads that insert
  Readers,        \* threads that search and iterate
  Keys,           \* keys, in the order of the comparator
  Bytes,          \* Bytes[k]: rank of k's encoding in the order of raw bytes
  Bounds,         \* end bounds that readers ask for
  MaxHeadHeight,  \* MAX_HEAD_HEIGHT
  ArenaNodes,     \* how many nodes the arena has room for
  MaxOps          \* bound: operations per thread

Threads == Writers \union Readers

(* An end bound [kind, key]; the key of "Unbounded" means nothing.          *)
BoundKinds == {"Unbounded", "Included", "Excluded"}

ASSUME KeyAssumption ==
  /\ Keys \subseteq Int /\ Keys # {}
  /\ Bytes \in [Keys -> Int]
  /\ Bounds \subseteq [kind : BoundKinds, key : Keys]

ASSUME SizeAssumption ==
  /\ MaxHeadHeight \in Nat \ {0}
  /\ ArenaNodes \in Nat
  /\ MaxOps \in Nat

ASSUME RoleAssumption == Writers \cap Readers = {}

Sentinel == 0
Null == -1
Nodes == 1 .. ArenaNodes
Levels == 0 .. MaxHeadHeight - 1

VARIABLES
  key, height, next,    \* the fields of a node; `next` is its tower
  allocated,            \* nodes the arena has handed out: 1 .. allocated
  entries, max_level,   \* the atomics of `Data`
  pc, op, ops,          \* where a thread is, what it runs, calls it has left
  ctx,                  \* its TraversalCtx, with the locals of `search`
  node, tall, at,       \* an inserter's node, its height, the level to link
  max_height,           \* local of generate_random_level
  item, bound, out,     \* an iterator: next node, end bound, nodes yielded
  links,                \* history: nodes in the order they were linked, by level
  since                 \* history: Len(links[0]) when the search began

mem  == <<key, height, next, allocated>>
data == <<entries, max_level>>
insv == <<node, tall, at, max_height>>
iter == <<item, bound, out>>
vars == <<mem, data, pc, op, ops, ctx, insv, iter, links, since>>

Blank(k) ==
  [key |-> k, level |-> 0, pred |-> Sentinel,
   preds |-> [l \in Levels |-> Sentinel], succs |-> [l \in Levels |-> Null]]

AnyKey == CHOOSE k \in Keys : TRUE

NoBound == [kind |-> "Unbounded", key |-> AnyKey]

-----------------------------------------------------------------------------
(* `SkipList::new`: the head has a full, empty tower.                       *)
Init ==
  /\ key = [n \in Nodes |-> AnyKey]
  /\ height = [n \in Nodes |-> 0]
  /\ next = [n \in Nodes \union {Sentinel} |-> [l \in Levels |-> Null]]
  /\ allocated = 0
  /\ entries = 0
  /\ max_level = 1
  /\ pc = [t \in Threads |-> "idle"]
  /\ op = [t \in Threads |-> "none"]
  /\ ops = [t \in Threads |-> MaxOps]
  /\ ctx = [t \in Threads |-> Blank(AnyKey)]
  /\ node = [t \in Threads |-> Null]
  /\ tall = [t \in Threads |-> 0]
  /\ at = [t \in Threads |-> 0]
  /\ max_height = [t \in Threads |-> 0]
  /\ item = [t \in Threads |-> Null]
  /\ bound = [t \in Threads |-> NoBound]
  /\ out = [t \in Threads |-> <<>>]
  /\ links = [l \in Levels |-> <<>>]
  /\ since = [t \in Threads |-> 0]

Goto(t, to) == pc' = [pc EXCEPT ![t] = to]

Start(t, what) ==
  /\ pc[t] = "idle"
  /\ ops[t] > 0
  /\ ops' = [ops EXCEPT ![t] = @ - 1]
  /\ op' = [op EXCEPT ![t] = what]

-----------------------------------------------------------------------------
(* `search`                                                                 *)

BeginSearch(t, k) ==
  /\ ctx' = [ctx EXCEPT ![t] = Blank(k)]
  /\ since' = [since EXCEPT ![t] = Len(links[0])]
  /\ Goto(t, "load_max")

(* The arm that assigns TraversalCtx.searched_node is commented out.        *)
SearchedNode(t) == Null

(* Who asked for the search: seek positions its iterator; insert has yet to *)
(* allocate its node, or has a node to link.  A node found under the key    *)
(* would end the call at once.                                              *)
AfterSearch(t) ==
  CASE t \in Readers                             -> "found"
    [] t \in Writers /\ SearchedNode(t) # Null   -> "return"
    [] t \in Writers /\ SearchedNode(t) = Null   ->
         IF node[t] = Null THEN "count" ELSE "link"

LoadMaxLevel(t) ==
  /\ pc[t] = "load_max"
  /\ ctx' = [ctx EXCEPT ![t].level = max_level]
  /\ Goto(t, "skip")
  /\ UNCHANGED <<mem, data, op, ops, insv, iter, links, since>>

(* A level the head does not reach into is skipped; below the last one the  *)
(* list is empty.                                                           *)
SkipLevel(t) ==
  /\ pc[t] = "skip"
  /\ next[Sentinel][ctx[t].level - 1] = Null
  /\ ctx' = [ctx EXCEPT ![t].level = @ - 1]
  /\ Goto(t, IF ctx[t].level = 1 THEN AfterSearch(t) ELSE "skip")
  /\ UNCHANGED <<mem, data, op, ops, insv, iter, links, since>>

(* Mutant: the walk starts behind the first node without looking at it.     *)
MutantEnterLevel(t) ==
  /\ pc[t] = "skip"
  /\ next[Sentinel][ctx[t].level - 1] # Null
  /\ ctx' = [ctx EXCEPT ![t].pred = next[Sentinel][ctx[t].level - 1]]
  /\ Goto(t, "walk")
  /\ UNCHANGED <<mem, data, op, ops, insv, iter, links, since>>

EnterLevel(t) ==
  /\ pc[t] = "skip"
  /\ next[Sentinel][ctx[t].level - 1] # Null
  /\ Goto(t, "walk")
  /\ UNCHANGED <<mem, data, op, ops, ctx, insv, iter, links, since>>

(* The comparator's Less, on the key of a node; the mutant walks past equal *)
(* keys as well.                                                            *)
MutantBefore(n, k) == key[n] <= k
Before(n, k) == key[n] < k

(* The node that `curr` is loaded with.                                     *)
Curr(t) == next[ctx[t].pred][ctx[t].level - 1]

Advance(t) ==
  /\ pc[t] = "walk"
  /\ Curr(t) # Null
  /\ Before(Curr(t), ctx[t].key)
  /\ ctx' = [ctx EXCEPT ![t].pred = Curr(t)]
  /\ UNCHANGED <<mem, data, pc, op, ops, insv, iter, links, since>>

(* Record the neighbours on this level and go down to the next.             *)
Descend(t) ==
  /\ pc[t] = "walk"
  /\ Curr(t) # Null => ~Before(Curr(t), ctx[t].key)
  /\ ctx' = [ctx EXCEPT ![t].preds[ctx[t].level - 1] = ctx[t].pred,
                        ![t].succs[ctx[t].level - 1] = Curr(t),
                        ![t].level = @ - 1]
  /\ Goto(t, IF ctx[t].level = 1 THEN AfterSearch(t) ELSE "walk")
  /\ UNCHANGED <<mem, data, op, ops, insv, iter, links, since>>

-----------------------------------------------------------------------------
(* `insert` and `insert_with`                                               *)

(* insert searches before it allocates,                                     *)
Insert(t) ==
  /\ t \in Writers
  /\ Start(t, "insert")
  /\ \E k \in Keys : BeginSearch(t, k)
  /\ UNCHANGED <<mem, data, insv, iter, links>>

(* insert_with allocates, lets a closure write the key, then searches.      *)
InsertWith(t) ==
  /\ t \in Writers
  /\ Start(t, "insert_with")
  /\ \E k \in Keys : ctx' = [ctx EXCEPT ![t] = Blank(k)]
  /\ Goto(t, "count")
  /\ UNCHANGED <<mem, data, insv, iter, links, since>>

CountEntry(t) ==
  /\ pc[t] = "count"
  /\ entries' = entries + 1
  /\ Goto(t, "draw")
  /\ UNCHANGED <<mem, max_level, op, ops, ctx, insv, iter, links, since>>

(* The loop of generate_random_level tests the address of a slot of the     *)
(* head's tower, never null, in place of the pointer in it: it always runs  *)
(* down to 3.                                                               *)
Trimmed(h) == IF h >= 4 THEN 3 ELSE h

(* The generator can yield any height.  Load max_level.                     *)
DrawHeight(t) ==
  /\ pc[t] = "draw"
  /\ \E h \in 1 .. MaxHeadHeight :
       /\ tall' = [tall EXCEPT ![t] = Trimmed(h)]
       /\ Goto(t, IF Trimmed(h) > max_level THEN "raise" ELSE "alloc")
  /\ max_height' = [max_height EXCEPT ![t] = max_level]
  /\ UNCHANGED <<mem, data, op, ops, ctx, node, at, iter, links, since>>

(* Mutant: a store in place of the compare-and-swap.                        *)
MutantRaiseMaxLevel(t) ==
  /\ pc[t] = "raise"
  /\ max_level' = tall[t]
  /\ Goto(t, "alloc")
  /\ UNCHANGED <<mem, entries, op, ops, ctx, insv, iter, links, since>>

RaiseMaxLevel(t) ==
  /\ pc[t] = "raise"
  /\ max_level = max_height[t]
  /\ max_level' = tall[t]
  /\ Goto(t, "alloc")
  /\ UNCHANGED <<mem, entries, op, ops, ctx, insv, iter, links, since>>

(* compare_exchange_weak fails, perhaps spuriously: look at the new value.  *)
RaiseFails(t) ==
  /\ pc[t] = "raise"
  /\ max_height' = [max_height EXCEPT ![t] = max_level]
  /\ Goto(t, IF tall[t] > max_level THEN "raise" ELSE "alloc")
  /\ UNCHANGED <<mem, data, op, ops, ctx, node, tall, at, iter,
                 links, since>>

(* Node::alloc, and the key and value written into the node.                *)
Alloc(t) ==
  /\ pc[t] = "alloc"
  /\ allocated < ArenaNodes
  /\ LET n == allocated + 1 IN
       /\ allocated' = n
       /\ key' = [key EXCEPT ![n] = ctx[t].key]
       /\ height' = [height EXCEPT ![n] = tall[t]]
       /\ node' = [node EXCEPT ![t] = n]
  /\ IF op[t] = "insert"
     THEN Goto(t, "link") /\ UNCHANGED <<ctx, since>>
     ELSE BeginSearch(t, ctx[t].key)
  /\ UNCHANGED <<next, data, op, ops, tall, at, max_height, iter, links>>

(* The arena is full: alloc_raw panics.                                     *)
AllocPanics(t) ==
  /\ pc[t] = "alloc"
  /\ allocated = ArenaNodes
  /\ Goto(t, "panicked")
  /\ UNCHANGED <<mem, data, op, ops, ctx, insv, iter, links, since>>

Pred(t) == ctx[t].preds[at[t]]
Succ(t) == ctx[t].succs[at[t]]

(* The new node's own tower, with the successor stored unless it is null.   *)
OwnTower(t) ==
  IF Succ(t) = Null THEN next[node[t]]
  ELSE [next[node[t]] EXCEPT ![at[t]] = Succ(t)]

(* Mutants: a store in place of the compare-and-swap; one level too many.   *)
MutantLinkBlind(t) ==
  /\ pc[t] = "link"
  /\ next' = [next EXCEPT ![node[t]] = OwnTower(t),
                          ![Pred(t)][at[t]] = node[t]]
  /\ links' = [links EXCEPT ![at[t]] = Append(@, node[t])]
  /\ at' = [at EXCEPT ![t] = @ + 1]
  /\ Goto(t, IF at[t] + 1 < tall[t] THEN "link" ELSE "return")
  /\ UNCHANGED <<key, height, allocated, data, op, ops, ctx, node, tall,
                 max_height, iter, since>>

MutantLinkTooHigh(t) ==
  /\ pc[t] = "link"
  /\ next[Pred(t)][at[t]] = Succ(t)
  /\ next' = [next EXCEPT ![node[t]] = OwnTower(t),
                          ![Pred(t)][at[t]] = node[t]]
  /\ links' = [links EXCEPT ![at[t]] = Append(@, node[t])]
  /\ at' = [at EXCEPT ![t] = @ + 1]
  /\ Goto(t, IF at[t] + 1 <= tall[t] THEN "link" ELSE "return")
  /\ UNCHANGED <<key, height, allocated, data, op, ops, ctx, node, tall,
                 max_height, iter, since>>

(* compare_exchange(succ, node_ptr) on the predecessor; after the last      *)
(* level the call returns.                                                  *)
LinkSucceeds(t) ==
  /\ pc[t] = "link"
  /\ next[Pred(t)][at[t]] = Succ(t)
  /\ next' = [next EXCEPT ![node[t]] = OwnTower(t),
                          ![Pred(t)][at[t]] = node[t]]
  /\ links' = [links EXCEPT ![at[t]] = Append(@, node[t])]
  /\ at' = [at EXCEPT ![t] = @ + 1]
  /\ Goto(t, IF at[t] + 1 < tall[t] THEN "link" ELSE "return")
  /\ UNCHANGED <<key, height, allocated, data, op, ops, ctx, node, tall,
                 max_height, iter, since>>

(* Mutants: a lost race above level 0 is given up; a retry without a new    *)
(* search.                                                                  *)
MutantLinkGivesUp(t) ==
  /\ pc[t] = "link"
  /\ next[Pred(t)][at[t]] # Succ(t)
  /\ next' = [next EXCEPT ![node[t]] = OwnTower(t)]
  /\ IF at[t] > 0
     THEN Goto(t, "return") /\ UNCHANGED <<ctx, since>>
     ELSE BeginSearch(t, ctx[t].key)
  /\ UNCHANGED <<key, height, allocated, data, op, ops, insv, iter, links>>

MutantLinkSpins(t) ==
  /\ pc[t] = "link"
  /\ next[Pred(t)][at[t]] # Succ(t)
  /\ next' = [next EXCEPT ![node[t]] = OwnTower(t)]
  /\ UNCHANGED <<key, height, allocated, data, pc, op, ops, ctx, insv, iter,
                 links, since>>

(* It fails: search again, then retry the same level.                       *)
LinkFails(t) ==
  /\ pc[t] = "link"
  /\ next[Pred(t)][at[t]] # Succ(t)
  /\ next' = [next EXCEPT ![node[t]] = OwnTower(t)]
  /\ BeginSearch(t, ctx[t].key)
  /\ UNCHANGED <<key, height, allocated, data, op, ops, insv, iter, links>>

(* The call returns its node; its locals die.                               *)
Return(t) ==
  /\ pc[t] = "return"
  /\ ctx' = [ctx EXCEPT ![t] = Blank(AnyKey)]
  /\ node' = [node EXCEPT ![t] = Null]
  /\ tall' = [tall EXCEPT ![t] = 0]
  /\ at' = [at EXCEPT ![t] = 0]
  /\ max_height' = [max_height EXCEPT ![t] = 0]
  /\ op' = [op EXCEPT ![t] = "none"]
  /\ since' = [since EXCEPT ![t] = 0]
  /\ Goto(t, "idle")
  /\ UNCHANGED <<mem, data, ops, iter, links>>

-----------------------------------------------------------------------------
(* `search_node`, `seek`, `iter`, `range` and the iterators                 *)

(* seek and a range with a start key: both kinds of start bound seek it.    *)
Seek(t) ==
  /\ t \in Readers
  /\ Start(t, "seek")
  /\ \E k \in Keys : BeginSearch(t, k)
  /\ \E b \in Bounds : bound' = [bound EXCEPT ![t] = b]
  /\ UNCHANGED <<mem, data, insv, item, out, links>>

Position(t) ==
  /\ pc[t] = "found"
  /\ item' = [item EXCEPT ![t] = ctx[t].succs[0]]
  /\ Goto(t, "scan")
  /\ UNCHANGED <<mem, data, op, ops, ctx, insv, bound, out, links, since>>

(* iter and a range without a start key load the first node.                *)
Iter(t) ==
  /\ t \in Readers
  /\ Start(t, "iter")
  /\ item' = [item EXCEPT ![t] = next[Sentinel][0]]
  /\ \E b \in Bounds : bound' = [bound EXCEPT ![t] = b]
  /\ since' = [since EXCEPT ![t] = Len(links[0])]
  /\ Goto(t, "scan")
  /\ UNCHANGED <<mem, data, ctx, insv, out, links>>

(* The end bound is compared with the raw bytes of the node's key.          *)
MutantPastEnd(b, k) == b.kind # "Unbounded" /\ Bytes[k] >= Bytes[b.key]

PastEnd(b, k) ==
  \/ b.kind = "Excluded" /\ Bytes[k] >= Bytes[b.key]
  \/ b.kind = "Included" /\ Bytes[k] > Bytes[b.key]

AtEnd(t) == item[t] # Null => PastEnd(bound[t], key[item[t]])

Yield(t) ==
  /\ pc[t] = "scan"
  /\ ~AtEnd(t)
  /\ out' = [out EXCEPT ![t] = Append(@, item[t])]
  /\ item' = [item EXCEPT ![t] = next[item[t]][0]]
  /\ UNCHANGED <<mem, data, pc, op, ops, ctx, insv, bound, links, since>>

EndScan(t) ==
  /\ pc[t] = "scan"
  /\ AtEnd(t)
  /\ item' = [item EXCEPT ![t] = Null]
  /\ bound' = [bound EXCEPT ![t] = NoBound]
  /\ out' = [out EXCEPT ![t] = <<>>]
  /\ ctx' = [ctx EXCEPT ![t] = Blank(AnyKey)]
  /\ op' = [op EXCEPT ![t] = "none"]
  /\ since' = [since EXCEPT ![t] = 0]
  /\ Goto(t, "idle")
  /\ UNCHANGED <<mem, data, ops, insv, links>>

-----------------------------------------------------------------------------
SearchStep(t) ==
  LoadMaxLevel(t) \/ SkipLevel(t) \/ EnterLevel(t) \/ Advance(t) \/ Descend(t)

InsertStep(t) ==
  \/ CountEntry(t) \/ DrawHeight(t) \/ RaiseMaxLevel(t) \/ RaiseFails(t)
  \/ Alloc(t) \/ AllocPanics(t) \/ LinkSucceeds(t) \/ LinkFails(t) \/ Return(t)

ScanStep(t) == Position(t) \/ Yield(t) \/ EndScan(t)

Step(t) == SearchStep(t) \/ InsertStep(t) \/ ScanStep(t)

Begin(t) == Insert(t) \/ InsertWith(t) \/ Seek(t) \/ Iter(t)

Next == \E t \in Threads : Begin(t) \/ Step(t)

Spec == Init /\ [][Next]_vars

(* A thread inside a call keeps running; a compare_exchange_weak does not   *)
(* fail spuriously for ever.  Nobody is obliged to make another call.       *)
Fairness ==
  \A t \in Threads : WF_vars(Step(t)) /\ SF_vars(RaiseMaxLevel(t))

FairSpec == Spec /\ Fairness

-----------------------------------------------------------------------------
PcValues ==
  {"idle", "load_max", "skip", "walk", "found", "count", "draw", "raise",
   "alloc", "link", "return", "scan", "panicked"}

NodeOrNull == Nodes \union {Null}

(* The type of every variable; in particular a thread never looks at a     *)
(* level outside the towers (the debug_assert!s of `next` and              *)
(* `node_at_tower_level`), nor links a node it does not have.              *)
TypeOK ==
  /\ key \in [Nodes -> Keys]
  /\ height \in [Nodes -> 0 .. MaxHeadHeight]
  /\ next \in [Nodes \union {Sentinel} -> [Levels -> NodeOrNull]]
  /\ allocated \in 0 .. ArenaNodes
  /\ entries \in Nat
  /\ max_level \in 1 .. MaxHeadHeight
  /\ pc \in [Threads -> PcValues]
  /\ op \in [Threads -> {"none", "insert", "insert_with", "seek", "iter"}]
  /\ ops \in [Threads -> 0 .. MaxOps]
  /\ ctx \in [Threads ->
               [key : Keys, level : 0 .. MaxHeadHeight,
                pred : Nodes \union {Sentinel},
                preds : [Levels -> Nodes \union {Sentinel}],
                succs : [Levels -> NodeOrNull]]]
  /\ node \in [Threads -> NodeOrNull]
  /\ tall \in [Threads -> 0 .. MaxHeadHeight]
  /\ at \in [Threads -> 0 .. MaxHeadHeight]
  /\ max_height \in [Threads -> 0 .. MaxHeadHeight]
  /\ item \in [Threads -> NodeOrNull]
  /\ bound \in [Threads -> [kind : BoundKinds, key : Keys]]
  /\ out \in [Threads -> Seq(Nodes)]
  /\ links \in [Levels -> Seq(Nodes)]
  /\ since \in [Threads -> Nat]
  /\ \A t \in Threads : pc[t] \in {"skip", "walk"} => ctx[t].level > 0
  /\ \A t \in Threads : pc[t] = "link" => node[t] # Null /\ at[t] < tall[t]

(* The nodes on level l, from the head on: Hop(l)[i] is the i-th of them.   *)
Hop(l) ==
  LET hop[i \in 0 .. ArenaNodes] ==
        IF i = 0 THEN Sentinel
        ELSE IF hop[i - 1] = Null THEN Null
        ELSE next[hop[i - 1]][l]
  IN  hop

Chain(l) ==
  LET hop == Hop(l)
      reached == {i \in 1 .. ArenaNodes : hop[i] # Null}
  IN  [i \in 1 .. Cardinality(reached) |-> hop[i]]

(* No insertion is ever lost or duplicated on any level, whichever         *)
(* compare-and-swaps raced: the nodes reached on a level are exactly those *)
(* linked there, once each and in the order of their keys.                 *)
LevelsIntact ==
  \A l \in Levels :
    LET chain == Chain(l) IN
      /\ Len(chain) = Len(links[l])
      /\ ToSet(chain) = ToSet(links[l])
      /\ \A i \in 1 .. Len(chain) - 1 : key[chain[i]] <= key[chain[i + 1]]

(* A node that no insertion is working on any more is linked on all levels *)
(* of its tower; and a node is linked on a level only after the level      *)
(* below, so that a search that meets it can always go down from it.       *)
FullyLinked ==
  \A n \in 1 .. allocated :
    /\ (\A t \in Writers : node[t] # n) =>
         \A l \in 0 .. height[n] - 1 : n \in ToSet(links[l])
    /\ \A l \in 1 .. MaxHeadHeight - 1 :
         n \in ToSet(links[l]) => n \in ToSet(links[l - 1])

(* max_level is raised before a taller node is linked and never falls      *)
(* back, so that no search starts below a level in use: the race of the    *)
(* compare_exchange_weak loop in generate_random_level.                    *)
MaxLevelCovers ==
  \A l \in Levels : next[Sentinel][l] # Null => l < max_level

(* The first node of the list whose key is not less than k.                *)
FirstGE(k) ==
  LET chain == Chain(0)
      ge == {i \in 1 .. Len(chain) : key[chain[i]] >= k}
  IN  IF ge = {} THEN Null ELSE chain[Min(ge)]

(* A search is linearizable although it loads pointers one by one while    *)
(* others insert: the node it returns is the first one not less than its   *)
(* key at the moment of its last load (what Memtable::get relies on).      *)
SearchIsExact ==
  [][\A t \in Threads :
       pc[t] \in {"skip", "walk"} /\ pc'[t] \in {"found", "count", "link"} =>
         ctx'[t].succs[0] = FirstGE(ctx[t].key)]_vars

InRange(t, n) ==
  /\ op[t] = "seek" => key[n] >= ctx[t].key
  /\ bound[t].kind = "Included" => key[n] <= bound[t].key
  /\ bound[t].kind = "Excluded" => key[n] < bound[t].key

(* An iterator yields nodes in the order of the comparator, none twice, and *)
(* every node of its range that was in the list when it was created,        *)
(* however many insertions happen around it.                                *)
ScanIsComplete ==
  \A t \in Readers :
    pc[t] = "scan" =>
      /\ \A i \in 1 .. Len(out[t]) - 1 : key[out[t][i]] <= key[out[t][i + 1]]
      /\ IsInjective(out[t])
      /\ AtEnd(t) =>
           \A i \in 1 .. since[t] :
             InRange(t, links[0][i]) => links[0][i] \in ToSet(out[t])

(* The list of nodes on level 0, as OrderedList has it: an insertion takes  *)
(* effect at the compare-and-swap on level 0 and nowhere else.              *)
BaseList ==
  LET chain == Chain(0)
  IN  [i \in 1 .. Len(chain) |-> [id |-> chain[i], key |-> key[chain[i]]]]

Smaller(a, b) == a < b

Abstract ==
  INSTANCE OrderedList WITH Ids <- Nodes, Less <- Smaller, list <- BaseList

RefinesOrderedList == Abstract!ListSpec

(* Every call comes back, or panics for want of memory: the retries of the *)
(* compare-and-swap loops end because every failure is another's success.  *)
CallsEnd ==
  \A t \in Threads : (pc[t] # "idle") ~> (pc[t] \in {"idle", "panicked"})

-----------------------------------------------------------------------------
(* What the comments and tests say of the code.                            *)

(* "the Comparator is global law for ordering": a range ends exactly where *)
(* the comparator puts its end bound.                                      *)
RangeEndsByComparator ==
  \A t \in Readers :
    pc[t] = "scan" /\ item[t] # Null /\ bound[t].kind # "Unbounded" =>
      (AtEnd(t) <=> \/ bound[t].kind = "Included" /\ key[item[t]] > bound[t].key
                    \/ bound[t].kind = "Excluded" /\ key[item[t]] >= bound[t].key)
=============================================================================

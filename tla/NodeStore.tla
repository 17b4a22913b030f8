------------------------------ MODULE NodeStore ------------------------------
(***************************************************************************)
(* The memory of skip-list nodes: the layout of Node in                    *)
(* crates/engine/src/memtable/skip_list.rs over the chunks of Arena.       *)
(*                                                                         *)
(* A node is one allocation: a header with the height and the lengths, a   *)
(* tower of pointers, the bytes of the key and the bytes of the value.     *)
(* Nothing but the header tells where the parts are.  Threads allocate and *)
(* write nodes while others do the same next to them.                      *)
(*                                                                         *)
(* The sizes of the header and of a pointer, and the range of the field    *)
(* key_len, are constants so that a chunk of a few bytes holds some nodes. *)
(* A byte of memory is known by what was written there last.               *)
(***************************************************************************)
EXTENDS Arena

CONSTANTS
  PtrSize,     \* of an AtomicPtr, and its alignment: 8 in the code
  HeaderSize,  \* height, key_len, value_len: 8 in the code, a multiple of it
  KeyRange,    \* values of the u16 key_len: 2^16 in the code
  Nodes        \* what is inserted: [height, key, value], two of them lengths

ASSUME NodeAssumption ==
  /\ PtrSize \in Nat \ {0}
  /\ HeaderSize \in Nat \ {0}
  /\ HeaderSize % PtrSize = 0
  /\ KeyRange \in Nat \ {0}
  /\ Nodes \subseteq [height : Nat \ {0}, key : Nat, value : Nat]

VARIABLES
  mem,      \* the bytes of every chunk
  written   \* history: the nodes written, [chunk, start, node]

nodeVars == <<vars, mem, written>>

Nowhere == [chunk |-> 0, start |-> 0]

(* insert: key.len() as u16.                                                *)
KeyLen(node) == node.key % KeyRange

(* Mutant: the value is forgotten.                                          *)
MutantBuildLayout(node) ==
  [size |-> HeaderSize + node.height * PtrSize + KeyLen(node), align |-> PtrSize]

(* build_layout: header, tower, key, value; only the tower needs alignment  *)
(* and the header leaves it aligned.                                        *)
BuildLayout(node) ==
  [size  |-> HeaderSize + node.height * PtrSize + KeyLen(node) + node.value,
   align |-> PtrSize]

-----------------------------------------------------------------------------
(* The parts of a node at `start`, found from its header as tower_ptr,      *)
(* key_ptr and value_ptr do.                                                *)
TowerPtr(start) == start + HeaderSize
KeyPtr(start, header) == TowerPtr(start) + header.height * PtrSize
ValuePtr(start, header) == KeyPtr(start, header) + header.key_len

(* A chunk comes from the allocator with bytes of its own (ones, or         *)
(* whatever was there).                                                     *)
Blank == [part |-> "blank", owner |-> Nowhere, at |-> 0]
NewChunk == [b \in 0 .. BlockSize - 1 |-> Blank]

HeaderOf(node) ==
  [height |-> node.height, key_len |-> KeyLen(node), value_len |-> node.value]

(* init_node writes the header and null pointers; insert copies the whole   *)
(* key, then the value.  Bytes beyond the chunk are not modelled.           *)
WrittenOver(bytes, start, node, owner) ==
  LET h == HeaderOf(node)
      key == KeyPtr(start, h)
      value == ValuePtr(start, h)
      Part(part, b, from) == [part |-> part, owner |-> owner, at |-> b - from]
  IN  [b \in DOMAIN bytes |->
         IF b \in value .. value + node.value - 1 THEN Part("value", b, value)
         ELSE IF b \in key .. key + node.key - 1 THEN Part("key", b, key)
         ELSE IF b \in TowerPtr(start) .. key - 1 THEN Part("tower", b, TowerPtr(start))
         ELSE IF b \in start .. TowerPtr(start) - 1 THEN Part("header", b, start)
         ELSE bytes[b]]

-----------------------------------------------------------------------------
StoreInit ==
  /\ Init
  /\ mem = <<NewChunk>>
  /\ written = {}

(* alloc_raw returns its region to Node::alloc, which writes the header and *)
(* the tower; then insert writes the key and the value.  Nobody else knows  *)
(* the node yet, so the writes are one step with the return.                *)
WriteNode(t) ==
  /\ Account(t)
  /\ call[t].entry = "alloc_raw"
  /\ \E node \in Nodes :
       LET at == [chunk |-> chunk[t], start |-> Aligned(seen[t], Layout(t))]
       IN  /\ BuildLayout(node) = Layout(t)
           /\ mem' = [mem EXCEPT ![at.chunk] = WrittenOver(@, at.start, node, at)]
           /\ written' = written \union
                {[chunk |-> at.chunk, start |-> at.start, node |-> node]}

(* A caller of alloc_raw_fallback gets the region and writes nothing.       *)
KeepBlank(t) ==
  /\ Account(t)
  /\ call[t].entry = "alloc_raw_fallback"
  /\ UNCHANGED <<mem, written>>

(* The chunk that PublishChunk adds.                                        *)
AddChunk(t) ==
  /\ PublishChunk(t)
  /\ mem' = Append(mem, NewChunk)
  /\ UNCHANGED written

ArenaStep(t) ==
  /\ \/ Call(t) \/ GetChunk(t) \/ LoadBump(t) \/ CasBump(t) \/ CasFails(t)
     \/ LockChunks(t) \/ RecheckFits(t) \/ RecheckFull(t) \/ RecheckGrows(t)
     \/ CountChunk(t) \/ ReturnErr(t)
  /\ UNCHANGED <<mem, written>>

StoreNext ==
  \E t \in Threads : ArenaStep(t) \/ WriteNode(t) \/ KeepBlank(t) \/ AddChunk(t)

StoreSpec == StoreInit /\ [][StoreNext]_nodeVars /\ Fairness

-----------------------------------------------------------------------------
(* The bytes from..to-1 of a chunk are the part of that owner, in order.    *)
Holds(c, from, to, part, owner) ==
  \A b \in from .. to - 1 :
    /\ b \in DOMAIN mem[c]
    /\ mem[c][b] = [part |-> part, owner |-> owner, at |-> b - from]

(* What the header, the tower, get_key_bytes and get_value_bytes of a node  *)
(* give is what its insert wrote there.                                     *)
Intact(w) ==
  LET owner == [chunk |-> w.chunk, start |-> w.start]
      h == HeaderOf(w.node)
      key == KeyPtr(w.start, h)
      value == ValuePtr(w.start, h)
  IN  /\ Holds(w.chunk, w.start, TowerPtr(w.start), "header", owner)
      /\ TowerPtr(w.start) % PtrSize = 0
      /\ Holds(w.chunk, TowerPtr(w.start), key, "tower", owner)
      /\ Holds(w.chunk, key, value, "key", owner)
      /\ Holds(w.chunk, value, value + w.node.value, "value", owner)

(* Whatever other threads allocate and write around it, a node stays        *)
(* intact, unless a node below it in its chunk has a key of 2^16 bytes or   *)
(* more: such a key is copied whole into room for its length modulo 2^16.   *)
NodesIntact ==
  \A w \in written :
    \/ Intact(w)
    \/ \E v \in written :
         v.chunk = w.chunk /\ v.start < w.start /\ v.node.key >= KeyRange
=============================================================================

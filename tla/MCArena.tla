------------------------------ MODULE MCArena ------------------------------
(* An instance of NodeStore, and of the Arena in it, for TLC. *)
EXTENDS NodeStore

(* With pointers of two bytes: a node of seven bytes, which leaves the bump *)
(* offset odd; one whose key has more bytes than key_len can count; and one *)
(* that exceeds a chunk of fifteen bytes by a single byte.                  *)
MCNodes ==
  {[height |-> 1, key |-> 2, value |-> 1],
   [height |-> 1, key |-> 6, value |-> 1],
   [height |-> 5, key |-> 2, value |-> 2]}

MCLayouts == {BuildLayout(node) : node \in Nodes}
=============================================================================

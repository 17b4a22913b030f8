----------------------------- MODULE MCSkipList -----------------------------
(* Instances of SkipList for TLC. *)
EXTENDS SkipList

(* Plain keys under the ByteWiseComparator: raw bytes and comparator agree. *)
MCBytes == [k \in Keys |-> k]

(* Internal keys of one user key: the comparator puts the highest sequence *)
(* number first, raw bytes put it last.                                    *)
MCInternalBytes == [k \in Keys |-> -k]

MCBounds ==
  {[kind |-> "Unbounded", key |-> 1], [kind |-> "Included", key |-> 1],
   [kind |-> "Excluded", key |-> 2]}
MCIncluded == {[kind |-> "Included", key |-> 2]}
MCUnbounded == {[kind |-> "Unbounded", key |-> 1]}
=============================================================================

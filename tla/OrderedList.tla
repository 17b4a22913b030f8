---------------------------- MODULE OrderedList ----------------------------
(***************************************************************************)
(* What a memtable's list promises, without towers or pointers: a list of  *)
(* entries that only grows, sorted by key, in which an entry goes in front *)
(* of the entries that already have its key.  An insertion is one atomic   *)
(* step.                                                                   *)
(***************************************************************************)
EXTENDS Integers, Sequences, FiniteSets, SequencesExt

CONSTANTS
  Ids,          \* identities of entries (addresses of nodes)
  Keys,         \* keys
  Less(_, _)    \* the comparator: whether one key is smaller than another

VARIABLE list   \* the entries [id, key] in order

ListInit == list = <<>>

(* The entries smaller than k come before the new one, all others after it. *)
Insert(id, k) ==
  LET smaller == {i \in 1 .. Len(list) : Less(list[i].key, k)}
  IN  list' = InsertAt(list, Cardinality(smaller) + 1, [id |-> id, key |-> k])

ListNext ==
  \E id \in Ids, k \in Keys :
    /\ \A i \in DOMAIN list : list[i].id # id
    /\ Insert(id, k)

ListSpec == ListInit /\ [][ListNext]_list
=============================================================================

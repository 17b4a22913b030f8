------------------------------ MODULE Memtable ------------------------------
(***************************************************************************)
(* The memtable of crates/engine/src/memtable/memtable.rs over its list,   *)
(* with the internal keys and the comparator of crates/engine/src/key/.    *)
(*                                                                         *)
(* The list is OrderedList, which SkipList implements: an insertion, a     *)
(* search and a load of a successor are one step each.  Users' keys are    *)
(* numbers in the order of their bytes.  Values are left out: an entry is  *)
(* known by its identity, and a read returns that identity.                *)
(***************************************************************************)
EXTENDS Integers, Sequences, FiniteSets, SequencesExt

CONSTANTS
  UserKeys,     \* keys of the user, in the order of their bytes
  SeqNos,       \* sequence numbers, of writes and of snapshots
  SeqRange,     \* sequence numbers are below it: 2^56 in the code
  MaxEntries,   \* bound: entries ever inserted
  Readers,      \* iterators
  MaxSeeks      \* bound: positionings per iterator

ASSUME KeyAssumption == UserKeys \subseteq Nat

(* pack_trailer: debug_assert!(seq_no < (1 << 56)).                         *)
ASSUME SeqAssumption ==
  /\ SeqRange \in Nat \ {0}
  /\ SeqNos \subseteq 0 .. SeqRange - 1

(* A trailer has eight bits more: 2^64 in the code.                         *)
TrailerRange == 256 * SeqRange

ASSUME BoundAssumption == MaxEntries \in Nat /\ MaxSeeks \in Nat

Ids == 1 .. MaxEntries
Null == 0

VARIABLES
  list,     \* the entries [id, key] in the order of the list
  writes,   \* history: what was inserted, in the order of the insertions
  current,  \* the node an iterator is at
  seeks,    \* positionings an iterator has left
  target,   \* history: [user, seq] an iterator was positioned at
  known,    \* history: Len(writes) at that moment
  passed    \* history: the nodes an iterator was at since then

table == <<list, writes>>
vars == <<list, writes, current, seeks, target, known, passed>>

-----------------------------------------------------------------------------
(* Internal keys                                                            *)

(* OperationType; Max is only used in keys to look for.                     *)
Code == [Put |-> 1, Delete |-> 2, Merge |-> 3, Max |-> 255]
WriteOps == {"Put", "Delete", "Merge"}

(* Mutant: the sequence number leaves the width of the trailer.             *)
MutantShift(seq_no, op) == seq_no * TrailerRange + Code[op]

(* (seq_no << 8) | op; to_be_bytes keeps the order of the numbers.          *)
PackTrailer(seq_no, op) == ((seq_no * 256) % TrailerRange) + Code[op]

(* trailer & 0xff, and the operation it is the code of.                     *)
OpOf(trailer) == CHOOSE op \in DOMAIN Code : Code[op] = trailer % 256

(* encode_into, LookUpKey::new and insert_direct: user key, then trailer.   *)
Encode(user_key, seq_no, op) ==
  [user |-> user_key, trailer |-> PackTrailer(seq_no, op)]

InternalKeys == [user : UserKeys, trailer : 0 .. TrailerRange - 1]

(* Mutant: older versions first.                                            *)
MutantKeyLess(a, b) ==
  a.user < b.user \/ (a.user = b.user /\ a.trailer < b.trailer)

(* InternalKeyComparator: by user key, newer versions first.                *)
KeyLess(a, b) ==
  a.user < b.user \/ (a.user = b.user /\ a.trailer > b.trailer)

List == INSTANCE OrderedList WITH Keys <- InternalKeys, Less <- KeyLess

-----------------------------------------------------------------------------
NoTarget == [user |-> -1, seq |-> 0]

Init ==
  /\ List!ListInit
  /\ writes = <<>>
  /\ current = [r \in Readers |-> Null]
  /\ seeks = [r \in Readers |-> MaxSeeks]
  /\ target = [r \in Readers |-> NoTarget]
  /\ known = [r \in Readers |-> 0]
  /\ passed = [r \in Readers |-> <<>>]

(* `insert` with a key encoded by the caller, and `insert_direct`, which    *)
(* encodes it in the node.                                                  *)
Insert(user_key, seq_no, op) ==
  /\ Len(writes) < MaxEntries
  /\ List!Insert(Len(writes) + 1, Encode(user_key, seq_no, op))
  /\ writes' = Append(writes, [user |-> user_key, seq |-> seq_no, op |-> op])
  /\ UNCHANGED <<current, seeks, target, known, passed>>

-----------------------------------------------------------------------------
(* Reads                                                                    *)

(* `first_ge`: the place of the node search leaves in successors[0]; 0 is   *)
(* none.                                                                    *)
FirstGE(k) ==
  LET ge == {i \in 1 .. Len(list) : ~KeyLess(list[i].key, k)}
  IN  IF ge = {} THEN 0 ELSE Min(ge)

NodeAt(i) == IF i \in 1 .. Len(list) THEN list[i].id ELSE Null

(* The key that readers look for: OperationType::Max puts it in front of    *)
(* every version of the sequence number.                                    *)
Lookup(user_key, seq_no) == Encode(user_key, seq_no, "Max")

NotFound == [kind |-> "NotFound", id |-> Null]

MemReturnOf(e) ==
  [kind |-> CASE OpOf(e.key.trailer) = "Put"    -> "Value"
              [] OpOf(e.key.trailer) = "Delete" -> "Deleted"
              [] OpOf(e.key.trailer) = "Merge"  -> "Merge",
   id   |-> e.id]

(* `get`; the mutant does not test the user key.                            *)
MutantGet(k) ==
  LET i == FirstGE(k)
  IN  IF i = 0 THEN NotFound ELSE MemReturnOf(list[i])

Get(k) ==
  LET i == FirstGE(k)
  IN  IF i = 0 THEN NotFound
      ELSE IF list[i].key.user # k.user THEN NotFound
      ELSE MemReturnOf(list[i])

-----------------------------------------------------------------------------
(* MemtableIterator                                                         *)

Arrive(r, n) ==
  /\ current' = [current EXCEPT ![r] = n]
  /\ passed' = [passed EXCEPT ![r] = IF n = Null THEN <<>> ELSE <<n>>]
  /\ known' = [known EXCEPT ![r] = Len(writes)]
  /\ seeks[r] > 0
  /\ seeks' = [seeks EXCEPT ![r] = @ - 1]
  /\ UNCHANGED table

SeekToFirst(r) ==
  /\ Arrive(r, NodeAt(1))
  /\ target' = [target EXCEPT ![r] = NoTarget]

Seek(r, user_key, seq_no) ==
  /\ Arrive(r, NodeAt(FirstGE(Lookup(user_key, seq_no))))
  /\ target' = [target EXCEPT ![r] = [user |-> user_key, seq |-> seq_no]]

IndexOf(n) == CHOOSE i \in DOMAIN list : list[i].id = n

(* Level 0 of the node's tower.                                             *)
Successor(n) == NodeAt(IndexOf(n) + 1)

(* Mutant: the iterator goes on from its target instead of from its node.   *)
MutantNextItem(r) ==
  /\ current[r] # Null
  /\ LET n == NodeAt(FirstGE([list[IndexOf(current[r])].key EXCEPT !.trailer = 0]))
     IN  /\ current' = [current EXCEPT ![r] = n]
         /\ passed' = [passed EXCEPT ![r] = IF n = Null THEN @ ELSE Append(@, n)]
  /\ UNCHANGED <<table, seeks, target, known>>

(* `next`; it leaves an iterator that is not valid alone.                   *)
NextItem(r) ==
  /\ current[r] # Null
  /\ LET n == Successor(current[r])
     IN  /\ current' = [current EXCEPT ![r] = n]
         /\ passed' = [passed EXCEPT ![r] = IF n = Null THEN @ ELSE Append(@, n)]
  /\ UNCHANGED <<table, seeks, target, known>>

-----------------------------------------------------------------------------
Next ==
  \/ \E u \in UserKeys, s \in SeqNos, op \in WriteOps : Insert(u, s, op)
  \/ \E r \in Readers :
       \/ SeekToFirst(r)
       \/ \E u \in UserKeys, s \in SeqNos : Seek(r, u, s)
       \/ NextItem(r)

Spec == Init /\ [][Next]_vars

-----------------------------------------------------------------------------
(* The type of every variable.                                              *)
TypeOK ==
  /\ list \in Seq([id : Ids, key : InternalKeys])
  /\ writes \in Seq([user : UserKeys, seq : SeqNos, op : WriteOps])
  /\ current \in [Readers -> Ids \union {Null}]
  /\ seeks \in [Readers -> 0 .. MaxSeeks]
  /\ target \in [Readers -> {NoTarget} \union [user : UserKeys, seq : SeqNos]]
  /\ known \in [Readers -> 0 .. MaxEntries]
  /\ passed \in [Readers -> Seq(Ids)]

(* Write i is newer than write j: by sequence number; for equal ones by the *)
(* code of the operation, then by the order of the insertions.              *)
Newer(i, j) ==
  LET a == writes[i]
      b == writes[j]
  IN  \/ a.seq > b.seq
      \/ a.seq = b.seq /\ Code[a.op] > Code[b.op]
      \/ a.seq = b.seq /\ a.op = b.op /\ i > j

(* What a read of u in the snapshot s has to return, by the writes alone.   *)
Expected(u, s) ==
  LET visible == {i \in DOMAIN writes : writes[i].user = u /\ writes[i].seq <= s}
      newest  == CHOOSE i \in visible : \A j \in visible \ {i} : Newer(i, j)
  IN  IF visible = {} THEN NotFound
      ELSE [kind |-> CASE writes[newest].op = "Put"    -> "Value"
                       [] writes[newest].op = "Delete" -> "Deleted"
                       [] writes[newest].op = "Merge"  -> "Merge",
            id   |-> newest]

(* `get` returns the newest version visible in its snapshot, in whatever    *)
(* order the writes of different sequence numbers reached the list, and     *)
(* never a version of another key.                                          *)
GetIsSnapshotRead ==
  \A u \in UserKeys, s \in SeqNos : Get(Lookup(u, s)) = Expected(u, s)

(* Reads are repeatable: an insertion with a sequence number above a        *)
(* snapshot changes no read in that snapshot.                               *)
ReadsAreRepeatable ==
  [][\A u \in UserKeys, s \in SeqNos :
       (writes' # writes /\ Last(writes').seq > s) =>
         Get(Lookup(u, s))' = Get(Lookup(u, s))]_vars

(* Write n lies behind the target of iterator r.                            *)
BehindTarget(r, n) ==
  LET w == writes[n]
  IN  w.user > target[r].user
      \/ (w.user = target[r].user /\ w.seq <= target[r].seq)

(* In the order of an iteration: by user key, and newer versions first.     *)
Precedes(i, j) ==
  \/ writes[i].user < writes[j].user
  \/ writes[i].user = writes[j].user /\ Newer(i, j)

(* Iterator r has gone past the place of write n.                           *)
Overtaken(r, n) == current[r] # Null => Precedes(n, current[r])

(* An iterator, however many insertions happen around it, goes forward only *)
(* (each user key's versions come newest first), starts at its target, and  *)
(* has passed every entry that was there when it was positioned and lies    *)
(* before the node it is at; at the end, all of them.                       *)
IterationIsComplete ==
  \A r \in Readers :
    LET seen == passed[r] IN
      /\ \A i \in 1 .. Len(seen) - 1 : Precedes(seen[i], seen[i + 1])
      /\ \A i \in DOMAIN seen : BehindTarget(r, seen[i])
      /\ \A n \in 1 .. known[r] :
           BehindTarget(r, n) /\ Overtaken(r, n) => n \in ToSet(seen)
=============================================================================

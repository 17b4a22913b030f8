----------------------------- MODULE WriteBatch -----------------------------
(***************************************************************************)
(* The batch of crates/engine/src/db/write_batch.rs and the variable-length*)
(* integers of crates/engine/src/utils/var_int.rs.                         *)
(*                                                                         *)
(* A batch is one buffer: a header with a sequence number and the number   *)
(* of operations, then the operations one after the other.  Nothing but    *)
(* the lengths written before a key and a value tells where an operation   *)
(* ends, so a wrong length loses everything behind it.                     *)
(*                                                                         *)
(* The buffer is a sequence of cells: a byte is a number, the bytes of a   *)
(* key or a value are one cell that knows its length.  A byte has Radix    *)
(* values (256 in the code), so that carries and the longest VarInt are    *)
(* within reach of small numbers.                                          *)
(***************************************************************************)
EXTENDS Integers, Sequences

CONSTANTS
  Radix,        \* values of a byte: 256 in the code
  KeyLens,      \* lengths of keys
  ValueLens,    \* lengths of values
  Caps,         \* capacities given to new_with_capacity
  MaxBatchSize, \* MAX_BATCH_SIZE
  MaxPuts       \* bound: puts into a batch

ASSUME RadixAssumption == Radix \in Nat /\ Radix > 2 /\ Radix % 2 = 0
ASSUME LengthAssumption == KeyLens \subseteq Nat /\ ValueLens \subseteq Nat
ASSUME BoundAssumption ==
  MaxPuts \in Nat /\ Caps \subseteq Nat /\ MaxBatchSize \in Nat

(* MSB and the range of a u32.                                              *)
Msb == Radix \div 2
U32 == Radix * Radix * Radix * Radix

(* BATCH_COUNT_OFFSET and HEADER_SIZE.                                      *)
BatchCountOffset == 8
HeaderSize == BatchCountOffset + 4

(* BatchOpType::Put.into()                                                  *)
PutOp == 1

VARIABLES
  data,      \* the buffer
  puts,      \* history: the puts that returned, [key, value]
  panicked   \* an assertion or an index failed

vars == <<data, puts, panicked>>

Byte(v) == [what |-> "byte", byte |-> v, len |-> 1]
Payload(what, len) == [what |-> what, byte |-> 0, len |-> len]

(* extend_from_slice of a key or a value; an empty one adds nothing.        *)
Bytes(what, len) == IF len = 0 THEN <<>> ELSE <<Payload(what, len)>>

Zeroes(n) == [k \in 1 .. n |-> Byte(0)]

-----------------------------------------------------------------------------
(* VarInt                                                                   *)

(* VarInt::new: groups of the low bits, a set MSB says that more follow.    *)
VarInt[v \in Nat] ==
  IF v < Msb THEN <<v>> ELSE <<(v % Msb) + Msb>> \o VarInt[v \div Msb]

(* It writes them to an array of four: a fifth group is out of bounds.      *)
VarIntFits(v) == Len(VarInt[v]) <= 4

(* VarInt::decode reads up to and with the first byte whose MSB is clear.   *)
BytesRead(bytes) ==
  LET ends == {k \in 1 .. Len(bytes) : bytes[k] < Msb}
  IN  IF ends = {} THEN Len(bytes)
      ELSE CHOOSE k \in ends : \A j \in ends : k <= j

(* Mutant: the MSB is not masked.                                           *)
MutantGroups(bytes, read) ==
  LET from[k \in 1 .. read + 1] ==
        IF k > read THEN 0 ELSE bytes[k] + Msb * from[k + 1]
  IN  from

(* What the groups of the bytes k, k + 1 .. read stand for, the low one     *)
(* first: each is masked and shifted by its place.                          *)
Groups(bytes, read) ==
  LET from[k \in 1 .. read + 1] ==
        IF k > read THEN 0 ELSE (bytes[k] % Msb) + Msb * from[k + 1]
  IN  from

(* The result is a u32.                                                     *)
Decode(bytes) ==
  LET read == BytesRead(bytes)
  IN  [value |-> Groups(bytes, read)[1] % U32, read |-> read]

-----------------------------------------------------------------------------
(* The header                                                               *)

(* read_u32_le_unsafe at BATCH_COUNT_OFFSET: batch_count.                   *)
BatchCount(buffer) ==
  LET b(k) == buffer[BatchCountOffset + k].byte
  IN  b(1) + Radix * (b(2) + Radix * (b(3) + Radix * b(4)))

(* to_le_bytes of a u32.                                                    *)
LittleEndian(n) ==
  LET n1 == n \div Radix
      n2 == n1 \div Radix
      n3 == n2 \div Radix
  IN  <<n % Radix, n1 % Radix, n2 % Radix, n3 % Radix>>

(* write_u32_le_unsafe of a count.                                          *)
WithCount(buffer, n) ==
  [k \in DOMAIN buffer |->
     IF k \in BatchCountOffset + 1 .. HeaderSize
     THEN Byte(LittleEndian(n)[k - BatchCountOffset])
     ELSE buffer[k]]

-----------------------------------------------------------------------------
(* Mutant: new_with_capacity leaves the header out.                         *)
MutantInit ==
  /\ puts = <<>>
  /\ panicked = FALSE
  /\ data \in {<<>>, Zeroes(HeaderSize)}

(* Batch::new and new_with_capacity, which panics beyond MAX_BATCH_SIZE     *)
(* (after that there is no batch).                                          *)
Init ==
  /\ puts = <<>>
  /\ \/ panicked = FALSE /\ data = Zeroes(HeaderSize)
     \/ \E cap \in Caps :
          /\ panicked = (cap > MaxBatchSize)
          /\ data = IF cap > MaxBatchSize THEN <<>> ELSE Zeroes(HeaderSize)

LengthBytes(v) == [k \in 1 .. Len(VarInt[v]) |-> Byte(VarInt[v][k])]

(* What put_bytes has appended when it gets to the length of the value:     *)
(* the operation, column family 0, the key.                                 *)
OpHead == <<Byte(PutOp)>> \o Zeroes(4)
KeyPart(klen) == OpHead \o LengthBytes(klen % U32) \o Bytes("key", klen)

(* Mutant: the length of the value is left out if there is none.            *)
MutantRecord(klen, vlen) ==
  KeyPart(klen) \o
  (IF vlen = 0 THEN <<>> ELSE LengthBytes(vlen % U32) \o Bytes("value", vlen))

Record(klen, vlen) ==
  KeyPart(klen) \o LengthBytes(vlen % U32) \o Bytes("value", vlen)

(* put and put_bytes: append the operation, then count it.                  *)
Put(klen, vlen) ==
  /\ ~panicked
  /\ Len(puts) < MaxPuts
  /\ VarIntFits(klen % U32) /\ VarIntFits(vlen % U32)
  /\ data' = WithCount(data \o Record(klen, vlen), BatchCount(data) + 1)
  /\ puts' = Append(puts, [key |-> klen, value |-> vlen])
  /\ UNCHANGED panicked

(* A key or a value whose length needs a fifth group: put_bytes panics      *)
(* where it encodes that length, the operation half written and uncounted.  *)
PutPanics(klen, vlen) ==
  /\ ~panicked
  /\ Len(puts) < MaxPuts
  /\ \/ ~VarIntFits(klen % U32) /\ data' = data \o OpHead
     \/ /\ VarIntFits(klen % U32) /\ ~VarIntFits(vlen % U32)
        /\ data' = data \o KeyPart(klen)
  /\ panicked' = TRUE
  /\ UNCHANGED puts

Next ==
  \E klen \in KeyLens, vlen \in ValueLens : Put(klen, vlen) \/ PutPanics(klen, vlen)

Spec == Init /\ [][Next]_vars

-----------------------------------------------------------------------------
(* The buffer holds cells; the header is there unless new_with_capacity     *)
(* panicked.                                                                *)
TypeOK ==
  /\ data \in Seq([what : {"byte", "key", "value"}, byte : 0 .. Radix - 1,
                   len : Nat \ {0}])
  /\ puts \in Seq([key : KeyLens, value : ValueLens])
  /\ panicked \in BOOLEAN
  /\ data = <<>> \/ Len(data) >= HeaderSize
  /\ data = <<>> => panicked

(* A reader of the buffer as the WAL will have to be ("batches can form the *)
(* records of the WAL without any additional changes"): from a position, the*)
(* operation there and the position behind it.  A position that does not    *)
(* start an operation, or a length that is not the length of what follows,  *)
(* is Garbled.                                                              *)
Garbled == [pos |-> 0, key |-> 0, value |-> 0]

ByteRun(pos) ==
  LET last == CHOOSE k \in pos - 1 .. Len(data) :
                /\ \A j \in pos .. k : data[j].what = "byte"
                /\ k = Len(data) \/ data[k + 1].what # "byte"
  IN  [k \in 1 .. last - pos + 1 |-> data[pos + k - 1].byte]

ReadPayload(pos, what) ==
  LET length == Decode(ByteRun(pos))
      after == pos + length.read
  IN  IF length.read = 0 THEN Garbled
      ELSE IF length.value = 0 THEN [Garbled EXCEPT !.pos = after]
      ELSE IF after <= Len(data) /\ data[after] = Payload(what, length.value)
           THEN [Garbled EXCEPT !.pos = after + 1, ![what] = length.value]
      ELSE Garbled

ReadOp(pos) ==
  IF SubSeq(data, pos, pos + 4) # OpHead THEN Garbled
  ELSE LET k == ReadPayload(pos + 5, "key")
           v == ReadPayload(k.pos, "value")
       IN  IF k = Garbled \/ v = Garbled THEN Garbled ELSE [v EXCEPT !.key = k.key]

(* The operations that `count` announces, read from the buffer alone.       *)
ReadAll ==
  LET op[n \in 0 .. Len(puts)] ==
        IF n = 0 THEN [Garbled EXCEPT !.pos = HeaderSize + 1]
        ELSE IF op[n - 1] = Garbled THEN Garbled ELSE ReadOp(op[n - 1].pos)
  IN  op

Cut(put) == put.key >= U32 \/ put.value >= U32

(* The buffer alone gives back every put, in order, and as many as the      *)
(* count says, with nothing left over but the beginning of a put that       *)
(* panicked - unless a key or value was so long that `as u32` cut its       *)
(* length.                                                                  *)
SelfDelimiting ==
  (data # <<>> /\ \A n \in 1 .. Len(puts) : ~Cut(puts[n])) =>
    /\ BatchCount(data) = Len(puts)
    /\ \A n \in 1 .. Len(puts) :
         ReadAll[n].key = puts[n].key /\ ReadAll[n].value = puts[n].value
    /\ ReadAll[Len(puts)].pos = Len(data) + 1 \/ panicked

(* The lengths that one, two, three and four groups have room for.          *)
Room == <<Msb, Msb * Msb, Msb * Msb * Msb, Msb * Msb * Msb * Msb>>

(* decode gives back what new encoded, whichever byte of the batch follows, *)
(* for every length that put_bytes can encode, and no encoding is longer    *)
(* than it has to be.                                                       *)
VarIntRoundTrip ==
  \A v \in 0 .. Room[4] - 1 :
    /\ \A next \in {data[k].byte : k \in 1 .. Len(data)} :
         Decode(Append(VarInt[v], next)) =
           [value |-> v, read |-> Len(VarInt[v])]
    /\ \A g \in 1 .. 4 : v < Room[g] => Len(VarInt[v]) <= g
=============================================================================

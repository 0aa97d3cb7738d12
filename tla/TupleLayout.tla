----------------------------- MODULE TupleLayout -----------------------------
(***************************************************************************)
(* Where the fields of a tuple are in a buffer.  A deserializer of the     *)
(* server (deserializeCSV, deserializePG, deserializePQ) writes them, a    *)
(* sink of the client (CsvSink::serialize) reads them; each computes the   *)
(* addresses for itself, by rows (intermediate format 1) or by columns     *)
(* (format 2).                                                             *)
(*                                                                         *)
(* An attribute is a record with its type (the first letter of tpe) and    *)
(* the size its schema declares.  A buffer is a function from byte         *)
(* addresses to bytes; the k-th byte of field j of tuple i is the triple   *)
(* <<i, j, k>>, and 0 is the zero byte.                                    *)
(***************************************************************************)
EXTENDS Integers, Sequences, SequencesExt

Zero == <<0, 0, 0>>

\* sizes[i] and columnSizes[i]: the size a type has in memory.
TypeSize(a) == CASE a.tpe = "I" -> 4 [] a.tpe = "D" -> 8 [] a.tpe = "C" -> 1 [] OTHER -> a.size

\* bytesInTuple before attribute j, from the sizes the schema declares.
BytesBefore(schema, j) == FoldLeft(LAMBDA n, a : n + a.size, 0, SubSeq(schema, 1, j - 1))

\* columnOffsets[j], from the sizes of the types.
ColumnOffset(schema, j) == FoldLeft(LAMBDA n, a : n + TypeSize(a), 0, SubSeq(schema, 1, j - 1))

TupleSize(schema) == BytesBefore(schema, Len(schema) + 1)

\* totalRowSize of the sink.
TotalRowSize(schema) == ColumnOffset(schema, Len(schema) + 1)

TuplesPerBuffer(bytes, schema) == bytes \div TupleSize(schema)

-----------------------------------------------------------------------------
\* Element i of array j of an Arrow batch; the arrays are far apart.
ArrayAddress(schema, i, j) == 1000 * j + i * TypeSize(schema[j])

\* Mutant of WriteAddress: columns are as long as there are tuples so far.
WriteAddressPacked(source, iformat, schema, tpb, i, j) ==
  IF iformat = 1 THEN i * TupleSize(schema) + BytesBefore(schema, j)
                 ELSE BytesBefore(schema, j) * (i + 1) + i * TypeSize(schema[j])

\* Where a deserializer writes field j of tuple i.  An Arrow batch (format 3)
\* holds one array per column, with elements of the size of the type.
WriteAddress(source, iformat, schema, tpb, i, j) ==
  LET a == schema[j]
      before == IF source = "parquet" THEN ColumnOffset(schema, j) ELSE BytesBefore(schema, j)
  IN CASE iformat = 1 -> i * TupleSize(schema) + before
       [] iformat = 2 -> before * tpb + i * (IF source = "csv" THEN TypeSize(a) ELSE a.size)
       [] OTHER -> ArrayAddress(schema, i, j)

\* Where the sink reads field j of tuple i.
ReadAddress(iformat, schema, tpb, i, j) ==
  CASE iformat = 1 -> i * TotalRowSize(schema) + ColumnOffset(schema, j)
    [] iformat = 2 -> tpb * ColumnOffset(schema, j) + i * TypeSize(schema[j])
    [] OTHER -> ArrayAddress(schema, i, j)

-----------------------------------------------------------------------------
\* A byte nobody has written.
Junk == <<0, 0, 1>>

\* deserialize_arrow appends a value, or a std::string to an array of fixed width:
\* Arrow copies that many bytes from it, its terminator and what lies behind it
\* included.
ArrowBytes(a, len, i, j) ==
  [k \in 1..TypeSize(a) |->
     IF a.tpe # "S" \/ k <= len THEN <<i, j, k>> ELSE IF k = len + 1 THEN Zero ELSE Junk]

\* deserialize<int>, <double> and <char> write the value, deserialize<const char*>
\* (and deserializePQ itself) clears the field and then copies all len characters
\* of the string, be they more than the field has.
FieldBytes(a, len, i, j) ==
  IF a.tpe # "S" THEN [k \in 1..TypeSize(a) |-> <<i, j, k>>]
  ELSE [k \in 1..(IF len > a.size THEN len ELSE a.size) |-> IF k <= len THEN <<i, j, k>> ELSE Zero]

\* A memcpy to the address at.
CopyTo(mem, at, bytes) ==
  [x \in DOMAIN mem \cup at..(at + Len(bytes) - 1) |->
     IF x \in at..(at + Len(bytes) - 1) THEN bytes[x - at + 1] ELSE mem[x]]

\* Tuple i, its fields in the order of the schema; lens[j] is the length of field j.
WriteTuple(source, iformat, schema, tpb, mem, i, lens) ==
  FoldLeft(LAMBDA m, j : CopyTo(m, WriteAddress(source, iformat, schema, tpb, i, j),
                                IF iformat = 3 THEN ArrowBytes(schema[j], lens[j], i, j)
                                ELSE FieldBytes(schema[j], lens[j], i, j)),
           mem, [j \in 1..Len(schema) |-> j])

\* SerializeAttribute: a string ends at its first zero byte or with the field.
\* The bytes of a number stand for its text; that "%.2f" keeps two decimals of a
\* double is not told apart.  What was never written reads as zero.
FieldText(a, mem, at) ==
  LET bytes == [k \in 1..TypeSize(a) |-> IF at + k - 1 \in DOMAIN mem THEN mem[at + k - 1] ELSE Zero]
      zeros == {k \in 1..TypeSize(a) : bytes[k] = Zero}
  IN IF a.tpe # "S" \/ zeros = {} THEN bytes ELSE SubSeq(bytes, 1, Min(zeros) - 1)

\* The text the sink is expected to write for field j of tuple i.
ExpectedText(a, len, i, j) ==
  LET n == IF a.tpe # "S" THEN TypeSize(a) ELSE IF len < a.size THEN len ELSE a.size
  IN [k \in 1..n |-> <<i, j, k>>]

\* The schema declares for every type the size it has in memory.
Consistent(schema) == \A j \in DOMAIN schema : schema[j].size = TypeSize(schema[j])
=============================================================================

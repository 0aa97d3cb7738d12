--------------------------- MODULE ServerRowProofs ----------------------------
(***************************************************************************)
(* Which rows the server sends: no row twice, and every row once, for      *)
(* every number of threads, every size of the pool and of the table.       *)
(*                                                                         *)
(* At any time a row has not been read yet (Unread), or it is at one live  *)
(* place of one buffer, or it has been sent.  A place of a buffer is live  *)
(* unless its rows have been moved on: a deserializer has read past it, or *)
(* the thread that holds the buffer is about to release it.  RowsInv says  *)
(* that no row is in two of these states and at no two places; Kept, which *)
(* needs that no buffer is dropped, that every row is in one of them.      *)
(***************************************************************************)
EXTENDS ServerPipelineProofs

\* What keeps rows from being read twice: CSV readers share no position in the
\* file, so several of them read the same lines (the finding on parallel CSV).
CsvAlone == Source = "csv" => ReadParallelism = 1

\* The rows of partition p.
PartRows(p) ==
  IF Parquet THEN (StartOff(p) * LinesPerBuffer + 1)..(Least(EndOff(p), NumFiles) * LinesPerBuffer)
  ELSE (StartOff(p) + 1)..Least(EndOff(p), TableRows)

\* Where a reader is in the middle of a partition, and the rows it has left there.
ReadingAt(s) ==
  s \in (IF Parquet THEN {"openFile", "popFree", "readFile", "pushFile"}
         ELSE {"readLines", "pushFull", "refill"})

RestOf(c) ==
  IF Parquet THEN (c.line * LinesPerBuffer + 1)..(Least(EndOff(c.part), NumFiles) * LinesPerBuffer)
  ELSE (c.pos + 1)..Least(EndOff(c.part), TableRows)

-----------------------------------------------------------------------------
(* Partitions. *)

\* Integer division leaves less than the divisor.
LEMMA DivRest ==
  ASSUME NEW a \in Nat, NEW b \in Nat \ {0}
  PROVE  a \div b \in Nat /\ (a \div b) * b <= a /\ a < (a \div b) * b + b
OBVIOUS

\* Multiplying keeps order.
LEMMA ProductOrder == \A a, b, k \in Nat : a <= b => a * k <= b * k
OBVIOUS

\* Distribution.
LEMMA ProductNext == \A a, k \in Int : (a + 1) * k = a * k + k
OBVIOUS

\* What is cancelled.
LEMMA ProductCancel == \A a, b, k \in Nat : a * k < b * k => a < b
<1> SUFFICES ASSUME NEW a \in Nat, NEW b \in Nat, NEW k \in Nat, b <= a PROVE b * k <= a * k
  BY ProductNat
<1> QED BY ProductOrder

\* Sizes and offsets of the partitions.
LEMMA Offsets ==
  /\ PartNum \in Nat \ {0} /\ PartSize \in Nat /\ NumFiles \in Nat /\ TableRows \in Nat
  /\ LinesPerBuffer \in Nat \ {0} /\ LastOff \in Nat
  /\ \A p \in 0..(PartNum - 1) :
       /\ StartOff(p) \in Nat /\ EndOff(p) \in Nat
       /\ p # PartNum - 1 => EndOff(p) = StartOff(p) + PartSize
       /\ p = PartNum - 1 => EndOff(p) = LastOff
  /\ Parquet => LastOff = NumFiles
  /\ ~Parquet => LastOff = TableRows
<1>1. PartNum \in Nat \ {0} /\ PartSize \in Nat /\ NumFiles \in Nat /\ TableRows \in Nat /\ LinesPerBuffer \in Nat \ {0}
  BY PartArithmetic, SizesAssumption
<1>2. LastOff \in Nat /\ (Parquet => LastOff = NumFiles) /\ (~Parquet => LastOff = TableRows)
  BY <1>1 DEF LastOff, MaxRowNum, Parquet
<1>3. ASSUME NEW p \in 0..(PartNum - 1)
      PROVE  /\ StartOff(p) \in Nat /\ EndOff(p) \in Nat
             /\ p # PartNum - 1 => EndOff(p) = StartOff(p) + PartSize
             /\ p = PartNum - 1 => EndOff(p) = LastOff
  <2>1. p \in Nat /\ p \in Int /\ PartSize \in Int
    BY <1>1
  <2>2. StartOff(p) \in Nat
    BY <1>1, <2>1, ProductNat DEF StartOff
  <2>3. (p + 1) * PartSize = p * PartSize + PartSize
    BY <2>1, ProductNext
  <2> QED BY <1>1, <1>2, <2>2, <2>3 DEF EndOff, StartOff
<1> QED BY <1>1, <1>2, <1>3

\* A partition ends where a later one starts, or before.
LEMMA PartsOrdered ==
  ASSUME NEW p \in 0..(PartNum - 1), NEW q \in 0..(PartNum - 1), p < q
  PROVE  EndOff(p) <= StartOff(q)
<1>1. p # PartNum - 1 /\ p + 1 \in Nat /\ q \in Nat /\ p + 1 <= q /\ PartSize \in Nat
  BY Offsets
<1>2. (p + 1) * PartSize <= q * PartSize
  BY <1>1, ProductOrder
<1> QED BY <1>1, <1>2 DEF EndOff, StartOff

\* The smaller of two numbers.
LEMMA LeastNat ==
  ASSUME NEW a \in Nat, NEW b \in Nat
  PROVE  Least(a, b) \in Nat /\ Least(a, b) <= a /\ Least(a, b) <= b /\ (Least(a, b) = a \/ Least(a, b) = b)
BY DEF Least

\* A partition's rows are rows of the table.
LEMMA PartRowsType ==
  ASSUME NEW p \in 0..(PartNum - 1)
  PROVE  PartRows(p) \subseteq Rows
<1>0. /\ PartNum \in Nat \ {0} /\ NumFiles \in Nat /\ TableRows \in Nat /\ LinesPerBuffer \in Nat \ {0}
      /\ StartOff(p) \in Nat /\ EndOff(p) \in Nat
  BY Offsets
<1>1. CASE Parquet
  <2> DEFINE m == Least(EndOff(p), NumFiles)
  <2>1. m \in Nat /\ m <= NumFiles
    BY <1>0, LeastNat
  <2> HIDE DEF m
  <2>2. m * LinesPerBuffer <= NumFiles * LinesPerBuffer /\ NumFiles * LinesPerBuffer <= TableRows
    BY <1>0, <2>1, ProductOrder, PartArithmetic
  <2>3. StartOff(p) * LinesPerBuffer \in Nat /\ m * LinesPerBuffer \in Nat /\ NumFiles * LinesPerBuffer \in Nat
    BY <1>0, <2>1, ProductNat
  <2> DEFINE x == StartOff(p) * LinesPerBuffer
             y == m * LinesPerBuffer
             z == NumFiles * LinesPerBuffer
  <2>4. PartRows(p) = (x + 1)..y
    BY <1>1 DEF PartRows, m
  <2>5. x \in Nat /\ y \in Nat /\ z \in Nat /\ y <= z /\ z <= TableRows
    BY <2>2, <2>3
  <2> HIDE DEF x, y, z
  <2> QED BY <1>0, <2>4, <2>5 DEF Rows
<1>2. CASE ~Parquet
  BY <1>0, <1>2 DEF Least, PartRows, Rows
<1> QED BY <1>1, <1>2

\* No row is in two partitions.
LEMMA PartsDisjoint ==
  ASSUME NEW p \in 0..(PartNum - 1), NEW q \in 0..(PartNum - 1), NEW r, r \in PartRows(p), r \in PartRows(q)
  PROVE  p = q
<1>1. ASSUME NEW a \in 0..(PartNum - 1), NEW b \in 0..(PartNum - 1), a < b, r \in PartRows(a), r \in PartRows(b)
      PROVE  FALSE
  <2>0. /\ NumFiles \in Nat /\ TableRows \in Nat /\ LinesPerBuffer \in Nat
        /\ StartOff(a) \in Nat /\ EndOff(a) \in Nat /\ StartOff(b) \in Nat /\ EndOff(b) \in Nat
    BY Offsets
  <2>1. EndOff(a) <= StartOff(b)
    BY <1>1, PartsOrdered
  <2>2. CASE Parquet
    <3> DEFINE m == Least(EndOff(a), NumFiles)
    <3>1. m \in Nat /\ m <= StartOff(b)
      BY <2>0, <2>1 DEF Least
    <3>2. r \in Nat /\ r <= m * LinesPerBuffer /\ StartOff(b) * LinesPerBuffer + 1 <= r
      <4>1. r \in Rows
        BY <1>1, PartRowsType
      <4> QED BY <1>1, <2>2, <4>1 DEF PartRows, Rows
    <3> HIDE DEF m
    <3>3. m * LinesPerBuffer <= StartOff(b) * LinesPerBuffer
      BY <2>0, <3>1, ProductOrder
    <3>4. m * LinesPerBuffer \in Nat /\ StartOff(b) * LinesPerBuffer \in Nat
      BY <2>0, <3>1, ProductNat
    <3> DEFINE x == m * LinesPerBuffer
               y == StartOff(b) * LinesPerBuffer
    <3>5. x \in Nat /\ y \in Nat /\ x <= y /\ r \in Nat /\ r <= x /\ y + 1 <= r
      BY <3>2, <3>3, <3>4
    <3> HIDE DEF x, y
    <3> QED BY <3>5
  <2>3. CASE ~Parquet
    BY <1>1, <2>0, <2>1, <2>3 DEF PartRows, Least
  <2> QED BY <2>2, <2>3
<1>2. p < q \/ q < p \/ p = q
  BY Offsets
<1> QED BY <1>1, <1>2

\* Every line or file number is within some partition.
LEMMA PartsCover ==
  ASSUME NEW f \in Nat, f < LastOff
  PROVE  \E p \in 0..(PartNum - 1) : StartOff(p) <= f /\ f < EndOff(p)
<1>0. PartNum \in Nat \ {0} /\ PartSize \in Nat /\ LastOff \in Nat /\ PartNum - 1 \in 0..(PartNum - 1)
  BY Offsets
<1>1. CASE StartOff(PartNum - 1) <= f
  BY <1>0, <1>1, Offsets
<1>2. CASE ~(StartOff(PartNum - 1) <= f)
  <2>1. StartOff(PartNum - 1) \in Nat /\ f < StartOff(PartNum - 1)
    BY <1>0, <1>2, Offsets
  <2>2. PartSize # 0
    <3>1. ASSUME PartSize = 0 PROVE StartOff(PartNum - 1) = 0
      BY <1>0, <3>1 DEF StartOff
    <3> QED BY <2>1, <3>1
  <2> DEFINE p == f \div PartSize
  <2>3. p \in Nat /\ p * PartSize <= f /\ f < p * PartSize + PartSize
    BY <1>0, <2>2, DivRest
  <2> HIDE DEF p
  <2>4. p < PartNum - 1
    <3>1. p * PartSize < (PartNum - 1) * PartSize
      <4>1. p * PartSize \in Nat /\ (PartNum - 1) * PartSize \in Nat
        BY <1>0, <2>3, ProductNat
      <4> QED BY <2>1, <2>3, <4>1 DEF StartOff
    <3> QED BY <1>0, <2>3, <3>1, ProductCancel
  <2>5. p \in 0..(PartNum - 1) /\ p # PartNum - 1
    BY <1>0, <2>3, <2>4
  <2>6. StartOff(p) <= f /\ f < EndOff(p)
    BY <2>3, <2>5, Offsets DEF StartOff
  <2> QED BY <2>5, <2>6
<1> QED BY <1>1, <1>2

\* The files of a parquet table hold all of its rows.
WholeFiles == Parquet => TableRows = NumFiles * LinesPerBuffer

\* Every row is in some partition.
LEMMA PartRowsCover ==
  ASSUME WholeFiles, NEW r \in Rows
  PROVE  \E p \in 0..(PartNum - 1) : r \in PartRows(p)
<1>0. NumFiles \in Nat /\ TableRows \in Nat /\ LinesPerBuffer \in Nat \ {0} /\ r - 1 \in Nat /\ r \in Nat /\ r <= TableRows
  BY Offsets DEF Rows
<1>1. CASE ~Parquet
  <2>1. PICK p \in 0..(PartNum - 1) : StartOff(p) <= r - 1 /\ r - 1 < EndOff(p)
    BY <1>0, <1>1, PartsCover, Offsets
  <2>2. StartOff(p) \in Nat /\ EndOff(p) \in Nat
    BY Offsets
  <2> QED BY <1>0, <1>1, <2>1, <2>2 DEF PartRows, Least
<1>2. CASE Parquet
  <2> DEFINE f == (r - 1) \div LinesPerBuffer
  <2>1. f \in Nat /\ f * LinesPerBuffer <= r - 1 /\ r - 1 < f * LinesPerBuffer + LinesPerBuffer
    BY <1>0, DivRest
  <2> HIDE DEF f
  <2>2. f < NumFiles
    <3>1. f * LinesPerBuffer < NumFiles * LinesPerBuffer
      <4>1. f * LinesPerBuffer \in Nat /\ NumFiles * LinesPerBuffer \in Nat /\ NumFiles * LinesPerBuffer = TableRows
        BY <1>0, <1>2, <2>1, ProductNat DEF WholeFiles
      <4> QED BY <1>0, <2>1, <4>1
    <3> QED BY <1>0, <2>1, <3>1, ProductCancel
  <2>3. PICK p \in 0..(PartNum - 1) : StartOff(p) <= f /\ f < EndOff(p)
    BY <1>2, <2>1, <2>2, PartsCover, Offsets
  <2>4. StartOff(p) \in Nat /\ EndOff(p) \in Nat
    BY Offsets
  <2> DEFINE m == Least(EndOff(p), NumFiles)
  <2>5. m \in Nat /\ f + 1 <= m
    BY <1>0, <2>1, <2>2, <2>3, <2>4 DEF Least
  <2> HIDE DEF m
  <2>6. /\ StartOff(p) * LinesPerBuffer <= f * LinesPerBuffer
        /\ (f + 1) * LinesPerBuffer <= m * LinesPerBuffer
        /\ (f + 1) * LinesPerBuffer = f * LinesPerBuffer + LinesPerBuffer
    BY <1>0, <2>1, <2>3, <2>4, <2>5, ProductOrder, ProductNext
  <2> DEFINE x == StartOff(p) * LinesPerBuffer
             y == f * LinesPerBuffer
             z == m * LinesPerBuffer
  <2>7. x \in Nat /\ y \in Nat /\ z \in Nat
    BY <1>0, <2>1, <2>4, <2>5, ProductNat
  <2>8. x <= y /\ y + LinesPerBuffer <= z /\ y <= r - 1 /\ r - 1 < y + LinesPerBuffer
    BY <2>1, <2>6
  <2>9. PartRows(p) = (x + 1)..z
    BY <1>2 DEF PartRows, m
  <2> HIDE DEF x, y, z
  <2>10. r \in (x + 1)..z
    BY <1>0, <2>7, <2>8
  <2> QED BY <2>9, <2>10
<1> QED BY <1>1, <1>2

-----------------------------------------------------------------------------
(* Places of rows: row c[b][i] is live if no thread has moved it on, where P gives *)
(* the places and L the variables of the threads.                                   *)

Live(P, L, c, b, i) ==
  /\ b \in Buffers /\ i \in 1..Len(c[b])
  /\ \A t \in Threads : L[t].in = b => P[t] # "release" /\ i > L[t].off

\* No row is at two places, none is at a place and unread or sent, none is sent and
\* unread, and none sent twice: S says how often a row was sent, U which are unread.
Apart(P, L, c, S, U) ==
  /\ \A b, d \in Buffers, i, j \in Nat :
       Live(P, L, c, b, i) /\ Live(P, L, c, d, j) /\ c[b][i] = c[d][j] => b = d /\ i = j
  /\ \A b \in Buffers, i \in Nat : Live(P, L, c, b, i) => S[c[b][i]] = 0 /\ c[b][i] \notin U
  /\ \A r \in U : S[r] = 0
  /\ \A r \in Rows : S[r] <= 1

\* Every row is sent, unread or at a place.
Found(P, L, c, S, U) ==
  \A r \in Rows : S[r] = 1 \/ r \in U \/ \E b \in Buffers, i \in Nat : Live(P, L, c, b, i) /\ c[b][i] = r

\* If the live places stay what they are, and no row becomes unread.
LEMMA PlacesSame ==
  ASSUME NEW P, NEW L, NEW c, NEW S, NEW U, Apart(P, L, c, S, U),
         NEW P2, NEW L2, NEW c2, NEW U2,
         \A b \in Buffers, i \in Nat : Live(P2, L2, c2, b, i) => Live(P, L, c, b, i) /\ c2[b][i] = c[b][i],
         U2 \subseteq U
  PROVE  /\ Apart(P2, L2, c2, S, U2)
         /\ /\ U2 = U
            /\ \A b \in Buffers, i \in Nat : Live(P, L, c, b, i) => Live(P2, L2, c2, b, i) /\ c2[b][i] = c[b][i]
            /\ Found(P, L, c, S, U)
            => Found(P2, L2, c2, S, U2)
<1>1. Apart(P2, L2, c2, S, U2)
  BY DEF Apart
<1>2. ASSUME U2 = U, Found(P, L, c, S, U),
             \A b \in Buffers, i \in Nat : Live(P, L, c, b, i) => Live(P2, L2, c2, b, i) /\ c2[b][i] = c[b][i]
      PROVE  Found(P2, L2, c2, S, U2)
  BY <1>2 DEF Found
<1> QED BY <1>1, <1>2

\* The rows at places from + 1 to from + n of buffer src become those after the first
\* k of dst, which is not being read; other places die or stay.
Moves(P, L, c, P2, L2, c2, src, dst, from, k, n) ==
  /\ \A i \in 1..n : c2[dst][k + i] = c[src][from + i]
  /\ \A i \in 1..n : Live(P, L, c, src, from + i)
  /\ \A i \in 1..k : c2[dst][i] = c[dst][i]
  /\ \A i \in Nat : Live(P, L, c, dst, i) <=> i \in 1..k
  /\ \A i \in Nat : Live(P2, L2, c2, dst, i) <=> i \in 1..(k + n)
  /\ \A b \in Buffers, i \in Nat : b # dst => (Live(P2, L2, c2, b, i) => Live(P, L, c, b, i) /\ c2[b][i] = c[b][i])
  /\ \A i \in 1..n : ~Live(P2, L2, c2, src, from + i)

\* None dies but those whose rows move.
MovesAll(P, L, c, P2, L2, c2, src, dst, from, n) ==
  \A b \in Buffers, i \in Nat :
    b # dst /\ Live(P, L, c, b, i) =>
      \/ Live(P2, L2, c2, b, i) /\ c2[b][i] = c[b][i]
      \/ b = src /\ i - from \in 1..n

\* Rows move from one buffer to another.
LEMMA PlacesMove ==
  ASSUME NEW P, NEW L, NEW c, NEW S, NEW U, Apart(P, L, c, S, U),
         NEW P2, NEW L2, NEW c2, NEW src \in Buffers, NEW dst \in Buffers, src # dst,
         NEW from \in Nat, NEW k \in Nat, NEW n \in Nat,
         Moves(P, L, c, P2, L2, c2, src, dst, from, k, n)
  PROVE  /\ Apart(P2, L2, c2, S, U)
         /\ MovesAll(P, L, c, P2, L2, c2, src, dst, from, n) /\ Found(P, L, c, S, U)
            => Found(P2, L2, c2, S, U)
<1> USE DEF Moves
<1>1. ASSUME NEW i \in Nat, Live(P2, L2, c2, dst, i)
      PROVE  \/ i \in 1..k /\ Live(P, L, c, dst, i) /\ c2[dst][i] = c[dst][i]
             \/ i - k \in 1..n /\ Live(P, L, c, src, from + (i - k)) /\ c2[dst][i] = c[src][from + (i - k)]
  <2>1. CASE i \in 1..k
    BY <2>1
  <2>2. CASE i \notin 1..k
    <3>1. i - k \in 1..n /\ i = k + (i - k)
      BY <1>1, <2>2
    <3> QED BY <3>1
  <2> QED BY <2>1, <2>2
<1>2. ASSUME NEW b \in Buffers, NEW i \in Nat, Live(P2, L2, c2, b, i)
      PROVE  \E d \in Buffers, j \in Nat :
               /\ Live(P, L, c, d, j) /\ c2[b][i] = c[d][j]
               /\ \/ d = b /\ j = i
                  \/ b = dst /\ d = src /\ j = from + (i - k) /\ i - k \in 1..n
  <2>1. CASE b = dst
    BY <1>1, <1>2, <2>1
  <2>2. CASE b # dst
    BY <1>2, <2>2
  <2> QED BY <2>1, <2>2
<1>3. ASSUME NEW b \in Buffers, NEW d \in Buffers, NEW i \in Nat, NEW j \in Nat,
             Live(P2, L2, c2, b, i), Live(P2, L2, c2, d, j), c2[b][i] = c2[d][j]
      PROVE  b = d /\ i = j
  <2>1. PICK b1 \in Buffers, i1 \in Nat :
               /\ Live(P, L, c, b1, i1) /\ c2[b][i] = c[b1][i1]
               /\ \/ b1 = b /\ i1 = i
                  \/ b = dst /\ b1 = src /\ i1 = from + (i - k) /\ i - k \in 1..n
    BY <1>2, <1>3
  <2>2. PICK d1 \in Buffers, j1 \in Nat :
               /\ Live(P, L, c, d1, j1) /\ c2[d][j] = c[d1][j1]
               /\ \/ d1 = d /\ j1 = j
                  \/ d = dst /\ d1 = src /\ j1 = from + (j - k) /\ j - k \in 1..n
    BY <1>2, <1>3
  <2>3. b1 = d1 /\ i1 = j1
    BY <1>3, <2>1, <2>2 DEF Apart
  <2>4. \A m \in 1..n : ~Live(P2, L2, c2, src, from + m)
    OBVIOUS
  <2>5. CASE b1 = b /\ i1 = i
    <3>1. CASE d1 = d /\ j1 = j
      BY <2>3, <2>5, <3>1
    <3>2. CASE d = dst /\ d1 = src /\ j1 = from + (j - k) /\ j - k \in 1..n
      <4>1. b = src /\ i = from + (j - k) /\ j - k \in 1..n
        BY <2>3, <2>5, <3>2
      <4> QED BY <1>3, <2>4, <4>1
    <3> QED BY <2>2, <3>1, <3>2
  <2>6. CASE b = dst /\ b1 = src /\ i1 = from + (i - k) /\ i - k \in 1..n
    <3>1. CASE d1 = d /\ j1 = j
      <4>1. d = src /\ j = from + (i - k) /\ i - k \in 1..n
        BY <2>3, <2>6, <3>1
      <4> QED BY <1>3, <2>4, <4>1
    <3>2. CASE d = dst /\ d1 = src /\ j1 = from + (j - k) /\ j - k \in 1..n
      <4>1. from + (i - k) = from + (j - k)
        BY <2>3, <2>6, <3>2
      <4>2. i = j
        BY <4>1, Z3
      <4> QED BY <2>6, <3>2, <4>2
    <3> QED BY <2>2, <3>1, <3>2
  <2> QED BY <2>1, <2>5, <2>6
<1>4. Apart(P2, L2, c2, S, U)
  <2>1. ASSUME NEW b \in Buffers, NEW i \in Nat, Live(P2, L2, c2, b, i)
        PROVE  S[c2[b][i]] = 0 /\ c2[b][i] \notin U
    BY <1>2, <2>1 DEF Apart
  <2>2. (\A r \in U : S[r] = 0) /\ (\A r \in Rows : S[r] <= 1)
    BY DEF Apart
  <2> QED BY <1>3, <2>1, <2>2 DEF Apart
<1>5. ASSUME Found(P, L, c, S, U), MovesAll(P, L, c, P2, L2, c2, src, dst, from, n)
      PROVE  Found(P2, L2, c2, S, U)
  <2> SUFFICES ASSUME NEW r \in Rows, NEW b \in Buffers, NEW i \in Nat, Live(P, L, c, b, i), c[b][i] = r
               PROVE  \E d \in Buffers, j \in Nat : Live(P2, L2, c2, d, j) /\ c2[d][j] = r
    BY <1>5 DEF Found
  <2>1. CASE b = dst
    <3>1. i \in 1..k /\ i \in 1..(k + n)
      BY <2>1
    <3> QED BY <2>1, <3>1
  <2>2. CASE b # dst /\ b = src /\ i - from \in 1..n
    <3> DEFINE m == i - from
    <3>1. m \in 1..n /\ i = from + m /\ k + m \in 1..(k + n) /\ k + m \in Nat
      BY <2>2
    <3> HIDE DEF m
    <3>2. c2[dst][k + m] = r /\ Live(P2, L2, c2, dst, k + m)
      BY <2>2, <3>1
    <3> QED BY <3>1, <3>2
  <2>3. CASE b # dst /\ ~(b = src /\ i - from \in 1..n)
    BY <1>5, <2>3 DEF MovesAll
  <2> QED BY <2>1, <2>2, <2>3
<1> QED BY <1>4, <1>5

\* Rows from + 1 to from + n, which were unread, get into buffer dst behind its first k.
Adds(P, L, c, U, P2, L2, c2, U2, dst, from, k, n) ==
  /\ \A i \in 1..n : /\ c2[dst][k + i] = from + i
                     /\ from + i \in U /\ from + i \notin U2
  /\ \A i \in 1..k : c2[dst][i] = c[dst][i]
  /\ \A i \in Nat : Live(P, L, c, dst, i) <=> i \in 1..k
  /\ \A i \in Nat : Live(P2, L2, c2, dst, i) <=> i \in 1..(k + n)
  /\ \A b \in Buffers, i \in Nat : b # dst => (Live(P2, L2, c2, b, i) <=> Live(P, L, c, b, i))
  /\ \A b \in Buffers : b # dst => c2[b] = c[b]

\* The others stay unread.
AddsAll(U, U2, from, n) == U \subseteq Int /\ \A r \in U : r \in U2 \/ r - from \in 1..n

\* Rows are read.
LEMMA PlacesAdd ==
  ASSUME NEW P, NEW L, NEW c, NEW S, NEW U, Apart(P, L, c, S, U), NEW U2, U2 \subseteq U,
         NEW P2, NEW L2, NEW c2, NEW dst \in Buffers, NEW from \in Int, NEW k \in Nat, NEW n \in Nat,
         Adds(P, L, c, U, P2, L2, c2, U2, dst, from, k, n)
  PROVE  /\ Apart(P2, L2, c2, S, U2)
         /\ AddsAll(U, U2, from, n) /\ Found(P, L, c, S, U) => Found(P2, L2, c2, S, U2)
<1> USE DEF Adds
<1>1. ASSUME NEW i \in Nat, Live(P2, L2, c2, dst, i)
      PROVE  \/ i \in 1..k /\ Live(P, L, c, dst, i) /\ c2[dst][i] = c[dst][i]
             \/ i - k \in 1..n /\ c2[dst][i] = from + (i - k) /\ c2[dst][i] \in U /\ c2[dst][i] \notin U2
  <2>1. CASE i \in 1..k
    BY <2>1
  <2>2. CASE i \notin 1..k
    <3> DEFINE m == i - k
    <3>1. m \in 1..n /\ i = k + m
      BY <1>1, <2>2
    <3> HIDE DEF m
    <3>2. c2[dst][i] = from + m /\ c2[dst][i] \in U /\ c2[dst][i] \notin U2
      BY <3>1
    <3> QED BY <3>1, <3>2 DEF m
  <2> QED BY <2>1, <2>2
<1>2. ASSUME NEW b \in Buffers, NEW i \in Nat, Live(P2, L2, c2, b, i)
      PROVE  \/ Live(P, L, c, b, i) /\ c2[b][i] = c[b][i] /\ c2[b][i] \notin U
             \/ b = dst /\ i - k \in 1..n /\ c2[b][i] = from + (i - k) /\ c2[b][i] \in U /\ c2[b][i] \notin U2
  <2>1. CASE b = dst
    BY <1>1, <1>2, <2>1 DEF Apart
  <2>2. CASE b # dst
    BY <1>2, <2>2 DEF Apart
  <2> QED BY <2>1, <2>2
<1>3. ASSUME NEW b \in Buffers, NEW d \in Buffers, NEW i \in Nat, NEW j \in Nat,
             Live(P2, L2, c2, b, i), Live(P2, L2, c2, d, j), c2[b][i] = c2[d][j]
      PROVE  b = d /\ i = j
  <2>1. CASE c2[b][i] \in U
    <3>1. b = dst /\ i - k \in 1..n /\ c2[b][i] = from + (i - k)
      BY <1>2, <1>3, <2>1
    <3>2. d = dst /\ j - k \in 1..n /\ c2[d][j] = from + (j - k)
      BY <1>2, <1>3, <2>1
    <3> QED BY <1>3, <3>1, <3>2
  <2>2. CASE c2[b][i] \notin U
    <3>1. Live(P, L, c, b, i) /\ Live(P, L, c, d, j) /\ c[b][i] = c[d][j]
      BY <1>2, <1>3, <2>2
    <3>2. \A b1, d1 \in Buffers, i1, j1 \in Nat :
            Live(P, L, c, b1, i1) /\ Live(P, L, c, d1, j1) /\ c[b1][i1] = c[d1][j1] => b1 = d1 /\ i1 = j1
      BY DEF Apart
    <3> QED BY <3>1, <3>2
  <2> QED BY <2>1, <2>2
<1>4. Apart(P2, L2, c2, S, U2)
  <2>1. (\A r \in U : S[r] = 0) /\ (\A r \in Rows : S[r] <= 1)
    BY DEF Apart
  <2>2. ASSUME NEW b \in Buffers, NEW i \in Nat, Live(P2, L2, c2, b, i)
        PROVE  S[c2[b][i]] = 0 /\ c2[b][i] \notin U2
    BY <1>2, <2>1, <2>2 DEF Apart
  <2> QED BY <1>3, <2>1, <2>2 DEF Apart
<1>5. ASSUME Found(P, L, c, S, U), AddsAll(U, U2, from, n)
      PROVE  Found(P2, L2, c2, S, U2)
  <2> SUFFICES ASSUME NEW r \in Rows, S[r] # 1, r \notin U2
               PROVE  \E d \in Buffers, j \in Nat : Live(P2, L2, c2, d, j) /\ c2[d][j] = r
    BY DEF Found
  <2>1. CASE r \in U
    <3> DEFINE m == r - from
    <3>1. m \in 1..n /\ r = from + m /\ k + m \in 1..(k + n) /\ k + m \in Nat
      BY <1>5, <2>1 DEF AddsAll
    <3> HIDE DEF m
    <3>2. c2[dst][k + m] = r /\ Live(P2, L2, c2, dst, k + m)
      BY <3>1
    <3> QED BY <3>1, <3>2
  <2>2. CASE r \notin U
    <3>1. PICK b \in Buffers, i \in Nat : Live(P, L, c, b, i) /\ c[b][i] = r
      BY <1>5, <2>2 DEF Found
    <3>2. CASE b = dst
      <4>1. i \in 1..k /\ i \in 1..(k + n)
        BY <3>1, <3>2
      <4> QED BY <3>1, <3>2, <4>1
    <3>3. CASE b # dst
      BY <3>1, <3>3
    <3> QED BY <3>2, <3>3
  <2> QED BY <2>1, <2>2
<1> QED BY <1>4, <1>5

\* How often a row occurs.
LEMMA OccursOnce ==
  ASSUME NEW rows, NEW r
  PROVE  /\ (\A i \in 1..Len(rows) : rows[i] # r) => Occurrences(r, rows) = 0
         /\ \A i \in 1..Len(rows) :
              rows[i] = r /\ (\A j \in 1..Len(rows) : rows[j] = r => j = i) => Occurrences(r, rows) = 1
<1>1. ASSUME \A i \in 1..Len(rows) : rows[i] # r PROVE Occurrences(r, rows) = 0
  <2>1. {i \in 1..Len(rows) : rows[i] = r} = {}
    BY <1>1
  <2> QED BY <2>1, FS_EmptySet DEF Occurrences
<1>2. ASSUME NEW i \in 1..Len(rows), rows[i] = r, \A j \in 1..Len(rows) : rows[j] = r => j = i
      PROVE  Occurrences(r, rows) = 1
  <2>1. {j \in 1..Len(rows) : rows[j] = r} = {i}
    BY <1>2
  <2>2. Cardinality({i}) = 1
    BY FS_Singleton, Zenon
  <2> QED BY <2>1, <2>2 DEF Occurrences
<1> QED BY <1>1, <1>2

\* The first rows of buffer src, all of which were live, are sent; w are these rows.
Sends(P, P2, L, c, S, S2, src, w) ==
  /\ w \in Seq(Rows) /\ Len(w) <= Len(c[src]) /\ \A i \in 1..Len(w) : w[i] = c[src][i]
  /\ S2 = [r \in Rows |-> S[r] + Occurrences(r, w)]
  /\ \A i \in Nat : Live(P, L, c, src, i) <=> i \in 1..Len(c[src])
  /\ \A i \in Nat : ~Live(P2, L, c, src, i)
  /\ \A b \in Buffers, i \in Nat : b # src => (Live(P2, L, c, b, i) <=> Live(P, L, c, b, i))

\* Rows are sent.
LEMMA PlacesSend ==
  ASSUME NEW P, NEW L, NEW c \in [Buffers -> Seq(Rows)], NEW S \in [Rows -> Nat], NEW U, U \subseteq Rows,
         Apart(P, L, c, S, U), NEW P2, NEW S2, NEW src \in Buffers, NEW w,
         Sends(P, P2, L, c, S, S2, src, w)
  PROVE  Apart(P2, L, c, S2, U) /\ (w = c[src] /\ Found(P, L, c, S, U) => Found(P2, L, c, S2, U))
<1> USE DEF Sends
<1>0. \A b \in Buffers, i \in Nat : Live(P, L, c, b, i) => c[b][i] \in Rows
  BY DEF Live
<1>1. /\ \A b, d \in Buffers, i, j \in Nat :
           Live(P, L, c, b, i) /\ Live(P, L, c, d, j) /\ c[b][i] = c[d][j] => b = d /\ i = j
      /\ \A b \in Buffers, i \in Nat : Live(P, L, c, b, i) => S[c[b][i]] = 0 /\ c[b][i] \notin U
      /\ \A r \in U : S[r] = 0
      /\ \A r \in Rows : S[r] <= 1
  BY DEF Apart
<1>2. /\ Len(c[src]) \in Nat /\ Len(w) \in Nat /\ Len(w) <= Len(c[src])
      /\ \A i \in 1..Len(w) : w[i] = c[src][i] /\ i \in 1..Len(c[src])
  OBVIOUS
<1>3. ASSUME NEW r \in Rows, \A i \in 1..Len(w) : w[i] # r PROVE S2[r] = S[r]
  <2>1. Occurrences(r, w) = 0
    BY <1>3, OccursOnce
  <2> QED BY <2>1
<1>4. ASSUME NEW r \in Rows, NEW i \in 1..Len(w), w[i] = r PROVE S2[r] = 1 /\ S[r] = 0
  <2>1. i \in Nat /\ Live(P, L, c, src, i)
    BY <1>2
  <2>2. S[r] = 0
    BY <1>1, <1>4, <2>1
  <2>3. ASSUME NEW j \in 1..Len(w), w[j] = r PROVE j = i
    <3>1. j \in Nat /\ Live(P, L, c, src, j)
      BY <1>2
    <3> QED BY <1>1, <1>4, <2>1, <2>3, <3>1
  <2>4. Occurrences(r, w) = 1
    BY <1>4, <2>3, OccursOnce
  <2> QED BY <2>2, <2>4
<1>5. ASSUME NEW b \in Buffers, NEW i \in Nat, Live(P2, L, c, b, i)
      PROVE  Live(P, L, c, b, i) /\ S2[c[b][i]] = 0 /\ c[b][i] \notin U
  <2>1. b # src /\ Live(P, L, c, b, i)
    BY <1>5
  <2>2. ASSUME NEW j \in 1..Len(w) PROVE w[j] # c[b][i]
    <3>1. j \in Nat /\ Live(P, L, c, src, j)
      BY <1>2
    <3> QED BY <1>1, <2>1, <3>1
  <2>3. S2[c[b][i]] = S[c[b][i]]
    BY <1>0, <1>3, <2>1, <2>2
  <2> QED BY <1>1, <2>1, <2>3
<1>6. ASSUME NEW r \in U PROVE S2[r] = 0
  <2>1. ASSUME NEW j \in 1..Len(w) PROVE w[j] # r
    <3>1. j \in Nat /\ Live(P, L, c, src, j)
      BY <1>2
    <3> QED BY <1>1, <3>1
  <2> QED BY <1>1, <1>3, <2>1
<1>7. ASSUME NEW r \in Rows PROVE S2[r] <= 1 /\ (S[r] = 1 => S2[r] = 1)
  <2>1. CASE \A i \in 1..Len(w) : w[i] # r
    BY <1>1, <1>3, <2>1
  <2>2. CASE \E i \in 1..Len(w) : w[i] = r
    BY <1>4, <2>2
  <2> QED BY <2>1, <2>2
<1>8. Apart(P2, L, c, S2, U)
  <2>1. ASSUME NEW b \in Buffers, NEW d \in Buffers, NEW i \in Nat, NEW j \in Nat,
               Live(P2, L, c, b, i), Live(P2, L, c, d, j), c[b][i] = c[d][j]
        PROVE  b = d /\ i = j
    <3>1. Live(P, L, c, b, i) /\ Live(P, L, c, d, j)
      BY <1>5, <2>1
    <3> QED BY <1>1, <2>1, <3>1
  <2> QED BY <1>5, <1>6, <1>7, <2>1 DEF Apart
<1>9. ASSUME w = c[src], Found(P, L, c, S, U) PROVE Found(P2, L, c, S2, U)
  <2> SUFFICES ASSUME NEW r \in Rows, S2[r] # 1, r \notin U
               PROVE  \E b \in Buffers, i \in Nat : Live(P2, L, c, b, i) /\ c[b][i] = r
    BY DEF Found
  <2>1. PICK b \in Buffers, i \in Nat : Live(P, L, c, b, i) /\ c[b][i] = r
    BY <1>7, <1>9 DEF Found
  <2>2. b # src
    BY <1>4, <1>9, <2>1
  <2> QED BY <2>1, <2>2
<1> QED BY <1>8, <1>9

-----------------------------------------------------------------------------
(* The invariant. *)

\* Where a thread is at the end of its work.
After == {"pushLast", "fetchAdd", "load", "signal", "done"}

\* What thread t at s keeps in its variables v: a deserializer's offset is about the
\* buffer it reads, some buffers are still empty, and a thread that ends holds no
\* rows, but for the buffer that is not full of a ClickHouse reader.
KeepRight(t, s, v, c) ==
  /\ v.off > 0 => Stage(t) = "deser" /\ s \in {"deserialize", "pushFull", "refill", "release"}
  /\ s \in {"compress", "readFile"} /\ v.out \in Buffers => c[v.out] = <<>>
  /\ Stage(t) = "read" => v.in = NoBuffer
  /\ Stage(t) = "send" => v.out = NoBuffer
  /\ Stage(t) = "deser" /\ s \in {"pop", "forward"} => v.out = NoBuffer
  /\ s \in After => v.in = NoBuffer
  /\ s \in After \ {"pushLast"} /\ v.out \in Buffers =>
       \/ Stage(t) = "deser" /\ c[v.out] = <<>>
       \/ Stage(t) = "read" /\ Source = "clickhouse" /\ Len(c[v.out]) < LinesPerBuffer
  /\ Stage(t) = "read" /\ Source = "clickhouse" /\ s = "popPart" /\ v.out \in Buffers => Len(c[v.out]) < LinesPerBuffer

KeepInv == \A t \in Threads : KeepRight(t, pc[t], loc[t], content)

\* The partitions still in the queue.
Queued == {i \in 1..Len(partPtr) : partPtr[i] # Sentinel}

Reading(r) == ReadingAt(pc[r])

\* Where a reader is in its partition; a CSV reader starts at the beginning.
CursorKept(r) ==
  /\ Reading(r) => /\ cursor[r].part \in 0..(PartNum - 1) /\ StartOff(cursor[r].part) <= cursor[r].line
                   /\ ~Parquet => cursor[r].line = cursor[r].pos
  /\ Parquet /\ pc[r] \in {"popFree", "readFile"} => cursor[r].line < EndOff(cursor[r].part)
  /\ Source = "csv" /\ Queued # {} => cursor[r].pos = 0 /\ cursor[r].line = 0

\* No partition is read twice, and no reader ends before the last one is taken.
PartsInv ==
  /\ \A i, j \in Queued : partPtr[i] = partPtr[j] => i = j
  /\ \A r \in Readers : Reading(r) => \A i \in Queued : partPtr[i] # cursor[r].part
  /\ \A r, u \in Readers : Reading(r) /\ Reading(u) /\ cursor[r].part = cursor[u].part => r = u
  /\ \A i, j \in 1..Len(partPtr) : i < j /\ partPtr[i] = Sentinel => partPtr[j] = Sentinel
  /\ \A r \in Readers : pc[r] \in After => Queued = {}

ReadersInv == PartsInv /\ \A r \in Readers : CursorKept(r)

\* The rows that are still to be read.
Unread ==
  {r \in Rows : \/ \E i \in Queued : r \in PartRows(partPtr[i])
                \/ \E t \in Readers : Reading(t) /\ r \in RestOf(cursor[t])}

RowsInv == KeepInv /\ ReadersInv /\ Apart(pc, loc, content, sent, Unread)

Kept == Found(pc, loc, content, sent, Unread)

\* Compressors drop no buffer, and no buffer without header is taken for a shorter one.
Lossless == "incompressible" \notin Faults /\ (Source # "clickhouse" \/ "cut" \notin Faults)

\* What the steps below show: no row gets into a second place, and none is lost.
RowsStep == RowsInv' /\ (Lossless /\ Kept => Kept')

-----------------------------------------------------------------------------
\* A step of t leaves the other threads what they keep.
LEMMA KeepStep ==
  ASSUME PipelineInv, KeepInv, NEW t \in Threads, NEW s, NEW v, ThreadStep(t, s, v), OwnBuffersOnly(t),
         KeepRight(t, s, v, content')
  PROVE  KeepInv'
<1>1. /\ pc \in [Threads -> PCs] /\ loc \in [Threads -> LocType] /\ QueueTypes /\ PlaceInv
      /\ content \in [Buffers -> Seq(Rows)]
  BY StepFacts
<1>2. /\ pc'[t] = s /\ loc'[t] = v
      /\ \A u \in Threads : u # t => pc'[u] = pc[u] /\ loc'[u] = loc[u]
  BY <1>1 DEF ThreadStep
<1> SUFFICES ASSUME NEW u \in Threads PROVE KeepRight(u, pc'[u], loc'[u], content')
  BY DEF KeepInv, KeepRight
<1>3. CASE u = t
  BY <1>2, <1>3
<1>4. CASE u # t
  <2>1. loc[u].out \in Buffers => content'[loc[u].out] = content[loc[u].out]
    BY <1>1, <1>4, HeldApart DEF OwnBuffersOnly
  <2>2. KeepRight(u, pc[u], loc[u], content) /\ HoldsRight(u, pc[u], loc[u]) /\ loc[u] \in LocType
    BY StepFacts DEF KeepInv
  <2> QED BY <1>2, <1>4, <2>1, <2>2 DEF KeepRight
<1> QED BY <1>3, <1>4

-----------------------------------------------------------------------------
(* Steps that move no row. *)

\* A thread that has moved nothing on.
Clear(s, v) == s # "release" /\ v.off = 0

\* A thread t that moves to s with v leaves alive what was.
SameReach(t, s, v) ==
  \/ Clear(pc[t], loc[t]) /\ Clear(s, v)
  \/ v.in = loc[t].in /\ v.off = loc[t].off /\ (s = "release" <=> pc[t] = "release")

\* Such a step leaves the live places of a buffer alone if it leaves the buffer alone.
LEMMA LiveSame ==
  ASSUME PipelineInv, NEW t \in Threads, NEW s, NEW v, ThreadStep(t, s, v), SameReach(t, s, v),
         NEW b \in Buffers, NEW i \in Nat, content'[b] = content[b]
  PROVE  Live(pc', loc', content', b, i) <=> Live(pc, loc, content, b, i)
<1>1. pc \in [Threads -> PCs] /\ loc \in [Threads -> LocType] /\ content \in [Buffers -> Seq(Rows)]
  BY StepFacts
<1>2. /\ pc'[t] = s /\ loc'[t] = v
      /\ \A u \in Threads : u # t => pc'[u] = pc[u] /\ loc'[u] = loc[u]
  BY <1>1 DEF ThreadStep
<1>3. i \in 1..Len(content[b]) => i > 0
  OBVIOUS
<1>4. ASSUME i \in 1..Len(content[b])
      PROVE  (loc'[t].in = b => pc'[t] # "release" /\ i > loc'[t].off)
             <=> (loc[t].in = b => pc[t] # "release" /\ i > loc[t].off)
  BY <1>2, <1>3, <1>4 DEF SameReach, Clear
<1>5. ASSUME NEW u \in Threads, i \in 1..Len(content[b])
      PROVE  (loc'[u].in = b => pc'[u] # "release" /\ i > loc'[u].off)
             <=> (loc[u].in = b => pc[u] # "release" /\ i > loc[u].off)
  BY <1>2, <1>4, <1>5
<1> QED BY <1>5 DEF Live

\* Where reader t may go without taking a partition or reading from it.
SameUnread(t, s) ==
  t \in Readers => /\ s \in After => pc[t] \in After
                   /\ \/ ReadingAt(s) <=> ReadingAt(pc[t])
                      \/ ~ReadingAt(s) /\ RestOf(cursor[t]) = {}
                   /\ Parquet /\ s \in {"popFree", "readFile"} =>
                        pc[t] \in {"popFree", "readFile"} \/ cursor[t].line < EndOff(cursor[t].part)

\* Such a step leaves the partitions and the unread rows alone.
LEMMA ReadersSame ==
  ASSUME PipelineInv, ReadersInv, NEW t \in Threads, NEW s, pc' = [pc EXCEPT ![t] = s],
         cursor' = cursor, partPtr' = partPtr, SameUnread(t, s)
  PROVE  ReadersInv' /\ Unread' = Unread
<1>1. pc \in [Threads -> PCs] /\ Readers \subseteq Threads
  BY StepFacts DEF Threads
<1>2. pc'[t] = s /\ \A u \in Threads : u # t => pc'[u] = pc[u]
  BY <1>1
<1>3. Queued' = Queued
  BY DEF Queued
<1>4. ASSUME NEW r \in Readers
      PROVE  /\ Reading(r)' => Reading(r)
             /\ Reading(r) /\ ~Reading(r)' => RestOf(cursor[r]) = {}
             /\ pc'[r] \in After => pc[r] \in After
             /\ Parquet /\ pc'[r] \in {"popFree", "readFile"} =>
                  pc[r] \in {"popFree", "readFile"} \/ cursor[r].line < EndOff(cursor[r].part)
  BY <1>1, <1>2 DEF Reading, SameUnread
<1>5. PartsInv'
  <2>1. PartsInv
    BY DEF ReadersInv
  <2>2. \A i, j \in Queued : partPtr[i] = partPtr[j] => i = j
    BY <2>1 DEF PartsInv
  <2>3. \A r \in Readers : Reading(r)' => \A i \in Queued : partPtr[i] # cursor[r].part
    BY <1>4, <2>1 DEF PartsInv
  <2>4. \A r, u \in Readers : Reading(r)' /\ Reading(u)' /\ cursor[r].part = cursor[u].part => r = u
    BY <1>4, <2>1 DEF PartsInv
  <2>5. \A i, j \in 1..Len(partPtr) : i < j /\ partPtr[i] = Sentinel => partPtr[j] = Sentinel
    BY <2>1 DEF PartsInv
  <2>6. \A r \in Readers : pc'[r] \in After => Queued = {}
    BY <1>4, <2>1 DEF PartsInv
  <2> QED BY <1>3, <2>2, <2>3, <2>4, <2>5, <2>6 DEF PartsInv
<1>6. ASSUME NEW r \in Readers PROVE CursorKept(r)'
  <2>1. CursorKept(r)
    BY DEF ReadersInv
  <2> QED BY <1>3, <1>4, <2>1 DEF CursorKept
<1>7. Unread' = Unread
  <2>1. ASSUME NEW r \in Rows
        PROVE  (\E u \in Readers : Reading(u)' /\ r \in RestOf(cursor[u]))
               <=> (\E u \in Readers : Reading(u) /\ r \in RestOf(cursor[u]))
    BY <1>4
  <2> QED BY <1>3, <2>1 DEF Unread
<1> QED BY <1>5, <1>6, <1>7 DEF ReadersInv

\* The readers have the same rows left to read.
ReadersStay == ReadersInv' /\ Unread' = Unread

\* A step that moves no row, if they have.
LEMMA UnmovedStep ==
  ASSUME PipelineInv, RowsInv, NEW t \in Threads, NEW s, NEW v, ThreadStep(t, s, v),
         content' = content, sent' = sent, KeepRight(t, s, v, content), SameReach(t, s, v),
         ReadersStay
  PROVE  RowsStep
<1>1. OwnBuffersOnly(t) /\ content' = content /\ sent' = sent
  BY StepFacts DEF OwnBuffersOnly
<1>2. KeepInv'
  <2>1. KeepRight(t, s, v, content')
    BY <1>1
  <2> QED BY <1>1, <2>1, KeepStep DEF RowsInv
<1>4. ASSUME NEW b \in Buffers, NEW i \in Nat
      PROVE  Live(pc', loc', content', b, i) <=> Live(pc, loc, content, b, i)
  BY <1>1, LiveSame
<1>5. Apart(pc, loc, content, sent, Unread)
  BY DEF RowsInv
<1>6. /\ Apart(pc', loc', content', sent, Unread')
      /\ Found(pc, loc, content, sent, Unread) => Found(pc', loc', content', sent, Unread')
  <2> DEFINE P2 == pc'
             L2 == loc'
             c2 == content'
             U2 == Unread'
  <2>1. \A b \in Buffers, i \in Nat : Live(P2, L2, c2, b, i) <=> Live(pc, loc, content, b, i)
    BY <1>4
  <2>2. c2 = content /\ U2 = Unread
    BY <1>1 DEF ReadersStay
  <2> HIDE DEF P2, L2, c2, U2
  <2>3. /\ Apart(P2, L2, c2, sent, U2)
        /\ Found(pc, loc, content, sent, Unread) => Found(P2, L2, c2, sent, U2)
    BY <1>5, <2>1, <2>2, PlacesSame
  <2> QED BY <2>3 DEF P2, L2, c2, U2
<1> QED BY <1>1, <1>2, <1>6 DEF RowsStep, RowsInv, Kept, ReadersStay

\* The same for a step that takes no partition.
LEMMA PassStep ==
  ASSUME PipelineInv, RowsInv, NEW t \in Threads, NEW s, NEW v, ThreadStep(t, s, v),
         UNCHANGED <<content, sent, cursor, partPtr>>,
         KeepRight(t, s, v, content), SameReach(t, s, v), SameUnread(t, s)
  PROVE  RowsStep
<1>1. ReadersStay
  BY ReadersSame DEF RowsInv, ThreadStep, ReadersStay
<1> QED BY <1>1, UnmovedStep

\* And for one that takes a partition and keeps its buffers.
LEMMA StillStep ==
  ASSUME PipelineInv, RowsInv, NEW t \in Threads, NEW s \in PCs, pc' = [pc EXCEPT ![t] = s],
         UNCHANGED <<loc, content, sent>>, s # "release", pc[t] # "release",
         KeepRight(t, s, loc[t], content), ReadersStay
  PROVE  RowsStep
<1>1. ThreadStep(t, s, loc[t])
  BY StepFacts DEF ThreadStep
<1>2. SameReach(t, s, loc[t])
  BY DEF SameReach
<1> QED BY <1>1, <1>2, UnmovedStep

\* What a step of t starts from.
LEMMA RowFacts ==
  ASSUME PipelineInv, RowsInv, NEW t \in Threads
  PROVE  /\ KeepRight(t, pc[t], loc[t], content) /\ HoldsRight(t, pc[t], loc[t])
         /\ loc[t] \in LocType /\ loc[t].off \in Nat
         /\ loc[t].in \in Buffers \cup {NoBuffer} /\ loc[t].out \in Buffers \cup {NoBuffer}
         /\ NoBuffer \notin Buffers
         /\ pc[t] \notin {"deserialize", "pushFull", "refill", "release"} => loc[t].off = 0
         /\ Stage(t) # "deser" => loc[t].off = 0
<1>1. KeepRight(t, pc[t], loc[t], content) /\ HoldsRight(t, pc[t], loc[t]) /\ loc[t] \in LocType /\ NoBuffer \notin Buffers
  BY StepFacts, BufferFacts DEF RowsInv, KeepInv
<1>2. /\ loc[t].off \in Nat
      /\ loc[t].in \in Buffers \cup {NoBuffer} /\ loc[t].out \in Buffers \cup {NoBuffer}
  BY <1>1 DEF LocType
<1> QED BY <1>1, <1>2 DEF KeepRight

\* A thread that only goes to another place.
LEMMA GotoRows ==
  ASSUME PipelineInv, RowsInv, NEW t \in Threads, NEW s \in PCs, Goto(t, s),
         UNCHANGED <<loc, content, sent, cursor, partPtr>>,
         s # "release", pc[t] # "release", KeepRight(t, s, loc[t], content), SameUnread(t, s)
  PROVE  RowsStep
<1>1. ThreadStep(t, s, loc[t])
  BY StepFacts DEF ThreadStep, Goto
<1>2. SameReach(t, s, loc[t])
  BY DEF SameReach
<1> QED BY <1>1, <1>2, PassStep

\* fetch_add, the second look at the counter, and the sentinels.
LEMMA FinishRows ==
  ASSUME PipelineInv, RowsInv, NEW t \in Threads, Stage(t) \in {"read", "deser", "comp"}, Finish(t)
  PROVE  RowsStep
<1>0. KeepRight(t, pc[t], loc[t], content) /\ loc[t] \in LocType /\ HoldsRight(t, pc[t], loc[t])
      /\ loc[t].off = 0 /\ pc[t] \in {"fetchAdd", "load", "signal"}
      /\ UNCHANGED <<content, sent, cursor, partPtr>>
  BY RowFacts DEF Finish, FetchAdd, LoadFinished, PushSentinel
<1>1. PICK s \in {"load", "signal", "done"}, n \in Nat :
        pc' = [pc EXCEPT ![t] = s] /\ loc' = [loc EXCEPT ![t] = [loc[t] EXCEPT !.left = n]]
  <2>1. loc \in [Threads -> LocType] /\ loc[t].left \in Nat /\ loc[t] = [loc[t] EXCEPT !.left = loc[t].left]
    BY <1>0, StepFacts DEF LocType
  <2>2. loc = [loc EXCEPT ![t] = [loc[t] EXCEPT !.left = loc[t].left]]
    BY <2>1
  <2>3. CASE FetchAdd(t)
    BY <2>1, <2>2, <2>3 DEF FetchAdd, Goto
  <2>4. CASE LoadFinished(t) /\ finished[Stage(t)] # Parallelism[Stage(t)]
    BY <2>1, <2>2, <2>4 DEF LoadFinished, Goto
  <2>5. CASE LoadFinished(t) /\ finished[Stage(t)] = Parallelism[Stage(t)]
    <3>1. Parallelism[NextStage[Stage(t)]] \in Nat
      BY ThreadFacts
    <3> QED BY <2>1, <2>5, <3>1 DEF LoadFinished, Goto
  <2>6. CASE PushSentinel(t)
    <3>1. loc[t].left - 1 \in Nat
      BY <1>0, <2>1, <2>6 DEF PushSentinel, HoldsRight
    <3>2. /\ pc' = [pc EXCEPT ![t] = IF loc[t].left = 1 THEN "done" ELSE "signal"]
          /\ loc' = [loc EXCEPT ![t] = [loc[t] EXCEPT !.left = loc[t].left - 1]]
      BY <2>1, <2>6 DEF PushSentinel, Goto
    <3> QED BY <3>1, <3>2
  <2> QED BY <2>3, <2>4, <2>5, <2>6 DEF Finish
<1> DEFINE v == [loc[t] EXCEPT !.left = n]
<1>2. v \in LocType /\ v.in = loc[t].in /\ v.out = loc[t].out /\ v.off = loc[t].off
  BY <1>0, LocUpdate
<1>3. loc' = [loc EXCEPT ![t] = v]
  BY <1>1
<1> HIDE DEF v
<1>4. ThreadStep(t, s, v)
  BY <1>1, <1>2, <1>3 DEF ThreadStep, PCs
<1>5. KeepRight(t, s, v, content)
  BY <1>0, <1>2 DEF KeepRight, After
<1>6. SameReach(t, s, v) /\ SameUnread(t, s)
  BY <1>0, <1>2 DEF SameReach, SameUnread, ReadingAt, After
<1> QED BY <1>0, <1>4, <1>5, <1>6, PassStep

\* A free buffer is taken.
LEMMA PopFreeRows ==
  ASSUME PipelineInv, RowsInv, NEW t \in Threads, NEW from, NEW to, PopFree(t, from, to),
         \/ /\ Stage(t) = "read"
            /\ \/ from = "popFree" /\ to = IF Source = "parquet" THEN "readFile" ELSE "popPart"
               \/ from = "refill" /\ to = "readLines"
         \/ /\ Stage(t) = "deser"
            /\ \/ from = "popFree" /\ to \in {"popFirst", "undefined", "deserialize"}
               \/ from = "refill" /\ to = "deserialize"
         \/ Stage(t) = "comp" /\ from = "popFree" /\ to \in {"compress", "undefined"}
  PROVE  RowsStep
<1> DEFINE v == [loc[t] EXCEPT !.out = Front("free")]
<1>0. KeepRight(t, pc[t], loc[t], content)
      /\ (from = "popFree" => loc[t].off = 0) /\ pc[t] = from
      /\ UNCHANGED <<content, sent, cursor, partPtr>>
      /\ (t \in Readers <=> Stage(t) = "read") /\ (t \in Readers => pc[t] \in ReaderPCs)
  BY RowFacts, StepFacts, ThreadFacts DEF PopFree
<1>1. /\ v \in LocType /\ v.in = loc[t].in /\ v.off = loc[t].off
      /\ v.out \in Buffers /\ content[v.out] = <<>>
  BY FreeTaken
<1>2. pc' = [pc EXCEPT ![t] = to] /\ loc' = [loc EXCEPT ![t] = v]
  BY StepFacts DEF PopFree, Goto
<1>3. to \in {"readFile", "popPart", "readLines", "popFirst", "undefined", "deserialize", "compress"}
  OBVIOUS
<1> HIDE DEF v
<1>4. ThreadStep(t, to, v)
  BY <1>1, <1>2, <1>3 DEF ThreadStep, PCs
<1>5. KeepRight(t, to, v, content)
  <2>1. Len(content[v.out]) = 0 /\ LinesPerBuffer > 0
    BY <1>1, SizesAssumption
  <2>2. loc[t].off > 0 => Stage(t) = "deser" /\ to = "deserialize"
    BY <1>0 DEF KeepRight
  <2> QED BY <1>0, <1>1, <1>3, <2>1, <2>2 DEF KeepRight, After
<1>6. SameReach(t, to, v)
  BY <1>0, <1>1, <1>3 DEF SameReach
<1>7. SameUnread(t, to)
  BY <1>0, <1>3 DEF SameUnread, ReadingAt, After, ReaderPCs, Parquet
<1> QED BY <1>0, <1>4, <1>5, <1>6, <1>7, PassStep

\* The buffer written is handed on.
LEMMA PushOutRows ==
  ASSUME PipelineInv, RowsInv, NEW t \in Threads, NEW from, NEW to, PushOut(t, from, to),
         \/ Stage(t) = "read" /\ from = "pushFile" /\ to = "openFile"
         \/ Stage(t) \in {"read", "deser"} /\ from = "pushFull" /\ to = "refill"
         \/ Stage(t) \in {"read", "deser"} /\ from = "pushLast" /\ to = "fetchAdd"
  PROVE  RowsStep
<1> DEFINE v == [loc[t] EXCEPT !.out = NoBuffer]
<1>0. KeepRight(t, pc[t], loc[t], content) /\ pc[t] = from /\ NoBuffer \notin Buffers
      /\ (from # "pushFull" => loc[t].off = 0)
      /\ UNCHANGED <<content, sent, cursor, partPtr>>
      /\ (t \in Readers <=> Stage(t) = "read") /\ (t \in Readers => pc[t] \in ReaderPCs)
  BY RowFacts, StepFacts, ThreadFacts DEF PushOut
<1>1. v \in LocType /\ v.in = loc[t].in /\ v.off = loc[t].off /\ v.out = NoBuffer
  BY RowFacts, LocUpdate
<1>2. pc' = [pc EXCEPT ![t] = to] /\ loc' = [loc EXCEPT ![t] = v]
  BY StepFacts DEF PushOut, Goto
<1> HIDE DEF v
<1>4. ThreadStep(t, to, v)
  BY <1>1, <1>2 DEF ThreadStep, PCs
<1>5. KeepRight(t, to, v, content)
  BY <1>0, <1>1 DEF KeepRight, After
<1>6. SameReach(t, to, v)
  BY <1>0, <1>1 DEF SameReach
<1>7. SameUnread(t, to)
  BY <1>0 DEF SameUnread, ReadingAt, After, ReaderPCs
<1> QED BY <1>0, <1>4, <1>5, <1>6, <1>7, PassStep

\* A buffer is passed on unchanged.
LEMMA ForwardRows ==
  ASSUME PipelineInv, RowsInv, NEW t \in Threads, Stage(t) \in {"deser", "comp"}, Forward(t)
  PROVE  RowsStep
<1> DEFINE v == [loc[t] EXCEPT !.in = NoBuffer]
<1>0. KeepRight(t, pc[t], loc[t], content) /\ pc[t] = "forward" /\ loc[t].off = 0 /\ NoBuffer \notin Buffers
      /\ UNCHANGED <<content, sent, cursor, partPtr>> /\ t \notin Readers
  BY RowFacts, ThreadFacts DEF Forward
<1>1. v \in LocType /\ v.in = NoBuffer /\ v.off = 0 /\ v.out = loc[t].out
  BY <1>0, RowFacts, LocUpdate
<1>2. pc' = [pc EXCEPT ![t] = "pop"] /\ loc' = [loc EXCEPT ![t] = v]
  BY StepFacts DEF Forward, Goto
<1> HIDE DEF v
<1>4. ThreadStep(t, "pop", v)
  BY <1>1, <1>2 DEF ThreadStep, PCs
<1>5. KeepRight(t, "pop", v, content)
  BY <1>0, <1>1 DEF KeepRight, After
<1>6. SameReach(t, "pop", v) /\ SameUnread(t, "pop")
  BY <1>0, <1>1 DEF SameReach, Clear, SameUnread
<1> QED BY <1>0, <1>4, <1>5, <1>6, PassStep

\* A buffer or a sentinel is popped.
LEMMA PopInRows ==
  ASSUME PipelineInv, RowsInv, NEW t \in Threads, NEW to, NEW end, PopIn(t, to, end),
         \/ Stage(t) = "deser" /\ to = "forward" /\ end = "fetchAdd"
         \/ Stage(t) = "comp" /\ to \in {"popFree", "forward"} /\ end = "fetchAdd"
         \/ Stage(t) = "send" /\ to = "write" /\ end = "done"
  PROVE  RowsStep
<1> DEFINE v == [loc[t] EXCEPT !.in = Front(Stage(t))]
<1>0. /\ KeepRight(t, pc[t], loc[t], content) /\ HoldsRight(t, pc[t], loc[t]) /\ loc[t] \in LocType
      /\ pc[t] = "pop" /\ loc[t].off = 0 /\ NoBuffer \notin Buffers
      /\ UNCHANGED <<content, sent, cursor, partPtr>> /\ t \notin Readers
      /\ Take(Stage(t)) /\ Stage(t) \in QueueNames
  BY RowFacts, ThreadFacts DEF PopIn, QueueNames
<1>1. loc[t].in = NoBuffer /\ loc[t].out = NoBuffer
  BY <1>0 DEF HoldsRight, InEmpty, OutEmpty, KeepRight
<1>2. CASE Front(Stage(t)) = Sentinel
  <2>1. Goto(t, end) /\ loc' = loc
    BY <1>2 DEF PopIn
  <2>2. KeepRight(t, end, loc[t], content)
    BY <1>0, <1>1 DEF KeepRight, After
  <2>3. SameUnread(t, end) /\ end \in PCs /\ end # "release"
    BY <1>0 DEF SameUnread, PCs
  <2> QED BY <1>0, <2>1, <2>2, <2>3, GotoRows
<1>3. CASE Front(Stage(t)) # Sentinel
  <2>1. pc' = [pc EXCEPT ![t] = to] /\ loc' = [loc EXCEPT ![t] = v]
    BY <1>3, StepFacts DEF PopIn, Goto
  <2>2. Front(Stage(t)) \in Buffers
    BY <1>0, <1>3, FrontType
  <2>3. v \in LocType /\ v.in = Front(Stage(t)) /\ v.out = NoBuffer /\ v.off = 0
    BY <1>0, <1>1, <2>2, LocUpdate
  <2> HIDE DEF v
  <2>4. ThreadStep(t, to, v)
    BY <2>1, <2>3 DEF ThreadStep, PCs
  <2>5. KeepRight(t, to, v, content)
    BY <1>0, <2>3 DEF KeepRight, After
  <2>6. SameReach(t, to, v) /\ SameUnread(t, to)
    BY <1>0, <2>3 DEF SameReach, Clear, SameUnread
  <2> QED BY <1>0, <2>4, <2>5, <2>6, PassStep
<1> QED BY <1>2, <1>3

\* A deserializer takes its first buffer.
LEMMA PopFirstRows ==
  ASSUME PipelineInv, RowsInv, NEW d \in Threads, Stage(d) = "deser", PopFirst(d)
  PROVE  RowsStep
<1> DEFINE b == IF Front("deser") = Sentinel THEN NoBuffer ELSE Front("deser")
           v == [loc[d] EXCEPT !.in = b]
           s == CASE Source = "parquet" -> "popFree"
                  [] Source # "parquet" /\ Front("deser") = Sentinel -> "undefined"
                  [] OTHER -> "deserialize"
<1>0. /\ KeepRight(d, pc[d], loc[d], content) /\ loc[d] \in LocType
      /\ pc[d] = "popFirst" /\ loc[d].off = 0 /\ NoBuffer \notin Buffers
      /\ UNCHANGED <<content, sent, cursor, partPtr>> /\ d \notin Readers
      /\ Take("deser")
  BY RowFacts, ThreadFacts DEF PopFirst
<1>1. pc' = [pc EXCEPT ![d] = s] /\ loc' = [loc EXCEPT ![d] = v]
  BY StepFacts DEF PopFirst, Goto
<1>2. b \in Buffers \cup {NoBuffer}
  BY <1>0, FrontType DEF QueueNames
<1>3. s \in {"popFree", "undefined", "deserialize"}
  OBVIOUS
<1> HIDE DEF b, s
<1>4. v \in LocType /\ v.in = b /\ v.out = loc[d].out /\ v.off = 0
  BY <1>0, <1>2, LocUpdate
<1> HIDE DEF v
<1>5. ThreadStep(d, s, v)
  BY <1>1, <1>3, <1>4 DEF ThreadStep, PCs
<1>6. KeepRight(d, s, v, content)
  BY <1>0, <1>3, <1>4 DEF KeepRight, After
<1>7. SameReach(d, s, v) /\ SameUnread(d, s)
  BY <1>0, <1>3, <1>4 DEF SameReach, Clear, SameUnread
<1> QED BY <1>0, <1>5, <1>6, <1>7, PassStep

\* A deserializer takes its next buffer, or the sentinel.
LEMMA PopNextRows ==
  ASSUME PipelineInv, RowsInv, NEW d \in Threads, Stage(d) = "deser", PopNext(d)
  PROVE  RowsStep
<1> DEFINE v == [loc[d] EXCEPT !.in = Front("deser")]
           end == IF content[loc[d].out] = <<>> THEN "fetchAdd" ELSE "pushLast"
<1>0. /\ KeepRight(d, pc[d], loc[d], content) /\ HoldsRight(d, pc[d], loc[d]) /\ loc[d] \in LocType
      /\ pc[d] = "popNext" /\ loc[d].off = 0 /\ NoBuffer \notin Buffers
      /\ UNCHANGED <<content, sent, cursor, partPtr>> /\ d \notin Readers
      /\ Take("deser")
  BY RowFacts, ThreadFacts DEF PopNext
<1>1. loc[d].in = NoBuffer
  BY <1>0 DEF HoldsRight, InEmpty
<1>2. CASE Front("deser") = Sentinel
  <2>1. Goto(d, end) /\ loc' = loc
    BY <1>2 DEF PopNext
  <2>2. end \in {"fetchAdd", "pushLast"} /\ (end = "fetchAdd" => content[loc[d].out] = <<>>)
    OBVIOUS
  <2> HIDE DEF end
  <2>3. KeepRight(d, end, loc[d], content)
    BY <1>0, <1>1, <2>2 DEF KeepRight, After
  <2>4. SameUnread(d, end) /\ end \in PCs /\ end # "release"
    BY <1>0, <2>2 DEF SameUnread, PCs
  <2> QED BY <1>0, <2>1, <2>3, <2>4, GotoRows
<1>3. CASE Front("deser") # Sentinel
  <2>1. pc' = [pc EXCEPT ![d] = "deserialize"] /\ loc' = [loc EXCEPT ![d] = v]
    BY <1>3, StepFacts DEF PopNext, Goto
  <2>2. Front("deser") \in Buffers
    BY <1>0, <1>3, FrontType DEF QueueNames
  <2>3. v \in LocType /\ v.in = Front("deser") /\ v.out = loc[d].out /\ v.off = 0
    BY <1>0, <2>2, LocUpdate
  <2> HIDE DEF v
  <2>4. ThreadStep(d, "deserialize", v)
    BY <2>1, <2>3 DEF ThreadStep, PCs
  <2>5. KeepRight(d, "deserialize", v, content)
    BY <1>0, <2>3 DEF KeepRight, After
  <2>6. SameReach(d, "deserialize", v) /\ SameUnread(d, "deserialize")
    BY <1>0, <2>3 DEF SameReach, Clear, SameUnread
  <2> QED BY <1>0, <2>4, <2>5, <2>6, PassStep
<1> QED BY <1>2, <1>3

\* readCSV cannot open its file.
LEMMA OpenFailsRows ==
  ASSUME PipelineInv, RowsInv, NEW r \in Threads, Stage(r) = "read", OpenFails(r)
  PROVE  RowsStep
<1>0. /\ KeepRight(r, pc[r], loc[r], content) /\ pc[r] = "popFree" /\ Goto(r, "failed") /\ ~Parquet
      /\ UNCHANGED <<loc, content, sent, cursor, partPtr>> /\ loc[r].off = 0
  BY RowFacts DEF OpenFails, Parquet
<1>1. KeepRight(r, "failed", loc[r], content)
  BY <1>0 DEF KeepRight, After
<1>2. SameUnread(r, "failed")
  BY <1>0 DEF SameUnread, ReadingAt, After
<1> QED BY <1>0, <1>1, <1>2, GotoRows DEF PCs

\* readPQ has no more files to read in its partition, or goes on to the next one.
LEMMA OpenFileRows ==
  ASSUME PipelineInv, RowsInv, NEW r \in Threads, Stage(r) = "read", OpenFile(r), ~Throw
  PROVE  RowsStep
<1> DEFINE line == cursor[r].line
           part == cursor[r].part
           s == IF line < EndOff(part) THEN "popFree" ELSE "popPart"
<1>0. /\ KeepRight(r, pc[r], loc[r], content) /\ pc[r] = "openFile" /\ r \in Readers /\ Parquet
      /\ loc[r].off = 0
  BY RowFacts, StepFacts, ThreadFacts DEF OpenFile, ReaderPCs
<1>1. Goto(r, s) /\ UNCHANGED <<loc, content, sent, cursor, partPtr>>
  BY DEF OpenFile
<1>2. KeepRight(r, s, loc[r], content)
  BY <1>0 DEF KeepRight, After, Parquet
<1>3. CASE line < EndOff(part)
  <2>1. SameUnread(r, s)
    BY <1>0, <1>3 DEF SameUnread, ReadingAt, After
  <2> QED BY <1>0, <1>1, <1>2, <2>1, GotoRows DEF PCs
<1>4. CASE ~(line < EndOff(part))
  <2>1. part \in 0..(PartNum - 1) /\ line \in Nat
    BY <1>0, StepFacts DEF RowsInv, ReadersInv, CursorKept, Reading, ReadingAt, CursorType
  <2> DEFINE m == Least(EndOff(part), NumFiles)
  <2>2. m \in Nat /\ m <= line /\ LinesPerBuffer \in Nat
    BY <1>4, <2>1, Offsets DEF Least
  <2> HIDE DEF m
  <2>3. m * LinesPerBuffer <= line * LinesPerBuffer /\ m * LinesPerBuffer \in Nat /\ line * LinesPerBuffer \in Nat
    BY <2>1, <2>2, ProductOrder, ProductNat
  <2>4. RestOf(cursor[r]) = (line * LinesPerBuffer + 1)..(m * LinesPerBuffer)
    BY <1>0 DEF RestOf, m
  <2> DEFINE x == line * LinesPerBuffer
             y == m * LinesPerBuffer
  <2>5. RestOf(cursor[r]) = (x + 1)..y /\ x \in Nat /\ y \in Nat /\ y <= x
    BY <2>3, <2>4
  <2> HIDE DEF x, y
  <2>6. RestOf(cursor[r]) = {}
    BY <2>5
  <2>7. SameUnread(r, s)
    BY <1>0, <1>4, <2>6 DEF SameUnread, ReadingAt, After
  <2> QED BY <1>0, <1>1, <1>2, <1>4, <2>7, GotoRows DEF PCs
<1> QED BY <1>3, <1>4

\* What the main thread does, and an exception, moves no row.
LEMMA ServeRows ==
  ASSUME RowsInv, UNCHANGED <<pc, loc, content, sent, cursor, partPtr>>
  PROVE  RowsStep
<1>1. Queued' = Queued
  BY DEF Queued
<1>2. \A r \in Readers : Reading(r)' = Reading(r)
  BY DEF Reading
<1>3. Unread' = Unread
  BY <1>1, <1>2 DEF Unread
<1>4. KeepInv'
  BY DEF RowsInv, KeepInv, KeepRight
<1>5. ReadersInv'
  BY <1>1, <1>2 DEF RowsInv, ReadersInv, PartsInv, CursorKept
<1> QED BY <1>3, <1>4, <1>5 DEF RowsStep, RowsInv, Kept

-----------------------------------------------------------------------------
(* Steps that move rows. *)

\* The live places of a buffer that thread t has, before its step.
LEMMA LiveBefore ==
  ASSUME PipelineInv, NEW t \in Threads, NEW b \in Buffers, loc[t].in = b \/ loc[t].out = b, NEW i \in Nat
  PROVE  Live(pc, loc, content, b, i) <=>
           i \in 1..Len(content[b]) /\ (loc[t].in = b => pc[t] # "release" /\ i > loc[t].off)
<1>1. loc \in [Threads -> LocType] /\ QueueTypes /\ PlaceInv
  BY StepFacts
<1>2. \A u \in Threads : u # t => loc[u].in # b
  BY <1>1, HeldApart
<1> QED BY <1>2 DEF Live

\* The live places of a buffer that t had, after its step.
LEMMA LiveAfter ==
  ASSUME PipelineInv, NEW t \in Threads, NEW s, NEW v, ThreadStep(t, s, v),
         NEW b \in Buffers, loc[t].in = b \/ loc[t].out = b, NEW i \in Nat
  PROVE  Live(pc', loc', content', b, i) <=>
           i \in 1..Len(content'[b]) /\ (v.in = b => s # "release" /\ i > v.off)
<1>1. pc \in [Threads -> PCs] /\ loc \in [Threads -> LocType] /\ QueueTypes /\ PlaceInv
  BY StepFacts
<1>2. \A u \in Threads : u # t => loc[u].in # b
  BY <1>1, HeldApart
<1>3. /\ pc'[t] = s /\ loc'[t] = v
      /\ \A u \in Threads : u # t => pc'[u] = pc[u] /\ loc'[u] = loc[u]
  BY <1>1 DEF ThreadStep
<1> QED BY <1>2, <1>3 DEF Live

\* Those of a buffer that t neither reads nor takes stay what they were.
LEMMA LiveOther ==
  ASSUME PipelineInv, NEW t \in Threads, NEW s, NEW v, ThreadStep(t, s, v),
         NEW b \in Buffers, loc[t].in # b, v.in # b, content'[b] = content[b], NEW i \in Nat
  PROVE  Live(pc', loc', content', b, i) <=> Live(pc, loc, content, b, i)
<1>1. pc \in [Threads -> PCs] /\ loc \in [Threads -> LocType]
  BY StepFacts
<1>3. /\ pc'[t] = s /\ loc'[t] = v
      /\ \A u \in Threads : u # t => pc'[u] = pc[u] /\ loc'[u] = loc[u]
  BY <1>1 DEF ThreadStep
<1> QED BY <1>3 DEF Live

\* The parts of the invariant, for a step that takes no partition and reads nothing.
LEMMA RowsCombine ==
  ASSUME PipelineInv, RowsInv, NEW t \in Threads, NEW s, NEW v, ThreadStep(t, s, v), OwnBuffersOnly(t),
         UNCHANGED <<cursor, partPtr>>, KeepRight(t, s, v, content'), SameUnread(t, s),
         Apart(pc', loc', content', sent', Unread),
         Lossless /\ Kept => Found(pc', loc', content', sent', Unread)
  PROVE  RowsStep
<1>1. KeepInv'
  BY KeepStep DEF RowsInv
<1>2. ReadersInv' /\ Unread' = Unread
  BY ReadersSame DEF RowsInv, ThreadStep
<1> QED BY <1>1, <1>2 DEF RowsStep, RowsInv, Kept

\* A buffer returns to the free queue.
LEMMA ReleaseInRows ==
  ASSUME PipelineInv, RowsInv, NEW t \in Threads, NEW to, ReleaseIn(t, to),
         \/ Stage(t) = "deser" /\ to = "popNext"
         \/ Stage(t) \in {"comp", "send"} /\ to = "pop"
  PROVE  RowsStep
<1> DEFINE w == [loc[t] EXCEPT !.in = NoBuffer]
           v == [w EXCEPT !.off = 0]
           a == loc[t].in
<1>0. /\ KeepRight(t, pc[t], loc[t], content) /\ HoldsRight(t, pc[t], loc[t]) /\ loc[t] \in LocType
      /\ pc[t] = "release" /\ NoBuffer \notin Buffers /\ UNCHANGED <<sent, cursor, partPtr>> /\ t \notin Readers
      /\ content \in [Buffers -> Seq(Rows)] /\ loc \in [Threads -> LocType] /\ QueueTypes /\ PlaceInv
  BY RowFacts, StepFacts, ThreadFacts DEF ReleaseIn
<1>1. /\ pc' = [pc EXCEPT ![t] = to] /\ loc' = [loc EXCEPT ![t] = v]
      /\ content' = [content EXCEPT ![a] = <<>>]
  BY <1>0 DEF ReleaseIn, Goto
<1>2. v \in LocType /\ v.in = NoBuffer /\ v.out = loc[t].out /\ v.off = 0
  <2>1. w \in LocType /\ w.in = NoBuffer /\ w.out = loc[t].out
    BY <1>0, LocUpdate
  <2> HIDE DEF w
  <2> QED BY <2>1, LocUpdate
<1>3. a \in Buffers
  BY <1>0 DEF HoldsRight, InFull
<1>4. v.out \in Buffers => v.out # a
  BY <1>0, <1>2, <1>3, HeldApart
<1> HIDE DEF v, w
<1>5. content'[a] = <<>> /\ (\A b \in Buffers : b # a => content'[b] = content[b]) /\ OwnBuffersOnly(t)
  <2>1. <<>> \in Seq(Rows)
    OBVIOUS
  <2>2. content' \in [Buffers -> Seq(Rows)]
    BY <1>0, <1>1, <2>1
  <2> QED BY <1>0, <1>1, <1>3, <2>2 DEF OwnBuffersOnly
<1>6. ThreadStep(t, to, v)
  BY <1>1, <1>2 DEF ThreadStep, PCs
<1>7. KeepRight(t, to, v, content')
  BY <1>0, <1>2, <1>4, <1>5 DEF KeepRight, After
<1>8. SameUnread(t, to)
  BY <1>0 DEF SameUnread
<1>9. ASSUME NEW b \in Buffers, NEW i \in Nat
      PROVE  /\ Live(pc', loc', content', b, i) <=> Live(pc, loc, content, b, i)
             /\ Live(pc, loc, content, b, i) => content'[b][i] = content[b][i]
  <2>1. CASE b = a
    <3>1. ~Live(pc, loc, content, b, i)
      BY <1>0, <2>1, LiveBefore
    <3>2. ~(i \in 1..Len(content'[b]))
      BY <1>5, <2>1
    <3>3. ~Live(pc', loc', content', b, i)
      BY <3>2 DEF Live
    <3> QED BY <3>1, <3>3
  <2>2. CASE b # a
    <3>1. content'[b] = content[b] /\ v.in # b
      BY <1>0, <1>2, <1>5, <2>2
    <3>2. Live(pc', loc', content', b, i) <=> Live(pc, loc, content, b, i)
      BY <1>6, <2>2, <3>1, LiveOther
    <3> QED BY <3>1, <3>2
  <2> QED BY <2>1, <2>2
<1>10. /\ Apart(pc', loc', content', sent', Unread)
       /\ Kept => Found(pc', loc', content', sent', Unread)
  <2> DEFINE P2 == pc'
             L2 == loc'
             c2 == content'
  <2>1. \A b \in Buffers, i \in Nat : /\ Live(P2, L2, c2, b, i) <=> Live(pc, loc, content, b, i)
                                      /\ Live(pc, loc, content, b, i) => c2[b][i] = content[b][i]
    BY <1>9
  <2>2. Apart(pc, loc, content, sent, Unread) /\ sent' = sent
    BY <1>0 DEF RowsInv
  <2> HIDE DEF P2, L2, c2
  <2>3. /\ Apart(P2, L2, c2, sent, Unread)
        /\ Found(pc, loc, content, sent, Unread) => Found(P2, L2, c2, sent, Unread)
    BY <2>1, <2>2, PlacesSame
  <2> QED BY <2>2, <2>3 DEF P2, L2, c2, Kept
<1> QED BY <1>0, <1>5, <1>6, <1>7, <1>8, <1>10, RowsCombine

\* The buffer read goes to the senders, and the one that was to be written takes
\* its place.
LEMMA PushUncompressedRows ==
  ASSUME PipelineInv, RowsInv, NEW t \in Threads, Stage(t) = "comp", PushUncompressed(t)
  PROVE  RowsStep
<1> DEFINE a == loc[t].in
           b == loc[t].out
           w == [loc[t] EXCEPT !.in = b]
           v == [w EXCEPT !.out = NoBuffer]
<1>0. /\ KeepRight(t, pc[t], loc[t], content) /\ HoldsRight(t, pc[t], loc[t]) /\ loc[t] \in LocType
      /\ pc[t] = "compress" /\ NoBuffer \notin Buffers /\ t \notin Readers /\ loc[t].off = 0
      /\ content' = content /\ UNCHANGED <<sent, cursor, partPtr>>
      /\ content \in [Buffers -> Seq(Rows)] /\ loc \in [Threads -> LocType] /\ QueueTypes /\ PlaceInv
  BY RowFacts, StepFacts, ThreadFacts DEF PushUncompressed
<1>1. pc' = [pc EXCEPT ![t] = "release"] /\ loc' = [loc EXCEPT ![t] = v]
  BY <1>0 DEF PushUncompressed, Goto
<1>2. a \in Buffers /\ b \in Buffers /\ a # b
  <2>1. a \in Buffers /\ b \in Buffers
    BY <1>0 DEF HoldsRight, InFull, OutFull
  <2> QED BY <1>0, <2>1, HeldApart
<1>3. v \in LocType /\ v.in = b /\ v.out = NoBuffer /\ v.off = 0
  <2>1. w \in LocType /\ w.in = b /\ w.off = 0
    BY <1>0, <1>2, LocUpdate
  <2> HIDE DEF w
  <2>2. NoBuffer \in Buffers \cup {NoBuffer}
    OBVIOUS
  <2> QED BY <2>1, <2>2, LocUpdate
<1> HIDE DEF v, w
<1>4. content[b] = <<>>
  BY <1>0, <1>2 DEF KeepRight
<1>5. ThreadStep(t, "release", v)
  BY <1>1, <1>3 DEF ThreadStep, PCs
<1>6. KeepRight(t, "release", v, content') /\ SameUnread(t, "release") /\ OwnBuffersOnly(t)
  BY <1>0, <1>3 DEF KeepRight, After, SameUnread, OwnBuffersOnly
<1>7. ASSUME NEW d \in Buffers, NEW i \in Nat
      PROVE  Live(pc', loc', content', d, i) <=> Live(pc, loc, content, d, i)
  <2>1. CASE d = a
    <3>1. Live(pc, loc, content, d, i) <=> i \in 1..Len(content[d]) /\ i > 0
      BY <1>0, <2>1, LiveBefore
    <3>2. Live(pc', loc', content', d, i) <=> i \in 1..Len(content[d])
      BY <1>0, <1>2, <1>3, <1>5, <2>1, LiveAfter
    <3> QED BY <3>1, <3>2
  <2>2. CASE d = b
    <3>1. ~(i \in 1..Len(content[d])) /\ content'[d] = content[d]
      BY <1>0, <1>4, <2>2
    <3> QED BY <3>1 DEF Live
  <2>3. CASE d # a /\ d # b
    BY <1>0, <1>3, <1>5, <2>3, LiveOther
  <2> QED BY <2>1, <2>2, <2>3
<1>8. /\ Apart(pc', loc', content', sent', Unread)
      /\ Kept => Found(pc', loc', content', sent', Unread)
  <2> DEFINE P2 == pc'
             L2 == loc'
             c2 == content'
  <2>1. \A d \in Buffers, i \in Nat : Live(P2, L2, c2, d, i) <=> Live(pc, loc, content, d, i)
    BY <1>7
  <2>2. Apart(pc, loc, content, sent, Unread) /\ sent' = sent /\ c2 = content
    BY <1>0 DEF RowsInv
  <2> HIDE DEF P2, L2, c2
  <2>3. /\ Apart(P2, L2, c2, sent, Unread)
        /\ Found(pc, loc, content, sent, Unread) => Found(P2, L2, c2, sent, Unread)
    BY <2>1, <2>2, PlacesSame
  <2> QED BY <2>2, <2>3 DEF P2, L2, c2, Kept
<1> QED BY <1>0, <1>5, <1>6, <1>8, RowsCombine

\* The encoded buffer goes to the senders: with the rows, or without them.
LEMMA PushEncodedRows ==
  ASSUME PipelineInv, RowsInv, NEW t \in Threads, Stage(t) = "comp", PushCompressed(t) \/ PushIneffective(t)
  PROVE  RowsStep
<1> DEFINE a == loc[t].in
           b == loc[t].out
           v == [loc[t] EXCEPT !.out = NoBuffer]
<1>0. /\ KeepRight(t, pc[t], loc[t], content) /\ HoldsRight(t, pc[t], loc[t]) /\ loc[t] \in LocType
      /\ pc[t] = "compress" /\ NoBuffer \notin Buffers /\ t \notin Readers /\ loc[t].off = 0
      /\ UNCHANGED <<sent, cursor, partPtr>>
      /\ content \in [Buffers -> Seq(Rows)] /\ loc \in [Threads -> LocType] /\ QueueTypes /\ PlaceInv
  BY RowFacts, StepFacts, ThreadFacts DEF PushCompressed, PushIneffective
<1>1. pc' = [pc EXCEPT ![t] = "release"] /\ loc' = [loc EXCEPT ![t] = v]
  BY <1>0 DEF PushCompressed, PushIneffective, Goto
<1>2. a \in Buffers /\ b \in Buffers /\ a # b
  <2>1. a \in Buffers /\ b \in Buffers
    BY <1>0 DEF HoldsRight, InFull, OutFull
  <2> QED BY <1>0, <2>1, HeldApart
<1>3. v \in LocType /\ v.in = a /\ v.out = NoBuffer /\ v.off = 0
  <2>1. NoBuffer \in Buffers \cup {NoBuffer}
    OBVIOUS
  <2> QED BY <1>0, <2>1, LocUpdate
<1> HIDE DEF v
<1>4. content[b] = <<>> /\ content[a] \in Seq(Rows) /\ Len(content[a]) \in Nat
  BY <1>0, <1>2 DEF KeepRight
<1>5. ThreadStep(t, "release", v)
  BY <1>1, <1>3 DEF ThreadStep, PCs
<1>6. \A c : KeepRight(t, "release", v, c)
  BY <1>0, <1>3 DEF KeepRight, After
<1>7. SameUnread(t, "release")
  BY <1>0 DEF SameUnread
<1>8. \A i \in Nat : ~Live(pc', loc', content', a, i)
  BY <1>2, <1>3, <1>5, LiveAfter
<1>9. CASE PushIneffective(t)
  <2>1. content' = content /\ ~Lossless /\ sent' = sent
    BY <1>9 DEF PushIneffective, Lossless
  <2>2. OwnBuffersOnly(t)
    BY <1>0, <2>1 DEF OwnBuffersOnly
  <2>3. ASSUME NEW d \in Buffers, NEW i \in Nat, Live(pc', loc', content', d, i)
        PROVE  Live(pc, loc, content, d, i)
    <3>1. d # a
      BY <1>8, <2>3
    <3> QED BY <1>3, <1>5, <2>1, <2>3, <3>1, LiveOther
  <2>4. Apart(pc', loc', content', sent', Unread)
    <3> DEFINE P2 == pc'
               L2 == loc'
               c2 == content'
    <3>1. \A d \in Buffers, i \in Nat : Live(P2, L2, c2, d, i) => Live(pc, loc, content, d, i)
      BY <2>3
    <3>2. Apart(pc, loc, content, sent, Unread) /\ c2 = content
      BY <2>1 DEF RowsInv
    <3> HIDE DEF P2, L2, c2
    <3>3. Apart(P2, L2, c2, sent, Unread)
      BY <3>1, <3>2, PlacesSame
    <3> QED BY <2>1, <3>3 DEF P2, L2, c2
  <2> QED BY <1>0, <1>5, <1>6, <1>7, <2>1, <2>2, <2>4, RowsCombine
<1>10. CASE PushCompressed(t)
  <2>1. content' = [content EXCEPT ![b] = content[a]] /\ sent' = sent
    BY <1>10 DEF PushCompressed
  <2>2. /\ content' \in [Buffers -> Seq(Rows)] /\ content'[b] = content[a]
        /\ \A d \in Buffers : d # b => content'[d] = content[d]
    <3> HIDE DEF a, b
    <3> QED BY <1>0, <1>2, <1>4, <2>1
  <2>3. OwnBuffersOnly(t)
    BY <2>2 DEF OwnBuffersOnly
  <2>4. \A i \in Nat : Live(pc, loc, content, a, i) <=> i \in 1..Len(content[a])
    <3> SUFFICES ASSUME NEW i \in Nat PROVE Live(pc, loc, content, a, i) <=> i \in 1..Len(content[a])
      OBVIOUS
    <3>1. Live(pc, loc, content, a, i) <=> i \in 1..Len(content[a]) /\ i > 0
      BY <1>0, <1>2, LiveBefore
    <3> QED BY <3>1
  <2>5. \A i \in Nat : ~Live(pc, loc, content, b, i)
    BY <1>4 DEF Live
  <2>6. \A i \in Nat : Live(pc', loc', content', b, i) <=> i \in 1..Len(content[a])
    BY <1>2, <1>3, <1>5, <2>2, LiveAfter
  <2>7. \A d \in Buffers, i \in Nat : d # a /\ d # b =>
           (Live(pc', loc', content', d, i) <=> Live(pc, loc, content, d, i))
    BY <1>3, <1>5, <2>2, LiveOther
  <2>8. /\ Apart(pc', loc', content', sent', Unread)
        /\ Kept => Found(pc', loc', content', sent', Unread)
    <3> DEFINE P2 == pc'
               L2 == loc'
               c2 == content'
               n == Len(content[a])
               z == 0
    <3>1. /\ Apart(pc, loc, content, sent, Unread) /\ n \in Nat
          /\ \A i \in 1..n : c2[b][z + i] = content[a][z + i]
          /\ \A i \in 1..n : Live(pc, loc, content, a, z + i)
      BY <1>4, <2>2, <2>4 DEF RowsInv
    <3>2. /\ \A i \in 1..z : c2[b][i] = content[b][i]
          /\ \A i \in Nat : Live(pc, loc, content, b, i) <=> i \in 1..z
      BY <2>5
    <3>3. \A i \in Nat : Live(P2, L2, c2, b, i) <=> i \in 1..(z + n)
      BY <2>6, <3>1
    <3>4. /\ \A d \in Buffers, i \in Nat : d # b =>
               (Live(P2, L2, c2, d, i) => Live(pc, loc, content, d, i) /\ c2[d][i] = content[d][i])
          /\ \A i \in 1..n : ~Live(P2, L2, c2, a, z + i)
      BY <1>8, <2>2, <2>7
    <3>5. \A d \in Buffers, i \in Nat : d # b /\ Live(pc, loc, content, d, i) =>
            \/ Live(P2, L2, c2, d, i) /\ c2[d][i] = content[d][i]
            \/ d = a /\ i - z \in 1..n
      BY <2>2, <2>4, <2>7
    <3>6. z \in Nat
      OBVIOUS
    <3> HIDE DEF P2, L2, c2, n, a, b, z
    <3>7. Moves(pc, loc, content, P2, L2, c2, a, b, z, z, n)
      BY <3>1, <3>2, <3>3, <3>4 DEF Moves
    <3>8. MovesAll(pc, loc, content, P2, L2, c2, a, b, z, n)
      BY <3>5 DEF MovesAll
    <3>9. /\ Apart(P2, L2, c2, sent, Unread)
          /\ Found(pc, loc, content, sent, Unread) => Found(P2, L2, c2, sent, Unread)
      BY <1>2, <3>1, <3>6, <3>7, <3>8, PlacesMove
    <3> QED BY <2>1, <3>9 DEF P2, L2, c2, Kept
  <2> QED BY <1>0, <1>5, <1>6, <1>7, <2>3, <2>8, RowsCombine
<1> QED BY <1>9, <1>10

\* The rows that move.
LEMMA SubSeqElements ==
  ASSUME NEW S, NEW rows \in Seq(S), NEW k \in Nat, NEW n \in Nat, k + n <= Len(rows)
  PROVE  \A i \in 1..n : SubSeq(rows, k + 1, k + n)[i] = rows[k + i]
<1>1. ASSUME NEW i \in 1..n PROVE SubSeq(rows, k + 1, k + n)[i] = rows[k + i]
  <2>1. i \in 1..((k + n) - (k + 1) + 1) /\ (k + 1) + i - 1 = k + i
    OBVIOUS
  <2> QED BY <2>1
<1> QED BY <1>1

\* The rows of a buffer that has been appended to.
LEMMA ConcatElements ==
  ASSUME NEW S, NEW rows \in Seq(S), NEW more \in Seq(S)
  PROVE  /\ \A i \in 1..Len(rows) : (rows \o more)[i] = rows[i]
         /\ \A i \in 1..Len(more) : (rows \o more)[Len(rows) + i] = more[i]
OBVIOUS

\* If there is room left to write, all has been read.
LEMMA LeastUsed ==
  ASSUME NEW i \in Nat, NEW j \in Nat, NEW k \in Nat, NEW m \in Nat, i <= k, j <= m
  PROVE  j + Least(k - i, m - j) # m => i + Least(k - i, m - j) = k
BY DEF Least

\* A deserializer moves tuples.
LEMMA DeserializeRows ==
  ASSUME PipelineInv, RowsInv, NEW t \in Threads, Stage(t) = "deser", Deserialize(t)
  PROVE  RowsStep
<1> DEFINE a == loc[t].in
           b == loc[t].out
           k == loc[t].off
           h == Len(content[b])
           n == Least(Len(content[a]) - k, TuplesPerBuffer - h)
           rows == SubSeq(content[a], k + 1, k + n)
           v == [loc[t] EXCEPT !.off = @ + n]
           s == IF h + n = TuplesPerBuffer THEN "pushFull" ELSE "release"
<1>0. /\ KeepRight(t, pc[t], loc[t], content) /\ HoldsRight(t, pc[t], loc[t]) /\ loc[t] \in LocType
      /\ RoomRight(t, pc[t], loc[t], content) /\ k \in Nat
      /\ pc[t] = "deserialize" /\ NoBuffer \notin Buffers /\ t \notin Readers
      /\ UNCHANGED <<sent, cursor, partPtr>>
      /\ content \in [Buffers -> Seq(Rows)] /\ loc \in [Threads -> LocType] /\ QueueTypes /\ PlaceInv
  BY RowFacts, StepFacts, ThreadFacts DEF Deserialize
<1>1. /\ pc' = [pc EXCEPT ![t] = s] /\ loc' = [loc EXCEPT ![t] = v]
      /\ content' = [content EXCEPT ![b] = @ \o rows]
  BY <1>0 DEF Deserialize, Goto
<1>2. a \in Buffers /\ b \in Buffers /\ a # b
  <2>1. a \in Buffers /\ b \in Buffers
    BY <1>0 DEF HoldsRight, InFull, OutFull
  <2> QED BY <1>0, <2>1, HeldApart
<1>3. /\ content[a] \in Seq(Rows) /\ content[b] \in Seq(Rows) /\ Len(content[a]) \in Nat /\ h \in Nat
      /\ k <= Len(content[a]) /\ h <= TuplesPerBuffer /\ TuplesPerBuffer \in Nat
  BY <1>0, <1>2, SizesAssumption DEF RoomRight
<1>4. n \in Nat /\ k + n <= Len(content[a]) /\ h + n <= TuplesPerBuffer
      /\ (h + n # TuplesPerBuffer => k + n = Len(content[a]))
  <2> DEFINE m == Len(content[a])
  <2>1. k \in Nat /\ h \in Nat /\ m \in Nat /\ TuplesPerBuffer \in Nat /\ k <= m /\ h <= TuplesPerBuffer
    BY <1>0, <1>3
  <2> HIDE DEF m, k, h
  <2>2. n \in Nat /\ k + n <= m /\ h + n <= TuplesPerBuffer
    BY <2>1, LeastFits DEF m
  <2>3. h + n # TuplesPerBuffer => k + n = m
    BY <2>1, LeastUsed DEF m
  <2> QED BY <2>2, <2>3 DEF m
<1> HIDE DEF n
<1>5. rows \in Seq(Rows) /\ Len(rows) = n /\ \A i \in 1..n : rows[i] = content[a][k + i]
  <2>1. k \in Nat
    BY <1>0
  <2>2. rows \in Seq(Rows) /\ Len(rows) = n
    BY <1>3, <1>4, <2>1, SubSeqRows
  <2>3. \A i \in 1..n : rows[i] = content[a][k + i]
    <3> DEFINE q == content[a]
    <3>1. q \in Seq(Rows) /\ k \in Nat /\ n \in Nat /\ k + n <= Len(q)
      BY <1>3, <1>4, <2>1
    <3> HIDE DEF q, k
    <3>2. \A i \in 1..n : SubSeq(q, k + 1, k + n)[i] = q[k + i]
      BY <3>1, SubSeqElements
    <3> QED BY <3>2 DEF q, rows
  <2> QED BY <2>2, <2>3
<1> HIDE DEF rows
<1>6. /\ content[b] \o rows \in Seq(Rows) /\ Len(content[b] \o rows) = h + n
      /\ \A i \in 1..h : (content[b] \o rows)[i] = content[b][i]
      /\ \A i \in 1..n : (content[b] \o rows)[h + i] = rows[i]
  <2>1. content[b] \o rows \in Seq(Rows) /\ Len(content[b] \o rows) = h + n
    BY <1>3, <1>5, AppendRows
  <2>2. /\ \A i \in 1..h : (content[b] \o rows)[i] = content[b][i]
        /\ \A i \in 1..Len(rows) : (content[b] \o rows)[h + i] = rows[i]
    BY <1>3, <1>5, ConcatElements
  <2> QED BY <1>5, <2>1, <2>2
<1>7. /\ content' \in [Buffers -> Seq(Rows)] /\ content'[b] = content[b] \o rows
      /\ \A d \in Buffers : d # b => content'[d] = content[d]
  <2> HIDE DEF b
  <2> QED BY <1>0, <1>1, <1>2, <1>6
<1>8. v \in LocType /\ v.in = a /\ v.out = b /\ v.off = k + n
  <2>1. k + n \in Nat /\ v = [loc[t] EXCEPT !.off = k + n]
    BY <1>0, <1>4 DEF LocType
  <2> QED BY <1>0, <2>1, LocUpdate
<1>9. /\ s \in PCs /\ s \in {"pushFull", "release"} /\ (s = "release" => k + n = Len(content[a]))
  BY <1>4 DEF PCs
<1> HIDE DEF v, s
<1>10. ThreadStep(t, s, v) /\ OwnBuffersOnly(t)
  BY <1>1, <1>7, <1>8, <1>9 DEF ThreadStep, OwnBuffersOnly
<1>11. KeepRight(t, s, v, content') /\ SameUnread(t, s)
  BY <1>0, <1>9 DEF KeepRight, After, SameUnread
<1>12. \A i \in Nat : Live(pc, loc, content, a, i) <=> i \in 1..Len(content[a]) /\ i > k
  BY <1>0, <1>2, LiveBefore
<1>13. \A i \in Nat : Live(pc, loc, content, b, i) <=> i \in 1..h
  BY <1>2, LiveBefore
<1>14. \A i \in Nat : Live(pc', loc', content', a, i) <=> i \in 1..Len(content[a]) /\ s # "release" /\ i > k + n
  BY <1>2, <1>7, <1>8, <1>10, LiveAfter
<1>15. \A i \in Nat : Live(pc', loc', content', b, i) <=> i \in 1..(h + n)
  BY <1>2, <1>6, <1>7, <1>8, <1>10, LiveAfter
<1>16. \A d \in Buffers, i \in Nat : d # a /\ d # b =>
         (Live(pc', loc', content', d, i) <=> Live(pc, loc, content, d, i))
  BY <1>7, <1>8, <1>10, LiveOther
<1>17. /\ Apart(pc', loc', content', sent', Unread)
       /\ Kept => Found(pc', loc', content', sent', Unread)
  <2> DEFINE P2 == pc'
             L2 == loc'
             c2 == content'
  <2>1. Apart(pc, loc, content, sent, Unread) /\ sent' = sent
    BY <1>0 DEF RowsInv
  <2>2. /\ \A i \in 1..n : c2[b][h + i] = content[a][k + i]
        /\ \A i \in 1..h : c2[b][i] = content[b][i]
    BY <1>5, <1>6, <1>7
  <2>3. /\ \A i \in 1..n : Live(pc, loc, content, a, k + i)
        /\ \A i \in 1..n : ~Live(P2, L2, c2, a, k + i)
    <3>1. \A i \in 1..n : k + i \in Nat /\ k + i \in 1..Len(content[a]) /\ k + i > k /\ ~(k + i > k + n)
      BY <1>0, <1>3, <1>4
    <3> QED BY <1>12, <1>14, <3>1
  <2>4. \A d \in Buffers, i \in Nat : d # b =>
          (Live(P2, L2, c2, d, i) => Live(pc, loc, content, d, i) /\ c2[d][i] = content[d][i])
    <3>1. \A i \in Nat : i > k + n => i > k
      BY <1>0, <1>4
    <3> QED BY <1>7, <1>12, <1>14, <1>16, <3>1
  <2>5. \A d \in Buffers, i \in Nat : d # b /\ Live(pc, loc, content, d, i) =>
          \/ Live(P2, L2, c2, d, i) /\ c2[d][i] = content[d][i]
          \/ d = a /\ i - k \in 1..n
    <3>1. ASSUME NEW i \in Nat, Live(pc, loc, content, a, i)
          PROVE  Live(P2, L2, c2, a, i) \/ i - k \in 1..n
      <4>1. i \in 1..Len(content[a]) /\ i > k
        BY <1>12, <3>1
      <4>2. CASE i > k + n
        <5>1. s # "release"
          BY <1>0, <1>3, <1>4, <1>9, <4>1, <4>2
        <5> QED BY <1>14, <4>1, <4>2, <5>1
      <4>3. CASE ~(i > k + n)
        BY <1>0, <1>4, <4>1, <4>3
      <4> QED BY <4>2, <4>3
    <3> QED BY <1>2, <1>7, <1>16, <3>1
  <2>6. /\ \A i \in Nat : Live(pc, loc, content, b, i) <=> i \in 1..h
        /\ \A i \in Nat : Live(P2, L2, c2, b, i) <=> i \in 1..(h + n)
    BY <1>13, <1>15
  <2> HIDE DEF P2, L2, c2, a, b, k, h
  <2>7. Moves(pc, loc, content, P2, L2, c2, a, b, k, h, n)
    BY <2>2, <2>3, <2>4, <2>6 DEF Moves
  <2>8. MovesAll(pc, loc, content, P2, L2, c2, a, b, k, n)
    BY <2>5 DEF MovesAll
  <2>9. /\ Apart(P2, L2, c2, sent, Unread)
        /\ Found(pc, loc, content, sent, Unread) => Found(P2, L2, c2, sent, Unread)
    BY <1>0, <1>2, <1>3, <1>4, <2>1, <2>7, <2>8, PlacesMove
  <2> QED BY <2>1, <2>9 DEF P2, L2, c2, Kept
<1> QED BY <1>0, <1>10, <1>11, <1>17, RowsCombine

\* A step of a sender.
LEMMA SendRows ==
  ASSUME PipelineInv, RowsInv, NEW t \in Threads, Stage(t) = "send", Send(t)
  PROVE  RowsStep
<1>0. /\ KeepRight(t, pc[t], loc[t], content) /\ HoldsRight(t, pc[t], loc[t]) /\ loc[t] \in LocType
      /\ NoBuffer \notin Buffers /\ t \notin Readers /\ loc[t].off = 0 /\ loc[t].out = NoBuffer
      /\ content \in [Buffers -> Seq(Rows)] /\ loc \in [Threads -> LocType] /\ sent \in [Rows -> Nat]
  BY RowFacts, StepFacts, ThreadFacts DEF RestTypes, KeepRight
<1>1. \A s : SameUnread(t, s) /\ (s \notin After \cup {"pop"} => KeepRight(t, s, loc[t], content))
  BY <1>0 DEF SameUnread, KeepRight
<1>2. CASE Bind(t)
  <2>1. pc[t] = "bind" /\ Goto(t, "accept") /\ UNCHANGED <<loc, content, sent, cursor, partPtr>>
    BY <1>2 DEF Bind
  <2> QED BY <1>1, <2>1, GotoRows DEF PCs, After
<1>3. CASE Accept(t)
  <2>1. pc[t] = "accept" /\ Goto(t, "pop") /\ UNCHANGED <<loc, content, sent, cursor, partPtr>>
    BY <1>3 DEF Accept
  <2>2. KeepRight(t, "pop", loc[t], content)
    BY <1>0 DEF KeepRight, After
  <2> QED BY <1>1, <2>1, <2>2, GotoRows DEF PCs
<1>4. CASE WriteFails(t)
  <2>1. pc[t] = "write" /\ Goto(t, "failed") /\ UNCHANGED <<loc, content, sent, cursor, partPtr>>
    BY <1>4 DEF WriteFails
  <2> QED BY <1>1, <2>1, GotoRows DEF PCs, After
<1>5. CASE Write(t)
  <2> DEFINE a == loc[t].in
  <2>0. PICK w \in Written(content[a]) : sent' = [r \in Rows |-> sent[r] + Occurrences(r, w)]
    BY <1>5 DEF Write
  <2>1. pc[t] = "write" /\ Goto(t, "release") /\ UNCHANGED <<loc, content, cursor, partPtr>>
    BY <1>5 DEF Write
  <2>2. a \in Buffers
    BY <1>0, <2>1 DEF HoldsRight, InFull
  <2>3. ThreadStep(t, "release", loc[t]) /\ OwnBuffersOnly(t)
    BY <1>0, <2>1 DEF ThreadStep, OwnBuffersOnly, Goto, PCs
  <2>4. KeepRight(t, "release", loc[t], content')
    BY <1>1, <2>1 DEF After
  <2>5. \A i \in Nat : Live(pc, loc, content, a, i) <=> i \in 1..Len(content[a])
    <3>1. \A i \in Nat : Live(pc, loc, content, a, i) <=> i \in 1..Len(content[a]) /\ i > 0
      BY <1>0, <2>1, <2>2, LiveBefore
    <3> QED BY <3>1
  <2>6. \A i \in Nat : ~Live(pc', loc', content', a, i)
    BY <2>2, <2>3, LiveAfter
  <2>7. \A b \in Buffers, i \in Nat : b # a =>
           (Live(pc', loc', content', b, i) <=> Live(pc, loc, content, b, i))
    BY <2>1, <2>3, LiveOther
  <2>8. /\ Apart(pc', loc', content', sent', Unread)
        /\ Lossless /\ Kept => Found(pc', loc', content', sent', Unread)
    <3> DEFINE P2 == pc'
               S2 == sent'
    <3>0. /\ w \in Seq(Rows) /\ Len(w) <= Len(content[a]) /\ \A i \in 1..Len(w) : w[i] = content[a][i]
          /\ Lossless => w = content[a]
      BY <1>0, <2>0, <2>2, WrittenRows DEF Lossless
    <3>1. Sends(pc, P2, loc, content, sent, S2, a, w)
      BY <2>0, <2>1, <2>5, <2>6, <2>7, <3>0 DEF Sends
    <3>2. Apart(pc, loc, content, sent, Unread) /\ Unread \subseteq Rows
      BY DEF RowsInv, Unread
    <3> HIDE DEF P2, S2
    <3>3. /\ Apart(P2, loc, content, S2, Unread)
          /\ w = content[a] /\ Found(pc, loc, content, sent, Unread) => Found(P2, loc, content, S2, Unread)
      BY <1>0, <2>2, <3>1, <3>2, PlacesSend
    <3> QED BY <2>1, <3>0, <3>3 DEF P2, S2, Kept
  <2> QED BY <1>1, <2>1, <2>3, <2>4, <2>8, RowsCombine
<1>6. CASE PopIn(t, "write", "done")
  BY <1>6, PopInRows
<1>7. CASE ReleaseIn(t, "pop")
  BY <1>7, ReleaseInRows
<1> QED BY <1>2, <1>3, <1>4, <1>5, <1>6, <1>7 DEF Send

-----------------------------------------------------------------------------
(* Reading. *)

\* What a reader has left to read is part of its partition.
LEMMA RestInPart ==
  ASSUME PipelineInv, ReadersInv, NEW u \in Readers, Reading(u)
  PROVE  cursor[u].part \in 0..(PartNum - 1) /\ RestOf(cursor[u]) \subseteq PartRows(cursor[u].part)
<1> DEFINE p == cursor[u].part
           line == cursor[u].line
<1>1. /\ p \in 0..(PartNum - 1) /\ StartOff(p) <= line /\ (~Parquet => line = cursor[u].pos)
      /\ line \in Nat /\ LinesPerBuffer \in Nat /\ StartOff(p) \in Nat /\ EndOff(p) \in Nat
      /\ NumFiles \in Nat /\ TableRows \in Nat
  <2>1. u \in Threads
    BY DEF Threads
  <2>2. p \in 0..(PartNum - 1) /\ StartOff(p) <= line /\ (~Parquet => line = cursor[u].pos)
    BY DEF ReadersInv, CursorKept
  <2>3. cursor[u] \in CursorType
    BY <2>1, StepFacts
  <2> QED BY <2>2, <2>3, Offsets DEF CursorType
<1>2. CASE Parquet
  <2> DEFINE m == Least(EndOff(p), NumFiles)
             x == StartOff(p) * LinesPerBuffer
             y == line * LinesPerBuffer
             z == m * LinesPerBuffer
  <2>1. m \in Nat
    BY <1>1 DEF Least
  <2>2. x \in Nat /\ y \in Nat /\ x <= y /\ z \in Nat
    <3> HIDE DEF m, line
    <3> QED BY <1>1, <2>1, ProductNat, ProductOrder
  <2>3. RestOf(cursor[u]) = (y + 1)..z /\ PartRows(p) = (x + 1)..z
    BY <1>2 DEF RestOf, PartRows
  <2> HIDE DEF m, x, y, z
  <2>4. (y + 1)..z \subseteq (x + 1)..z
    BY <2>2
  <2> QED BY <1>1, <2>3, <2>4
<1>3. CASE ~Parquet
  <2>1. RestOf(cursor[u]) = (line + 1)..Least(EndOff(p), TableRows)
        /\ PartRows(p) = (StartOff(p) + 1)..Least(EndOff(p), TableRows)
    BY <1>1, <1>3 DEF RestOf, PartRows
  <2>2. Least(EndOff(p), TableRows) \in Nat
    BY <1>1 DEF Least
  <2> QED BY <1>1, <2>1, <2>2
<1> QED BY <1>2, <1>3

\* A single CSV reader that is in its partition has taken the only one.
LEMMA CsvLast ==
  ASSUME CsvAlone, PipelineInv, ReadersInv, Source = "csv", NEW r \in Readers, Reading(r)
  PROVE  Queued = {}
<1>1. PartNum = 1
  BY DEF CsvAlone, PartNum
<1>2. cursor[r].part = 0
  BY <1>1, RestInPart
<1>3. ASSUME NEW i \in Queued PROVE FALSE
  <2>1. partPtr \in Seq((0..(PartNum - 1)) \cup {Sentinel})
    BY TypeParts DEF PipelineInv, RestTypes
  <2>2. i \in 1..Len(partPtr) /\ partPtr[i] # Sentinel
    BY DEF Queued
  <2>3. partPtr[i] \in 0..(PartNum - 1)
    BY <2>1, <2>2
  <2>4. partPtr[i] # cursor[r].part
    BY DEF ReadersInv, PartsInv
  <2> QED BY <1>1, <1>2, <2>3, <2>4
<1> QED BY <1>3

\* Reader r reads rows X of its partition and goes to s.
Reads(r, s, X) ==
  /\ \A u \in Readers : u # r => cursor'[u] = cursor[u]
  /\ cursor'[r].part = cursor[r].part
  /\ X \subseteq RestOf(cursor[r]) /\ X \subseteq Rows
  /\ (IF ReadingAt(s) THEN RestOf(cursor'[r]) ELSE {}) = RestOf(cursor[r]) \ X
  /\ s \notin After /\ s # "release" /\ ~(Parquet /\ s \in {"popFree", "readFile"})
  /\ ReadingAt(s) => /\ StartOff(cursor[r].part) <= cursor'[r].line
                     /\ ~Parquet => cursor'[r].line = cursor'[r].pos

\* It leaves the others unread.
LEMMA UnreadTaken ==
  ASSUME PipelineInv, ReadersInv, NEW r \in Readers, Reading(r), NEW s, pc' = [pc EXCEPT ![r] = s],
         partPtr' = partPtr, NEW X, Reads(r, s, X)
  PROVE  X \subseteq Unread /\ Unread' = Unread \ X
<1> USE DEF Reads
<1>1. pc \in [Threads -> PCs] /\ Readers \subseteq Threads /\ r \in Threads
  BY TypeParts DEF Threads, PipelineInv
<1>2. /\ Reading(r)' <=> ReadingAt(s)
      /\ \A u \in Readers : u # r => (Reading(u)' <=> Reading(u))
  BY <1>1 DEF Reading
<1>3. Queued' = Queued
  BY DEF Queued
<1>4. X \subseteq Unread
  BY DEF Unread
<1>5. ASSUME NEW i \in Queued, NEW x \in X PROVE x \notin PartRows(partPtr[i])
  <2>1. partPtr \in Seq((0..(PartNum - 1)) \cup {Sentinel})
    BY TypeParts DEF PipelineInv, RestTypes
  <2>2. i \in 1..Len(partPtr) /\ partPtr[i] # Sentinel
    BY DEF Queued
  <2>3. partPtr[i] \in 0..(PartNum - 1) /\ partPtr[i] # cursor[r].part
    BY <2>1, <2>2 DEF ReadersInv, PartsInv
  <2>4. x \in PartRows(cursor[r].part) /\ cursor[r].part \in 0..(PartNum - 1)
    BY RestInPart
  <2> QED BY <2>3, <2>4, PartsDisjoint
<1>6. ASSUME NEW u \in Readers, u # r, Reading(u), NEW x \in X PROVE x \notin RestOf(cursor[u])
  <2>1. cursor[u].part # cursor[r].part
    BY <1>6 DEF ReadersInv, PartsInv
  <2>2. x \in PartRows(cursor[r].part) /\ cursor[r].part \in 0..(PartNum - 1)
    BY RestInPart
  <2>3. RestOf(cursor[u]) \subseteq PartRows(cursor[u].part) /\ cursor[u].part \in 0..(PartNum - 1)
    BY <1>6, RestInPart
  <2> QED BY <2>1, <2>2, <2>3, PartsDisjoint
<1>7. ASSUME NEW x \in Rows
      PROVE  (\E u \in Readers : Reading(u)' /\ x \in RestOf(cursor'[u]))
             <=> (\E u \in Readers : Reading(u) /\ x \in RestOf(cursor[u])) /\ x \notin X
  <2>1. Reading(r)' /\ x \in RestOf(cursor'[r]) <=> x \in RestOf(cursor[r]) \ X
    BY <1>2
  <2> QED BY <1>2, <1>6, <2>1
<1>8. ASSUME NEW x \in Rows
      PROVE  x \in Unread' <=> x \in Unread /\ x \notin X
  <2>1. x \in Unread' <=> (\E i \in Queued : x \in PartRows(partPtr[i]))
                          \/ (\E u \in Readers : Reading(u)' /\ x \in RestOf(cursor'[u]))
    BY <1>3 DEF Unread
  <2>2. x \in Unread <=> (\E i \in Queued : x \in PartRows(partPtr[i]))
                         \/ (\E u \in Readers : Reading(u) /\ x \in RestOf(cursor[u]))
    BY DEF Unread
  <2> QED BY <1>5, <1>7, <2>1, <2>2
<1>9. Unread \subseteq Rows /\ Unread' \subseteq Rows
  BY DEF Unread
<1> QED BY <1>4, <1>8, <1>9

\* The partitions, when a reader reads from its own.
LEMMA ReadersTaken ==
  ASSUME CsvAlone, PipelineInv, ReadersInv, NEW r \in Readers, Reading(r), NEW s, pc' = [pc EXCEPT ![r] = s],
         partPtr' = partPtr, NEW X, Reads(r, s, X)
  PROVE  ReadersInv'
<1> USE DEF Reads
<1>1. pc \in [Threads -> PCs] /\ Readers \subseteq Threads /\ r \in Threads
  BY TypeParts DEF Threads, PipelineInv
<1>2. /\ Reading(r)' <=> ReadingAt(s)
      /\ \A u \in Readers : u # r => (Reading(u)' <=> Reading(u)) /\ pc'[u] = pc[u]
      /\ pc'[r] = s
  BY <1>1 DEF Reading
<1>3. Queued' = Queued
  BY DEF Queued
<1>4. \A u \in Readers : (Reading(u)' => Reading(u)) /\ cursor'[u].part = cursor[u].part
                         /\ (pc'[u] \in After => pc[u] \in After)
  BY <1>2
<1>5. PartsInv'
  <2>1. PartsInv
    BY DEF ReadersInv
  <2>2. \A i, j \in Queued : partPtr[i] = partPtr[j] => i = j
    BY <2>1 DEF PartsInv
  <2>3. \A u \in Readers : Reading(u)' => \A i \in Queued : partPtr[i] # cursor'[u].part
    BY <1>4, <2>1 DEF PartsInv
  <2>4. \A q, u \in Readers : Reading(q)' /\ Reading(u)' /\ cursor'[q].part = cursor'[u].part => q = u
    BY <1>4, <2>1 DEF PartsInv
  <2>5. \A i, j \in 1..Len(partPtr) : i < j /\ partPtr[i] = Sentinel => partPtr[j] = Sentinel
    BY <2>1 DEF PartsInv
  <2>6. \A u \in Readers : pc'[u] \in After => Queued = {}
    BY <1>4, <2>1 DEF PartsInv
  <2> QED BY <1>3, <2>2, <2>3, <2>4, <2>5, <2>6 DEF PartsInv
<1>6. Source = "csv" => Queued = {}
  BY CsvLast
<1>7. ASSUME NEW u \in Readers PROVE CursorKept(u)'
  <2>1. CursorKept(u) /\ CursorKept(r)
    BY DEF ReadersInv
  <2>2. CASE u = r
    BY <1>2, <1>3, <1>6, <2>1, <2>2 DEF CursorKept
  <2>3. CASE u # r
    BY <1>2, <1>3, <2>1, <2>3 DEF CursorKept
  <2> QED BY <2>2, <2>3
<1> QED BY <1>5, <1>7 DEF ReadersInv

\* Rows from + 1 to from + n get into buffer b, which held k rows.
Fills(b, k, n, from) ==
  /\ k = Len(content[b]) /\ Len(content'[b]) = k + n
  /\ content' \in [Buffers -> Seq(Rows)]
  /\ \A d \in Buffers : d # b => content'[d] = content[d]
  /\ \A i \in 1..k : content'[b][i] = content[b][i]
  /\ \A i \in 1..n : content'[b][k + i] = from + i

\* A reader puts rows into its buffer.
LEMMA AddRows ==
  ASSUME CsvAlone, PipelineInv, RowsInv, NEW r \in Readers, Reading(r), NEW s \in PCs, Goto(r, s),
         UNCHANGED <<loc, sent, partPtr>>, NEW b \in Buffers, loc[r].out = b,
         NEW k \in Nat, NEW n \in Nat, NEW from \in Nat, Fills(b, k, n, from),
         NEW X, X = (from + 1)..(from + n), Reads(r, s, X), KeepRight(r, s, loc[r], content')
  PROVE  RowsStep
<1>0. r \in Threads /\ loc[r].in = NoBuffer /\ NoBuffer \notin Buffers /\ loc[r] \in LocType
  <2>1. r \in Threads
    BY DEF Threads
  <2>2. Stage(r) = "read"
    BY <2>1, ThreadFacts
  <2> QED BY <2>1, <2>2, RowFacts DEF KeepRight
<1>1. pc' = [pc EXCEPT ![r] = s] /\ ThreadStep(r, s, loc[r])
  BY <1>0, StepFacts DEF Goto, ThreadStep
<1>2. OwnBuffersOnly(r)
  BY DEF OwnBuffersOnly, Fills
<1>3. KeepInv'
  BY <1>0, <1>1, <1>2, KeepStep DEF RowsInv
<1>4. ReadersInv /\ ReadersInv'
  BY <1>1, ReadersTaken DEF RowsInv
<1>5. X \subseteq Unread /\ Unread' = Unread \ X
  BY <1>1, <1>4, UnreadTaken
<1>6. \A i \in Nat : Live(pc, loc, content, b, i) <=> i \in 1..k
  <2>1. k = Len(content[b])
    BY DEF Fills
  <2> QED BY <1>0, <2>1, LiveBefore
<1>7. \A i \in Nat : Live(pc', loc', content', b, i) <=> i \in 1..(k + n)
  <2>1. Len(content'[b]) = k + n
    BY DEF Fills
  <2>2. \A u \in Threads : u # r => loc[u].in # b
    BY <1>0, StepFacts, HeldApart
  <2>3. loc[r].in # b
    BY <1>0
  <2> QED BY <2>1, <2>2, <2>3 DEF Live
<1>8. \A d \in Buffers, i \in Nat : d # b => (Live(pc', loc', content', d, i) <=> Live(pc, loc, content, d, i))
  <2>1. \A d \in Buffers : d # b => content'[d] = content[d]
    BY DEF Fills
  <2> QED BY <1>0, <1>1, <2>1, LiveOther
<1>9. /\ Apart(pc', loc', content', sent, Unread')
      /\ Kept => Found(pc', loc', content', sent, Unread')
  <2> DEFINE P2 == pc'
             L2 == loc'
             c2 == content'
             U == Unread
             U2 == Unread'
  <2>1. \A i \in 1..n : c2[b][k + i] = from + i /\ from + i \in U /\ from + i \notin U2
    <3>1. \A i \in 1..n : from + i \in X
      OBVIOUS
    <3> QED BY <1>5, <3>1 DEF Fills
  <2>2. U2 \subseteq U /\ Apart(pc, loc, content, sent, U)
    BY <1>5 DEF RowsInv
  <2>3. Adds(pc, loc, content, U, P2, L2, c2, U2, b, from, k, n)
    BY <1>6, <1>7, <1>8, <2>1 DEF Adds, Fills
  <2>4. AddsAll(U, U2, from, n)
    <3>1. U \subseteq Int
      BY DEF Unread, Rows
    <3>2. ASSUME NEW q \in U PROVE q \in U2 \/ q - from \in 1..n
      BY <1>5, <3>1
    <3> QED BY <3>1, <3>2 DEF AddsAll
  <2> HIDE DEF P2, L2, c2, U, U2
  <2>5. from \in Int
    OBVIOUS
  <2>6. Apart(P2, L2, c2, sent, U2) /\ (Found(pc, loc, content, sent, U) => Found(P2, L2, c2, sent, U2))
    BY <2>2, <2>3, <2>4, <2>5, PlacesAdd
  <2> QED BY <2>6 DEF P2, L2, c2, U, U2, Kept
<1> QED BY <1>3, <1>4, <1>9 DEF RowsStep, RowsInv, Kept

\* readPQ reads a file into its buffer.
LEMMA ReadFileRows ==
  ASSUME CsvAlone, PipelineInv, RowsInv, NEW r \in Readers, ReadFile(r)
  PROVE  RowsStep
<1> DEFINE b == loc[r].out
           c == cursor[r]
           line == cursor[r].line
           rows == [i \in 1..LinesPerBuffer |-> line * LinesPerBuffer + i]
<1>0. /\ r \in Threads /\ Stage(r) = "read" /\ loc[r].in = NoBuffer /\ loc[r].off = 0 /\ NoBuffer \notin Buffers
      /\ HoldsRight(r, pc[r], loc[r]) /\ KeepRight(r, pc[r], loc[r], content)
      /\ pc[r] \in ReaderPCs /\ CursorRight(pc[r], c) /\ c \in CursorType
      /\ content \in [Buffers -> Seq(Rows)] /\ cursor \in [Readers -> CursorType]
  <2>1. r \in Threads /\ Stage(r) = "read"
    BY ThreadFacts DEF Threads
  <2> QED BY <2>1, RowFacts, StepFacts DEF KeepRight, RestTypes
<1>1. /\ pc[r] = "readFile" /\ Goto(r, "pushFile") /\ content' = [content EXCEPT ![b] = rows]
      /\ cursor' = [cursor EXCEPT ![r].line = @ + 1]
      /\ UNCHANGED <<loc, sent, partPtr>>
  BY DEF ReadFile
<1>2. Parquet /\ b \in Buffers
  BY <1>0, <1>1 DEF ReaderPCs, HoldsRight, OutFull
<1>3. content[b] = <<>> /\ Reading(r) /\ line < EndOff(c.part) /\ c.part \in 0..(PartNum - 1)
      /\ StartOff(c.part) <= line
  <2>1. CursorKept(r)
    BY DEF RowsInv, ReadersInv
  <2>2. Reading(r)
    BY <1>1, <1>2 DEF Reading, ReadingAt
  <2>3. content[b] = <<>>
    BY <1>0, <1>1, <1>2 DEF KeepRight
  <2> QED BY <1>1, <1>2, <2>1, <2>2, <2>3 DEF CursorKept
<1>4. line \in Nat /\ line < NumFiles /\ NumFiles \in Nat /\ LinesPerBuffer \in Nat
  BY <1>0, <1>1, <1>2, PartArithmetic, SizesAssumption DEF CursorRight, CursorType
<1> DEFINE m == Least(EndOff(c.part), NumFiles)
           x == line * LinesPerBuffer
           y == m * LinesPerBuffer
           z == (line + 1) * LinesPerBuffer
           n == LinesPerBuffer
<1>5. m \in Nat /\ line + 1 <= m /\ m <= NumFiles
  <2>1. EndOff(c.part) \in Nat
    BY <1>3, Offsets
  <2> QED BY <1>3, <1>4, <2>1 DEF Least
<1>6. x \in Nat /\ y \in Nat /\ z = x + n /\ z <= y /\ y <= TableRows /\ n \in Nat
  <2> HIDE DEF m, line
  <2>1. NumFiles * n <= TableRows /\ y <= NumFiles * n /\ NumFiles * n \in Nat /\ TableRows \in Nat
    BY <1>4, <1>5, PartArithmetic, ProductOrder, ProductNat, SizesAssumption
  <2>2. x \in Nat /\ y \in Nat
    BY <1>4, <1>5, ProductNat
  <2>3. z = x + n
    BY <1>4, ProductNext
  <2>4. z <= y
    BY <1>4, <1>5, ProductOrder
  <2> DEFINE w == NumFiles * n
  <2>5. w <= TableRows /\ y <= w /\ w \in Nat
    BY <2>1
  <2> HIDE DEF w, x, y, z
  <2>6. y <= TableRows
    BY <2>1, <2>2, <2>5
  <2> QED BY <1>4, <2>2, <2>3, <2>4, <2>6
<1>7. RestOf(c) = (x + 1)..y
  BY <1>2 DEF RestOf
<1>8. /\ cursor'[r].line = line + 1 /\ cursor'[r].part = c.part
      /\ \A u \in Readers : u # r => cursor'[u] = cursor[u]
  <2> DEFINE d == [cursor[r] EXCEPT !.line = @ + 1]
  <2>1. cursor' = [cursor EXCEPT ![r] = d]
    BY <1>0, <1>1 DEF CursorType
  <2>2. d.line = line + 1 /\ d.part = c.part
    BY <1>0 DEF CursorType
  <2> HIDE DEF d
  <2> QED BY <1>0, <2>1, <2>2
<1>9. RestOf(cursor'[r]) = (z + 1)..y
  BY <1>2, <1>8 DEF RestOf
<1>10. rows \in Seq(Rows) /\ Len(rows) = n /\ \A i \in 1..n : rows[i] = x + i
  <2> HIDE DEF x, y, z
  <2>1. rows = [i \in 1..n |-> x + i]
    BY DEF x
  <2>2. n > 0 => x + n <= TableRows
    <3>1. TableRows \in Nat
      BY SizesAssumption
    <3> HIDE DEF n
    <3> QED BY <1>6, <3>1
  <2>3. [i \in 1..n |-> x + i] \in Seq(Rows) /\ Len([i \in 1..n |-> x + i]) = n
    BY <1>6, <2>2, NumberedRows
  <2> QED BY <2>1, <2>3
<1> HIDE DEF rows, x, y, z
<1>11. /\ content' \in [Buffers -> Seq(Rows)] /\ content'[b] = rows
       /\ \A d \in Buffers : d # b => content'[d] = content[d]
  <2> HIDE DEF b
  <2> QED BY <1>0, <1>1, <1>2, <1>10
<1>12. /\ (x + 1)..(x + n) \subseteq RestOf(c) /\ (x + 1)..(x + n) \subseteq Rows
       /\ RestOf(cursor'[r]) = RestOf(c) \ ((x + 1)..(x + n))
  <2> HIDE DEF n
  <2>1. TableRows \in Nat
    BY SizesAssumption
  <2>2. (x + 1)..(x + n) \subseteq (x + 1)..y /\ (x + 1)..(x + n) \subseteq Rows
    BY <1>6, <2>1 DEF Rows
  <2>3. ((x + n) + 1)..y = ((x + 1)..y) \ ((x + 1)..(x + n))
    BY <1>6
  <2> QED BY <1>6, <1>7, <1>9, <2>2, <2>3
<1>13. KeepRight(r, "pushFile", loc[r], content') /\ "pushFile" \in PCs
  BY <1>0 DEF KeepRight, After, PCs
<1> DEFINE X == (x + 1)..(x + n)
<1>14. Reads(r, "pushFile", X)
  <2>1. "pushFile" \notin After /\ ReadingAt("pushFile")
    BY <1>2 DEF After, ReadingAt
  <2>2. StartOff(c.part) <= cursor'[r].line
    BY <1>3, <1>4, <1>8, Offsets
  <2> QED BY <1>2, <1>8, <1>12, <2>1, <2>2 DEF Reads
<1> DEFINE k == 0
<1>15. Fills(b, k, n, x) /\ k \in Nat
  <2>1. Len(content[b]) = 0 /\ k + n = n /\ \A i \in 1..n : k + i = i
    BY <1>3, <1>6
  <2> QED BY <1>10, <1>11, <2>1 DEF Fills
<1> HIDE DEF k, n, b, X
<1> QED BY <1>1, <1>2, <1>3, <1>6, <1>13, <1>14, <1>15, AddRows DEF b, X

\* Of the rest rows from pos to e, n are read into the room there is.
Splits(pos, e, room, rest, n) ==
  /\ n \in Nat /\ n <= room /\ rest \in Nat /\ n <= rest
  /\ (pos + 1)..(pos + n) \subseteq (pos + 1)..e
  /\ ((pos + n) + 1)..e = ((pos + 1)..e) \ ((pos + 1)..(pos + n))
  /\ n = rest => (pos + 1)..e = (pos + 1)..(pos + n)
  /\ n # rest => n = room

\* What readCSV, readPG and chWriteToBp leave of a partition: nothing, or what is
\* behind the rows that fit.
LEMMA RestSplit ==
  ASSUME NEW pos \in Nat, NEW e \in Nat, NEW room \in Nat,
         NEW rest, rest = (IF e - pos > 0 THEN e - pos ELSE 0), NEW n, n = Least(rest, room)
  PROVE  Splits(pos, e, room, rest, n)
<1>1. n \in Nat /\ n <= room /\ rest \in Nat /\ n <= rest /\ (n # rest => n = room)
  BY DEF Least
<1>2. n > 0 => pos + n <= e
  BY <1>1
<1>3. (pos + 1)..(pos + n) \subseteq (pos + 1)..e
  BY <1>1, <1>2
<1>4. ((pos + n) + 1)..e = ((pos + 1)..e) \ ((pos + 1)..(pos + n))
  BY <1>1, <1>2
<1>5. n = rest => (pos + 1)..e = (pos + 1)..(pos + n)
  BY <1>1, <1>2
<1> QED BY <1>1, <1>3, <1>4, <1>5 DEF Splits

\* A reader fills its buffer.
LEMMA ReadLinesRows ==
  ASSUME CsvAlone, PipelineInv, RowsInv, NEW r \in Readers, ReadLines(r)
  PROVE  RowsStep
<1> DEFINE c == cursor[r]
           b == loc[r].out
           k == Len(content[b])
           todo == Least(EndOff(c.part) - c.line, TableRows - c.pos)
           rest == IF todo > 0 THEN todo ELSE 0
           n == Least(rest, LinesPerBuffer - k)
           full == BufferFull(content[b], n, rest)
           rows == [i \in 1..n |-> c.pos + i]
           s == IF full THEN "pushFull" ELSE "popPart"
           e == Least(EndOff(c.part), TableRows)
           X == (c.pos + 1)..(c.pos + n)
<1>0. /\ r \in Threads /\ Stage(r) = "read" /\ loc[r].in = NoBuffer /\ loc[r].off = 0 /\ NoBuffer \notin Buffers
      /\ HoldsRight(r, pc[r], loc[r]) /\ KeepRight(r, pc[r], loc[r], content)
      /\ RoomRight(r, pc[r], loc[r], content)
      /\ pc[r] \in ReaderPCs /\ c \in CursorType
      /\ content \in [Buffers -> Seq(Rows)] /\ cursor \in [Readers -> CursorType]
  <2>1. r \in Threads /\ Stage(r) = "read"
    BY ThreadFacts DEF Threads
  <2> QED BY <2>1, RowFacts, StepFacts DEF KeepRight, RestTypes
<1>1. /\ pc[r] = "readLines" /\ Goto(r, s)
      /\ content' = [content EXCEPT ![b] = @ \o rows]
      /\ cursor' = [cursor EXCEPT ![r].pos = @ + n, ![r].line = IF full THEN @ + n ELSE 0]
      /\ UNCHANGED <<loc, sent, partPtr>>
  BY DEF ReadLines
<1>2. /\ ~Parquet /\ b \in Buffers /\ content[b] \in Seq(Rows) /\ k \in Nat /\ k <= LinesPerBuffer
      /\ LinesPerBuffer \in Nat /\ TableRows \in Nat
  <2>1. ~Parquet
    BY <1>0, <1>1 DEF ReaderPCs
  <2>2. b \in Buffers
    BY <1>0, <1>1 DEF HoldsRight, OutFull
  <2>3. content[b] \in Seq(Rows) /\ k \in Nat
    BY <1>0, <2>2
  <2> QED BY <1>0, <2>1, <2>2, <2>3, SizesAssumption DEF RoomRight
<1>3. /\ Reading(r) /\ c.part \in 0..(PartNum - 1) /\ StartOff(c.part) <= c.line /\ c.line = c.pos
      /\ c.pos \in Nat /\ EndOff(c.part) \in Nat /\ StartOff(c.part) \in Nat
  <2>1. CursorKept(r)
    BY DEF RowsInv, ReadersInv
  <2>2. Reading(r)
    BY <1>1, <1>2 DEF Reading, ReadingAt
  <2>3. c.part \in 0..(PartNum - 1) /\ StartOff(c.part) <= c.line /\ c.line = c.pos
    BY <1>2, <2>1, <2>2 DEF CursorKept
  <2> QED BY <1>0, <2>2, <2>3, Offsets DEF CursorType
<1>4. e \in Nat /\ e <= TableRows /\ todo = e - c.pos
  BY <1>2, <1>3 DEF Least
<1>5. RestOf(c) = (c.pos + 1)..e
  BY <1>2 DEF RestOf
<1> HIDE DEF todo, e
<1>6. /\ n \in Nat /\ n <= LinesPerBuffer - k /\ rest \in Nat /\ n <= rest
      /\ X \subseteq (c.pos + 1)..e
      /\ ((c.pos + n) + 1)..e = ((c.pos + 1)..e) \ X
      /\ n = rest => (c.pos + 1)..e = X
      /\ n # rest => n = LinesPerBuffer - k
  <2> DEFINE room == LinesPerBuffer - k
             pos == c.pos
  <2>1. room \in Nat /\ pos \in Nat /\ rest = IF e - pos > 0 THEN e - pos ELSE 0
    BY <1>2, <1>3, <1>4
  <2>3. n = Least(rest, room)
    OBVIOUS
  <2> HIDE DEF n, rest, pos, room
  <2>4. e \in Nat
    BY <1>4
  <2>2. Splits(pos, e, room, rest, n)
    BY ONLY <2>1, <2>3, <2>4, RestSplit
  <2> QED BY <2>2 DEF Splits, room, pos
<1>7. ~full => n = rest
  <2>1. CASE Source = "clickhouse"
    <3>1. ~full => k + n # LinesPerBuffer
      BY <2>1 DEF BufferFull
    <3> HIDE DEF n, k, rest, full
    <3> QED BY <1>2, <1>6, <3>1
  <2>2. CASE Source # "clickhouse"
    <3>1. ~full => ~(n < rest)
      BY <2>2 DEF BufferFull
    <3> HIDE DEF n, rest, full
    <3> QED BY <1>6, <3>1
  <2> QED BY <2>1, <2>2
<1>8. Source = "clickhouse" /\ ~full => k + n < LinesPerBuffer
  <2>1. Source = "clickhouse" /\ ~full => k + n # LinesPerBuffer
    BY DEF BufferFull
  <2> HIDE DEF n, k, full
  <2> QED BY <1>2, <1>6, <2>1
<1> HIDE DEF n, rest, full
<1>9. X \subseteq Rows
  <2>1. X \subseteq (c.pos + 1)..e
    BY <1>6
  <2>2. (c.pos + 1)..e \subseteq Rows
    BY <1>2, <1>3, <1>4 DEF Rows
  <2> QED BY <2>1, <2>2
<1>10. rows \in Seq(Rows) /\ Len(rows) = n /\ \A i \in 1..n : rows[i] = c.pos + i
  <2>1. \A i \in 1..n : c.pos + i \in X
    BY <1>3, <1>6
  <2>2. \A i \in 1..n : c.pos + i \in Rows
    BY <1>9, <2>1
  <2> QED BY <1>6, <2>2
<1> HIDE DEF rows
<1>11. /\ content[b] \o rows \in Seq(Rows) /\ Len(content[b] \o rows) = k + n
       /\ \A i \in 1..k : (content[b] \o rows)[i] = content[b][i]
       /\ \A i \in 1..n : (content[b] \o rows)[k + i] = c.pos + i
  <2>1. content[b] \o rows \in Seq(Rows) /\ Len(content[b] \o rows) = k + n
    BY <1>2, <1>10, AppendRows
  <2>2. /\ \A i \in 1..k : (content[b] \o rows)[i] = content[b][i]
        /\ \A i \in 1..Len(rows) : (content[b] \o rows)[k + i] = rows[i]
    BY <1>2, <1>10, ConcatElements
  <2> QED BY <1>10, <2>1, <2>2
<1>12. /\ content' \in [Buffers -> Seq(Rows)] /\ content'[b] = content[b] \o rows
       /\ \A d \in Buffers : d # b => content'[d] = content[d]
  <2>1. content[b] \o rows \in Seq(Rows)
    BY <1>11
  <2> HIDE DEF b
  <2> QED BY <1>0, <1>1, <1>2, <2>1
<1>13. Fills(b, k, n, c.pos)
  BY <1>11, <1>12 DEF Fills
<1>14. /\ \A q \in Readers : q # r => cursor'[q] = cursor[q]
       /\ cursor'[r].pos = c.pos + n /\ cursor'[r].line = IF full THEN c.line + n ELSE 0
       /\ cursor'[r].part = c.part
  <2> DEFINE d == [cursor[r] EXCEPT !.pos = @ + n, !.line = IF full THEN @ + n ELSE 0]
  <2>1. cursor' = [cursor EXCEPT ![r] = d]
    BY <1>0, <1>1 DEF CursorType
  <2>2. d.pos = c.pos + n /\ d.line = (IF full THEN c.line + n ELSE 0) /\ d.part = c.part
    BY <1>0 DEF CursorType
  <2> HIDE DEF d
  <2> QED BY <1>0, <2>1, <2>2
<1>15. /\ s \in PCs /\ s \in {"pushFull", "popPart"} /\ (s = "pushFull" <=> full)
       /\ (ReadingAt(s) <=> full)
  BY <1>2 DEF PCs, ReadingAt
<1> HIDE DEF s
<1>16. KeepRight(r, s, loc[r], content')
  <2>1. Source = "clickhouse" /\ s = "popPart" => Len(content'[b]) < LinesPerBuffer
    BY <1>8, <1>11, <1>12, <1>15
  <2> QED BY <1>0, <1>15, <2>1 DEF KeepRight, After
<1>17. Reads(r, s, X)
  <2>1. X \subseteq RestOf(c) /\ X \subseteq Rows
    BY <1>5, <1>6, <1>9
  <2>2. full => RestOf(cursor'[r]) = RestOf(c) \ X
    <3>1. RestOf(cursor'[r]) = ((c.pos + n) + 1)..e
      BY <1>2, <1>14 DEF RestOf, e
    <3> QED BY <1>5, <1>6, <3>1
  <2>3. ~full => RestOf(c) = X
    BY <1>5, <1>6, <1>7
  <2>4. (IF ReadingAt(s) THEN RestOf(cursor'[r]) ELSE {}) = RestOf(c) \ X
    BY <1>15, <2>2, <2>3
  <2>5. ReadingAt(s) => StartOff(c.part) <= cursor'[r].line /\ cursor'[r].line = cursor'[r].pos
    BY <1>3, <1>6, <1>14, <1>15
  <2>6. s \notin After /\ s # "release"
    BY <1>15 DEF After
  <2> QED BY <1>2, <1>14, <2>1, <2>4, <2>5, <2>6 DEF Reads
<1> DEFINE from == c.pos
<1>18. from \in Nat /\ X = (from + 1)..(from + n) /\ Fills(b, k, n, from)
  BY <1>3, <1>13
<1> HIDE DEF from, X, k
<1> QED BY <1>1, <1>2, <1>3, <1>6, <1>15, <1>16, <1>17, <1>18, AddRows

-----------------------------------------------------------------------------
(* Partitions are taken. *)

\* The final partition, or the empty stack, ends a reader: none is left.
LEMMA PartsGone ==
  ASSUME PipelineInv, ReadersInv, NEW r \in Readers, pc[r] = "popPart", NEW s \in After,
         pc' = [pc EXCEPT ![r] = s], cursor' = cursor, partPtr = <<>> \/ Head(partPtr) = Sentinel,
         partPtr' = IF partPtr = <<>> THEN <<>> ELSE Tail(partPtr)
  PROVE  ReadersInv' /\ Unread' = Unread
<1>0. partPtr \in Seq((0..(PartNum - 1)) \cup {Sentinel}) /\ pc \in [Threads -> PCs] /\ Readers \subseteq Threads
  BY TypeParts DEF PipelineInv, RestTypes, Threads
<1>1. /\ \A i \in 1..Len(partPtr) : partPtr[i] = Sentinel
      /\ \A i \in 1..Len(partPtr') : partPtr'[i] = Sentinel
  <2>1. CASE partPtr = <<>>
    BY <2>1
  <2>2. CASE partPtr # <<>>
    <3>1. /\ Head(partPtr) = partPtr[1] /\ Len(partPtr) \in Nat /\ 1 \in 1..Len(partPtr)
          /\ \A i \in 1..Len(Tail(partPtr)) : Tail(partPtr)[i] = partPtr[i + 1] /\ i + 1 \in 1..Len(partPtr)
      BY <1>0, <2>2, TailElements
    <3>2. partPtr[1] = Sentinel
      BY <2>2, <3>1
    <3>3. \A i \in 1..Len(partPtr) : partPtr[i] = Sentinel
      BY <3>1, <3>2 DEF ReadersInv, PartsInv
    <3> QED BY <2>2, <3>1, <3>3
  <2> QED BY <2>1, <2>2
<1>2. Queued = {} /\ Queued' = {}
  BY <1>1 DEF Queued
<1>3. pc'[r] = s /\ \A u \in Readers : u # r => pc'[u] = pc[u]
  BY <1>0
<1>4. ~Reading(r) /\ ~Reading(r)'
  BY <1>3 DEF Reading, ReadingAt, After
<1>5. \A u \in Readers : Reading(u)' <=> Reading(u)
  BY <1>3, <1>4 DEF Reading
<1>6. PartsInv'
  <2>1. \A u, q \in Readers : Reading(u)' /\ Reading(q)' /\ cursor'[u].part = cursor'[q].part => u = q
    BY <1>5 DEF ReadersInv, PartsInv
  <2>2. \A i, j \in 1..Len(partPtr') : i < j /\ partPtr'[i] = Sentinel => partPtr'[j] = Sentinel
    BY <1>1
  <2> QED BY <1>2, <2>1, <2>2 DEF PartsInv
<1>7. ASSUME NEW u \in Readers PROVE CursorKept(u)'
  <2>1. CursorKept(u)
    BY DEF ReadersInv
  <2>2. Parquet /\ pc'[u] \in {"popFree", "readFile"} => pc[u] \in {"popFree", "readFile"}
    BY <1>3 DEF After
  <2> QED BY <1>2, <1>5, <2>1, <2>2 DEF CursorKept
<1>8. Unread' = Unread
  BY <1>2, <1>5 DEF Unread
<1> QED BY <1>6, <1>7, <1>8 DEF ReadersInv

\* Where Seek starts in partition p: all of it is still to be read.
LEMMA SeekStart ==
  ASSUME CsvAlone, NEW c \in CursorType, NEW p \in 0..(PartNum - 1), Source = "csv" => c.pos = 0 /\ c.line = 0
  PROVE  LET d == Seek(c, p)
         IN  /\ d.part = p /\ StartOff(p) <= d.line /\ (~Parquet => d.line = d.pos)
             /\ RestOf(d) = PartRows(p)
<1>1. StartOff(p) \in Nat /\ TableRows \in Nat
  BY Offsets
<1>2. CASE Source # "csv"
  <2> DEFINE d == Seek(c, p)
  <2>1. d.part = p /\ d.line = StartOff(p) /\ d.pos = StartOff(p)
    BY <1>2 DEF Seek
  <2> HIDE DEF d
  <2>2. RestOf(d) = PartRows(p)
    BY <2>1 DEF RestOf, PartRows
  <2>3. StartOff(p) <= d.line
    BY <1>1, <2>1
  <2> QED BY <2>1, <2>2, <2>3 DEF d
<1>3. CASE Source = "csv"
  <2>1. PartNum = 1 /\ p = 0
    BY <1>3 DEF CsvAlone, PartNum
  <2>2. StartOff(p) = 0
    BY <2>1, Offsets DEF StartOff
  <2> DEFINE d == Seek(c, p)
             skip == Least(StartOff(p) - c.line, TableRows - c.pos)
  <2>3. skip = 0
    BY <1>1, <1>3, <2>2 DEF Least
  <2>4. d.part = p /\ d.line = c.line + skip /\ d.pos = c.pos + skip
    BY <1>3 DEF Seek
  <2>5. d.line = 0 /\ d.pos = 0
    BY <1>3, <2>3, <2>4
  <2> HIDE DEF d, skip
  <2>6. RestOf(d) = PartRows(p)
    BY <1>3, <2>2, <2>4, <2>5 DEF RestOf, PartRows, Parquet
  <2> QED BY <2>2, <2>4, <2>5, <2>6 DEF d
<1> QED BY <1>2, <1>3

\* The next partition leaves the queue, and its reader starts on it.
LEMMA PartTaken ==
  ASSUME CsvAlone, PipelineInv, ReadersInv, NEW r \in Readers, pc[r] = "popPart", NEW s, ReadingAt(s),
         s \in {"openFile", "readLines"},
         pc' = [pc EXCEPT ![r] = s], partPtr # <<>>, Head(partPtr) # Sentinel,
         cursor' = [cursor EXCEPT ![r] = Seek(@, Head(partPtr))], partPtr' = Tail(partPtr)
  PROVE  ReadersInv' /\ Unread' = Unread
<1> DEFINE p == Head(partPtr)
           d == Seek(cursor[r], p)
<1>0. /\ partPtr \in Seq((0..(PartNum - 1)) \cup {Sentinel}) /\ pc \in [Threads -> PCs] /\ Readers \subseteq Threads
      /\ cursor \in [Readers -> CursorType]
  BY TypeParts DEF PipelineInv, RestTypes, Threads
<1>1. /\ p = partPtr[1] /\ Len(partPtr) \in Nat /\ 1 \in Queued /\ Len(partPtr') = Len(partPtr) - 1
      /\ \A i \in 1..Len(partPtr') : partPtr'[i] = partPtr[i + 1] /\ i + 1 \in 1..Len(partPtr)
      /\ p \in 0..(PartNum - 1)
  <2>1. /\ Head(partPtr) = partPtr[1] /\ Len(partPtr) \in Nat /\ 1 \in 1..Len(partPtr) /\ Len(Tail(partPtr)) = Len(partPtr) - 1
        /\ Head(partPtr) \in (0..(PartNum - 1)) \cup {Sentinel}
        /\ \A i \in 1..Len(Tail(partPtr)) : Tail(partPtr)[i] = partPtr[i + 1] /\ i + 1 \in 1..Len(partPtr)
    BY <1>0, TailElements
  <2> QED BY <2>1 DEF Queued
<1>2. cursor'[r] = d /\ \A u \in Readers : u # r => cursor'[u] = cursor[u]
  BY <1>0
<1>3. d.part = p /\ StartOff(p) <= d.line /\ (~Parquet => d.line = d.pos) /\ RestOf(d) = PartRows(p)
  <2>1. Source = "csv" => cursor[r].pos = 0 /\ cursor[r].line = 0
    BY <1>1 DEF ReadersInv, CursorKept
  <2> QED BY <1>0, <1>1, <2>1, SeekStart
<1> HIDE DEF d, p
<1>4. /\ \A i \in Queued' : i + 1 \in Queued /\ partPtr'[i] = partPtr[i + 1]
      /\ \A i \in Queued : i # 1 => i - 1 \in Queued' /\ partPtr'[i - 1] = partPtr[i]
      /\ Queued \subseteq Nat /\ Queued' \subseteq Nat \ {0}
  <2>1. ASSUME NEW i \in Queued' PROVE i + 1 \in Queued /\ partPtr'[i] = partPtr[i + 1] /\ i \in Nat \ {0}
    BY <1>1, <2>1 DEF Queued
  <2>2. ASSUME NEW i \in Queued, i # 1 PROVE i - 1 \in Queued' /\ partPtr'[i - 1] = partPtr[i]
    <3>1. i \in 1..Len(partPtr) /\ partPtr[i] # Sentinel
      BY DEF Queued
    <3>2. i - 1 \in 1..Len(partPtr') /\ (i - 1) + 1 = i
      BY <1>1, <2>2, <3>1
    <3>3. partPtr'[i - 1] = partPtr[i]
      BY <1>1, <3>2
    <3> QED BY <3>1, <3>2, <3>3 DEF Queued
  <2>3. Queued \subseteq Nat
    BY DEF Queued
  <2> QED BY <2>1, <2>2, <2>3
<1>5. pc'[r] = s /\ \A u \in Readers : u # r => pc'[u] = pc[u]
  BY <1>0
<1>6. Reading(r)' /\ ~Reading(r) /\ \A u \in Readers : u # r => (Reading(u)' <=> Reading(u))
  BY <1>5 DEF Reading, ReadingAt
<1>7. \A i \in Queued : i # 1 => partPtr[i] # p
  BY <1>1 DEF ReadersInv, PartsInv
<1>8. PartsInv'
  <2>1. PartsInv
    BY DEF ReadersInv
  <2>2. \A i, j \in Queued' : partPtr'[i] = partPtr'[j] => i = j
    <3>1. ASSUME NEW i \in Queued', NEW j \in Queued', partPtr'[i] = partPtr'[j] PROVE i = j
      <4>1. i + 1 \in Queued /\ j + 1 \in Queued /\ partPtr[i + 1] = partPtr[j + 1]
        BY <1>4, <3>1
      <4>2. i + 1 = j + 1
        BY <2>1, <4>1 DEF PartsInv
      <4> QED BY <1>4, <4>2
    <3> QED BY <3>1
  <2>3. \A u \in Readers : Reading(u)' => \A i \in Queued' : partPtr'[i] # cursor'[u].part
    <3>1. ASSUME NEW i \in Queued' PROVE i + 1 \in Queued /\ i + 1 # 1 /\ partPtr'[i] = partPtr[i + 1]
      <4>1. i \in Nat \ {0} /\ i + 1 \in Queued /\ partPtr'[i] = partPtr[i + 1]
        BY <1>4
      <4>2. i \in Nat \ {0} => i + 1 # 1
        OBVIOUS
      <4> QED BY <4>1, <4>2
    <3>2. \A i \in Queued' : partPtr'[i] # cursor'[r].part
      BY <1>2, <1>3, <1>7, <3>1
    <3>3. \A u \in Readers : u # r /\ Reading(u) => \A i \in Queued' : partPtr'[i] # cursor'[u].part
      <4>1. ASSUME NEW u \in Readers, u # r, Reading(u), NEW i \in Queued' PROVE partPtr'[i] # cursor'[u].part
        <5>1. partPtr[i + 1] # cursor[u].part
          BY <2>1, <3>1, <4>1 DEF PartsInv
        <5> QED BY <1>2, <3>1, <4>1, <5>1
      <4> QED BY <4>1
    <3> QED BY <1>6, <3>2, <3>3
  <2>4. \A q, u \in Readers : Reading(q)' /\ Reading(u)' /\ cursor'[q].part = cursor'[u].part => q = u
    <3>1. \A u \in Readers : u # r /\ Reading(u)' => cursor'[u].part # cursor'[r].part
      BY <1>1, <1>2, <1>3, <1>6, <2>1 DEF PartsInv
    <3>2. \A q, u \in Readers : q # r /\ u # r /\ Reading(q)' /\ Reading(u)' /\ cursor'[q].part = cursor'[u].part => q = u
      BY <1>2, <1>6, <2>1 DEF PartsInv
    <3> QED BY <3>1, <3>2
  <2>5. \A i, j \in 1..Len(partPtr') : i < j /\ partPtr'[i] = Sentinel => partPtr'[j] = Sentinel
    <3>1. ASSUME NEW i \in 1..Len(partPtr'), NEW j \in 1..Len(partPtr'), i < j, partPtr'[i] = Sentinel
          PROVE  partPtr'[j] = Sentinel
      <4>1. /\ i + 1 \in 1..Len(partPtr) /\ j + 1 \in 1..Len(partPtr) /\ i + 1 < j + 1
            /\ partPtr[i + 1] = Sentinel /\ partPtr'[j] = partPtr[j + 1]
        BY <1>1, <3>1
      <4> QED BY <2>1, <4>1 DEF PartsInv
    <3> QED BY <3>1
  <2>6. \A u \in Readers : pc'[u] \in After => Queued' = {}
    <3>1. \A u \in Readers : pc[u] \notin After
      BY <1>1, <2>1 DEF PartsInv
    <3> QED BY <1>5, <3>1 DEF After
  <2> QED BY <2>2, <2>3, <2>4, <2>5, <2>6 DEF PartsInv
<1>9. Source = "csv" => Queued' = {}
  <2>1. ASSUME Source = "csv", NEW i \in Queued' PROVE FALSE
    <3>1. PartNum = 1
      BY <2>1 DEF CsvAlone, PartNum
    <3>2. i + 1 \in Queued /\ i + 1 # 1 /\ partPtr[i + 1] \in 0..(PartNum - 1)
      <4>1. i + 1 \in Queued /\ i + 1 # 1
        BY <1>4
      <4>2. i + 1 \in 1..Len(partPtr) /\ partPtr[i + 1] # Sentinel
        BY <4>1 DEF Queued
      <4> QED BY <1>0, <4>1, <4>2
    <3> QED BY <1>1, <1>7, <3>1, <3>2
  <2> QED BY <2>1
<1>10. ASSUME NEW u \in Readers PROVE CursorKept(u)'
  <2>1. CursorKept(u)
    BY DEF ReadersInv
  <2>2. CASE u = r
    BY <1>1, <1>2, <1>3, <1>5, <1>9, <2>2 DEF CursorKept
  <2>3. CASE u # r
    BY <1>2, <1>5, <1>6, <1>9, <2>1, <2>3 DEF CursorKept
  <2> QED BY <2>2, <2>3
<1>11. Unread' = Unread
  <2>1. ASSUME NEW x \in Rows
        PROVE  (\E i \in Queued : x \in PartRows(partPtr[i])) <=>
                 x \in PartRows(p) \/ \E i \in Queued' : x \in PartRows(partPtr'[i])
    BY <1>1, <1>4
  <2>2. ASSUME NEW x \in Rows
        PROVE  (\E u \in Readers : Reading(u)' /\ x \in RestOf(cursor'[u])) <=>
                 x \in PartRows(p) \/ \E u \in Readers : Reading(u) /\ x \in RestOf(cursor[u])
    BY <1>2, <1>3, <1>6
  <2>3. ASSUME NEW x \in Rows
        PROVE  x \in Unread' <=> (\E i \in Queued' : x \in PartRows(partPtr'[i]))
                                 \/ \E u \in Readers : Reading(u)' /\ x \in RestOf(cursor'[u])
    BY DEF Unread
  <2>4. ASSUME NEW x \in Rows
        PROVE  x \in Unread <=> (\E i \in Queued : x \in PartRows(partPtr[i]))
                                \/ \E u \in Readers : Reading(u) /\ x \in RestOf(cursor[u])
    BY DEF Unread
  <2>5. \A x \in Rows : x \in Unread' <=> x \in Unread
    BY <2>1, <2>2, <2>3, <2>4
  <2>6. Unread \subseteq Rows /\ Unread' \subseteq Rows
    BY DEF Unread
  <2> QED BY <2>5, <2>6
<1> QED BY <1>8, <1>10, <1>11 DEF ReadersInv

\* A reader takes a partition or ends.
LEMMA PopPartRows ==
  ASSUME CsvAlone, PipelineInv, RowsInv, NEW r \in Readers, PopPart(r)
  PROVE  RowsStep
<1>0. /\ r \in Threads /\ Stage(r) = "read" /\ pc[r] = "popPart" /\ loc[r].off = 0
      /\ KeepRight(r, "popPart", loc[r], content) /\ HoldsRight(r, "popPart", loc[r]) /\ ReadersInv
      /\ NoBuffer \notin Buffers
  <2>1. r \in Threads /\ Stage(r) = "read" /\ pc[r] = "popPart"
    BY ThreadFacts DEF Threads, PopPart
  <2> QED BY <2>1, RowFacts DEF RowsInv
<1>1. UNCHANGED <<loc, content, sent>>
  BY DEF PopPart
<1>2. CASE partPtr = <<>> \/ Head(partPtr) = Sentinel
  <2> DEFINE s == IF Source \in {"csv", "postgres"} THEN "pushLast" ELSE "fetchAdd"
  <2>1. /\ pc' = [pc EXCEPT ![r] = s] /\ cursor' = cursor
        /\ partPtr' = IF partPtr = <<>> THEN <<>> ELSE Tail(partPtr)
    BY <1>2 DEF PopPart, Goto
  <2>2. s \in After /\ s \in PCs /\ s # "release"
    BY DEF After, PCs
  <2>3. KeepRight(r, s, loc[r], content)
    <3>1. Parquet => loc[r].out = NoBuffer
      BY <1>0 DEF HoldsRight, OutEmpty
    <3>2. Source \in {"csv", "postgres", "parquet", "clickhouse"}
      BY OptionsAssumption
    <3> QED BY <1>0, <3>1, <3>2 DEF KeepRight, After, Parquet
  <2> HIDE DEF s
  <2>4. ReadersStay
    BY <1>0, <1>2, <2>1, <2>2, PartsGone DEF ReadersStay
  <2> QED BY <1>0, <1>1, <2>1, <2>2, <2>3, <2>4, StillStep
<1>3. CASE ~(partPtr = <<>> \/ Head(partPtr) = Sentinel)
  <2> DEFINE s == IF Source = "parquet" THEN "openFile" ELSE "readLines"
  <2>1. /\ pc' = [pc EXCEPT ![r] = s] /\ cursor' = [cursor EXCEPT ![r] = Seek(@, Head(partPtr))]
        /\ partPtr' = Tail(partPtr)
    BY <1>3 DEF PopPart, Goto
  <2>2. s \in PCs /\ s # "release" /\ ReadingAt(s) /\ s \in {"openFile", "readLines"}
    BY DEF PCs, ReadingAt, Parquet
  <2>3. KeepRight(r, s, loc[r], content)
    BY <1>0 DEF KeepRight, After
  <2> HIDE DEF s
  <2>4. ReadersStay
    BY <1>0, <1>3, <2>1, <2>2, PartTaken DEF ReadersStay
  <2> QED BY <1>0, <1>1, <2>1, <2>2, <2>3, <2>4, StillStep
<1> QED BY <1>2, <1>3

-----------------------------------------------------------------------------
(* Every step. *)

\* A reader's step.
LEMMA ReadRows ==
  ASSUME CsvAlone, PipelineInv, RowsInv, NEW t \in Threads, Stage(t) = "read", Read(t)
  PROVE  RowsStep
<1>0. t \in Readers
  BY ThreadFacts
<1>1. CASE OpenFails(t)
  BY <1>1, OpenFailsRows
<1>2. CASE PopFree(t, "popFree", IF Source = "parquet" THEN "readFile" ELSE "popPart")
  BY <1>2, PopFreeRows
<1>3. CASE PopPart(t)
  BY <1>0, <1>3, PopPartRows
<1>4. CASE ReadLines(t)
  BY <1>0, <1>4, ReadLinesRows
<1>5. CASE OpenFile(t) /\ ~Throw
  BY <1>5, OpenFileRows
<1>6. CASE Throw
  BY <1>6, ServeRows DEF Throw
<1>7. CASE FileFails(t) \/ CountFails
  BY <1>6, <1>7 DEF FileFails, CountFails
<1>8. CASE ReadFile(t)
  BY <1>0, <1>8, ReadFileRows
<1>9. CASE PushOut(t, "pushFile", "openFile") \/ PushOut(t, "pushFull", "refill") \/ PushOut(t, "pushLast", "fetchAdd")
  BY <1>9, PushOutRows
<1>10. CASE PopFree(t, "refill", "readLines")
  BY <1>10, PopFreeRows
<1>11. CASE Finish(t)
  BY <1>11, FinishRows
<1> QED BY <1>1, <1>2, <1>3, <1>4, <1>5, <1>6, <1>7, <1>8, <1>9, <1>10, <1>11 DEF Read

\* A deserializer's step.
LEMMA DeserRows ==
  ASSUME PipelineInv, RowsInv, NEW t \in Threads, Stage(t) = "deser", Deser(t)
  PROVE  RowsStep
<1> DEFINE to == CASE Source # "parquet" -> "popFirst"
                   [] Source = "parquet" /\ loc[t].in = NoBuffer -> "undefined"
                   [] OTHER -> "deserialize"
<1>1. CASE PopFree(t, "popFree", to)
  <2>1. to \in {"popFirst", "undefined", "deserialize"}
    OBVIOUS
  <2> HIDE DEF to
  <2> QED BY <1>1, <2>1, PopFreeRows
<1>2. CASE PopFirst(t)
  BY <1>2, PopFirstRows
<1>3. CASE Deserialize(t)
  BY <1>3, DeserializeRows
<1>4. CASE PushOut(t, "pushFull", "refill") \/ PushOut(t, "pushLast", "fetchAdd")
  BY <1>4, PushOutRows
<1>5. CASE PopFree(t, "refill", "deserialize")
  BY <1>5, PopFreeRows
<1>6. CASE ReleaseIn(t, "popNext")
  BY <1>6, ReleaseInRows
<1>7. CASE PopNext(t)
  BY <1>7, PopNextRows
<1>8. CASE PopIn(t, "forward", "fetchAdd")
  BY <1>8, PopInRows
<1>9. CASE Forward(t)
  BY <1>9, ForwardRows
<1>10. CASE Finish(t)
  BY <1>10, FinishRows
<1>11. CASE DeserFails(t)
  BY <1>11, ServeRows DEF DeserFails, Throw
<1> QED BY <1>1, <1>2, <1>3, <1>4, <1>5, <1>6, <1>7, <1>8, <1>9, <1>10, <1>11 DEF Deser

\* A compressor's step.
LEMMA CompressRows ==
  ASSUME PipelineInv, RowsInv, NEW t \in Threads, Stage(t) = "comp", Compress(t)
  PROVE  RowsStep
<1> DEFINE to == IF Compression THEN "popFree" ELSE "forward"
<1>1. CASE PopIn(t, to, "fetchAdd")
  <2>1. to \in {"popFree", "forward"}
    OBVIOUS
  <2> HIDE DEF to
  <2> QED BY <1>1, <2>1, PopInRows
<1>2. CASE Forward(t)
  BY <1>2, ForwardRows
<1>3. CASE PopFree(t, "popFree", Encode)
  <2>1. Encode \in {"compress", "undefined"}
    BY DEF Encode
  <2> QED BY <1>3, <2>1, PopFreeRows
<1>4. CASE PushCompressed(t) \/ PushIneffective(t)
  BY <1>4, PushEncodedRows
<1>5. CASE PushUncompressed(t)
  BY <1>5, PushUncompressedRows
<1>6. CASE ReleaseIn(t, "pop")
  BY <1>6, ReleaseInRows
<1>7. CASE Finish(t)
  BY <1>7, FinishRows
<1> QED BY <1>1, <1>2, <1>3, <1>4, <1>5, <1>6, <1>7 DEF Compress

\* No step puts a row into a second place or loses one.
LEMMA NextRows ==
  ASSUME CsvAlone, PipelineInv, RowsInv, [Next]_vars
  PROVE  RowsStep
<1>1. ASSUME NEW t \in Threads, Step(t) PROVE RowsStep
  <2>1. CASE Stage(t) = "read" /\ Read(t)
    BY <2>1, ReadRows
  <2>2. CASE Stage(t) = "deser" /\ Deser(t)
    BY <2>2, DeserRows
  <2>3. CASE Stage(t) = "comp" /\ Compress(t)
    BY <2>3, CompressRows
  <2>4. CASE Stage(t) = "send" /\ Send(t)
    BY <2>4, SendRows
  <2> QED BY <1>1, <2>1, <2>2, <2>3, <2>4 DEF Step
<1>2. CASE Serve
  BY <1>2, ServeRows DEF Serve
<1>3. CASE UNCHANGED vars
  BY <1>3, ServeRows DEF vars
<1> QED BY <1>1, <1>2, <1>3 DEF Next, Terminated

\* The partitions in the queue at the start.
LEMMA FirstParts ==
  ASSUME Init
  PROVE  /\ Queued = 1..PartNum /\ PartNum \in Nat \ {0}
         /\ \A i \in Queued : partPtr[i] \in 0..(PartNum - 1)
         /\ \A p \in 0..(PartNum - 1) : \E i \in Queued : partPtr[i] = p
         /\ \A i, j \in Queued : partPtr[i] = partPtr[j] => i = j
         /\ \A i, j \in 1..Len(partPtr) : i < j /\ partPtr[i] = Sentinel => partPtr[j] = Sentinel
<1>1. PartNum \in Nat \ {0} /\ ReadParallelism \in Nat
  BY Offsets, ParallelismAssumption
<1>2. CASE Source = "clickhouse"
  <2>1. Len(partPtr) = PartNum /\ \A i \in 1..PartNum : partPtr[i] = i - 1
    BY <1>1, <1>2 DEF Init, InitialParts
  <2>2. Queued = 1..PartNum
    BY <1>1, <2>1 DEF Queued, Sentinel
  <2>3. ASSUME NEW p \in 0..(PartNum - 1) PROVE \E i \in Queued : partPtr[i] = p
    <3>1. p + 1 \in 1..PartNum /\ (p + 1) - 1 = p
      BY <1>1
    <3> QED BY <2>1, <2>2, <3>1
  <2> QED BY <1>1, <2>1, <2>2, <2>3 DEF Sentinel
<1>3. CASE Source # "clickhouse"
  <2> DEFINE n == PartNum + ReadParallelism
  <2>1. /\ Len(partPtr) = n /\ n \in Nat /\ PartNum <= n
        /\ \A i \in 1..n : partPtr[i] = IF i <= PartNum THEN PartNum - i ELSE Sentinel
    BY <1>1, <1>3 DEF Init, InitialParts
  <2> HIDE DEF n
  <2>2. Queued = 1..PartNum
    BY <1>1, <2>1 DEF Queued, Sentinel
  <2>3. ASSUME NEW p \in 0..(PartNum - 1) PROVE \E i \in Queued : partPtr[i] = p
    <3>1. PartNum - p \in 1..PartNum /\ PartNum - p \in 1..n /\ PartNum - (PartNum - p) = p
      BY <1>1, <2>1
    <3>2. partPtr[PartNum - p] = p
      BY <1>1, <2>1, <3>1
    <3> QED BY <2>2, <3>1, <3>2
  <2>4. \A i \in Queued : partPtr[i] = PartNum - i
    BY <1>1, <2>1, <2>2
  <2>5. \A i, j \in 1..n : i < j /\ partPtr[i] = Sentinel => partPtr[j] = Sentinel
    BY <1>1, <2>1 DEF Sentinel
  <2> QED BY <1>1, <2>1, <2>2, <2>3, <2>4, <2>5
<1> QED BY <1>2, <1>3

\* At the start no row has been read, and every row is in a partition.
LEMMA RowsInit ==
  ASSUME Init
  PROVE  RowsInv /\ (WholeFiles => Kept)
<1>0. /\ \A t \in Threads : /\ pc[t] = StartPC[Stage(t)]
                            /\ loc[t].in = NoBuffer /\ loc[t].out = NoBuffer /\ loc[t].off = 0
      /\ \A b \in Buffers : content[b] = <<>>
      /\ \A r \in Readers : cursor[r].line = 0 /\ cursor[r].pos = 0
      /\ \A r \in Rows : sent[r] = 0
      /\ NoBuffer \notin Buffers /\ Readers \subseteq Threads
  BY BufferFacts DEF Init, Threads
<1>1. KeepInv
  <2> SUFFICES ASSUME NEW t \in Threads PROVE KeepRight(t, pc[t], loc[t], content)
    BY DEF KeepInv
  <2>1. StartPC[Stage(t)] \in {"popPart", "popFree", "pop", "popFirst", "bind"}
    BY ThreadFacts DEF StartPC
  <2> QED BY <1>0, <2>1 DEF KeepRight, After
<1>2. ASSUME NEW r \in Readers
      PROVE  ~Reading(r) /\ pc[r] \notin After /\ ~(Parquet /\ pc[r] \in {"popFree", "readFile"})
  <2>1. Stage(r) = "read"
    BY <1>0, ThreadFacts
  <2>2. pc[r] = IF Source = "parquet" THEN "popPart" ELSE "popFree"
    BY <1>0, <2>1 DEF StartPC
  <2> QED BY <2>2 DEF Reading, ReadingAt, After, Parquet
<1>3. ReadersInv
  <2>1. PartsInv
    BY <1>2, FirstParts DEF PartsInv
  <2>2. \A r \in Readers : CursorKept(r)
    BY <1>0, <1>2 DEF CursorKept
  <2> QED BY <2>1, <2>2 DEF ReadersInv
<1>4. \A b \in Buffers, i \in Nat : ~Live(pc, loc, content, b, i)
  <2>1. \A b \in Buffers : Len(content[b]) = 0
    BY <1>0
  <2> QED BY <2>1 DEF Live
<1>5. Unread \subseteq Rows
  BY DEF Unread
<1>6. Apart(pc, loc, content, sent, Unread)
  BY <1>0, <1>4, <1>5 DEF Apart
<1>7. ASSUME WholeFiles PROVE Kept
  <2>1. ASSUME NEW r \in Rows PROVE r \in Unread
    <3>1. PICK p \in 0..(PartNum - 1) : r \in PartRows(p)
      BY <1>7, PartRowsCover
    <3>2. PICK i \in Queued : partPtr[i] = p
      BY FirstParts
    <3> QED BY <3>1, <3>2 DEF Unread
  <2> QED BY <2>1 DEF Kept, Found
<1> QED BY <1>1, <1>3, <1>6, <1>7 DEF RowsInv

-----------------------------------------------------------------------------
(* What serve() has sent when it returns. *)

\* What Apart says of the rows that were sent.
LEMMA SentAtMostOnce ==
  ASSUME PipelineInv, RowsInv
  PROVE  NoRowTwice
<1>1. DOMAIN sent = Rows
  BY DEF PipelineInv, FullTypes, TypeOK
<1>2. \A r \in Rows : sent[r] <= 1
  BY DEF RowsInv, Apart
<1> QED BY <1>1, <1>2 DEF NoRowTwice

\* No row is sent twice, for every number of threads, size of the pool and of the
\* table, in every interleaving and with every fault, as long as a CSV file has one
\* reader: a deserializer that fills several buffers from one, or one from several,
\* repeats no tuple; compressors that swap their two buffers send neither twice; and
\* no buffer is sent again after it was released.
THEOREM RowsNotSentTwice ==
  ASSUME CsvAlone
  PROVE  Spec => []NoRowTwice
<1>1. Init => RowsInv
  BY RowsInit
<1>2. PipelineInv /\ RowsInv /\ [Next]_vars => RowsInv'
  BY NextRows DEF RowsStep
<1>3. PipelineInv /\ RowsInv => NoRowTwice
  BY SentAtMostOnce
<1> QED BY <1>1, <1>2, <1>3, PipelineInvariant, PTL DEF Spec

\* If no compressor drops a buffer and none is cut short, every row is unread, at a
\* live place or sent.
THEOREM NoRowLost ==
  ASSUME CsvAlone, WholeFiles, Lossless
  PROVE  Spec => [](RowsInv /\ Kept)
<1>1. Init => RowsInv /\ Kept
  BY RowsInit
<1>2. PipelineInv /\ RowsInv /\ Kept /\ [Next]_vars => RowsInv' /\ Kept'
  BY NextRows DEF RowsStep
<1> QED BY <1>1, <1>2, PipelineInvariant, PTL DEF Spec

\* serve() returns after its send threads, which end early only when a write fails;
\* and ClickHouse readers leave the deserializers' queue alone.
EndInv ==
  /\ serve \in {"joinRead", "done"} => \A s \in Senders : Ended(s)
  /\ \A s \in Senders : pc[s] = "failed" => "send" \in Faults
  /\ Source = "clickhouse" => queue.deser = <<>>

\* Where the main thread is, no thread of a stage changes, but for an exception.
LEMMA ServeStays ==
  ASSUME NEW t \in Threads
  PROVE  /\ Read(t) \/ Deser(t) => serve' = serve \/ serve' = "aborted"
         /\ Compress(t) => serve' = serve
<1>1. ASSUME Read(t) PROVE serve' = serve \/ serve' = "aborted"
  <2>1. CASE OpenFails(t) \/ PopPart(t) \/ ReadLines(t) \/ ReadFile(t) \/ Finish(t)
    BY <2>1 DEF OpenFails, PopPart, ReadLines, ReadFile, Finish, FetchAdd, LoadFinished, PushSentinel
  <2>2. CASE OpenFile(t) \/ FileFails(t) \/ CountFails
    BY <2>2 DEF OpenFile, FileFails, CountFails, Throw
  <2>3. ASSUME NEW from, NEW to, PopFree(t, from, to) \/ PushOut(t, from, to) PROVE serve' = serve
    BY <2>3 DEF PopFree, PushOut
  <2> QED BY <1>1, <2>1, <2>2, <2>3 DEF Read
<1>2. ASSUME Deser(t) PROVE serve' = serve \/ serve' = "aborted"
  BY <1>2 DEF Deser, PopFree, PopFirst, Deserialize, DeserFails, Throw, PushOut, ReleaseIn, PopNext, PopIn, Forward, Finish,
              FetchAdd, LoadFinished, PushSentinel
<1>3. ASSUME Compress(t) PROVE serve' = serve
  BY <1>3 DEF Compress, PopIn, Forward, PopFree, PushCompressed, PushUncompressed, PushIneffective, ReleaseIn,
              Finish, FetchAdd, LoadFinished, PushSentinel
<1> QED BY <1>1, <1>2, <1>3

\* What the steps leave alone of this.
LEMMA EndStep ==
  ASSUME PipelineInv, EndInv, [Next]_vars
  PROVE  EndInv'
<1>0. /\ pc \in [Threads -> PCs] /\ QueueTypes /\ Senders \subseteq Threads
      /\ \A t \in Threads : (t \in Senders <=> Stage(t) = "send") /\ (t \in Desers <=> Stage(t) = "deser")
  BY TypeParts, StageFacts DEF PipelineInv
<1>1. ASSUME NEW t \in Threads, Step(t) PROVE EndInv'
  <2>1. Effect(t) /\ \A u \in Threads : u # t => pc'[u] = pc[u]
    <3>1. Effect(t)
      BY <1>1, ReadEffect, DeserEffect, CompressEffect, SendEffect DEF Step
    <3> QED BY <3>1 DEF Effect, OnlyMoves
  <2>4. Source = "clickhouse" => queue'["deser"] = queue["deser"]
    <3> SUFFICES ASSUME Source = "clickhouse" PROVE queue'["deser"] = queue["deser"]
      OBVIOUS
    <3>1. Stage(t) # "deser" /\ (Stage(t) \in {"read", "deser", "comp"} => NextStage[Stage(t)] # "deser")
      BY <1>0, ThreadFacts DEF Desers, NextStage
    <3>2. "deser" \in DOMAIN queue
      BY <1>0 DEF QueueTypes, QueueNames
    <3>3. ASSUME NEW n, n # "deser", NEW e PROVE Put(n, e) \/ Take(n) => queue'["deser"] = queue["deser"]
      BY <3>2, <3>3 DEF Put, Take
    <3> QED BY <2>1, <3>1, <3>3 DEF Effect, Quiet, Pushes, PopsBuffer, PopsStop, Counts, Looks, Signals, Between
  <2>2. CASE t \in Senders
    <3>1. Stage(t) = "send" /\ Send(t)
      BY <1>0, <1>1, <2>2 DEF Step
    <3>2. /\ pc[t] \in {"bind", "accept", "pop", "write", "release"} /\ serve' = serve
          /\ pc'[t] = "failed" => "send" \in Faults
      <4>1. CASE WriteFails(t)
        BY <4>1 DEF WriteFails
      <4>2. CASE ~WriteFails(t)
        <5>1. PICK s \in {"accept", "pop", "release", "write", "done"} : pc' = [pc EXCEPT ![t] = s]
          BY <3>1, <4>2 DEF Send, Bind, Accept, Write, PopIn, ReleaseIn, Goto
        <5>2. pc[t] \in {"bind", "accept", "pop", "write", "release"} /\ serve' = serve
          BY <3>1 DEF Send, Bind, Accept, Write, WriteFails, PopIn, ReleaseIn
        <5> QED BY <1>0, <5>1, <5>2
      <4> QED BY <4>1, <4>2
    <3> QED BY <1>0, <2>1, <2>2, <2>4, <3>2 DEF EndInv, Ended
  <2>3. CASE t \notin Senders
    <3>1. \A s \in Senders : pc'[s] = pc[s]
      BY <1>0, <2>1, <2>3
    <3>2. serve' \in {"joinRead", "done"} => serve \in {"joinRead", "done"}
      <4>1. Stage(t) # "send"
        BY <1>0, <2>3
      <4>2. serve' = serve \/ serve' = "aborted"
        BY <1>1, <4>1, ServeStays DEF Step
      <4> QED BY <4>2
    <3> QED BY <2>4, <3>1, <3>2 DEF EndInv, Ended
  <2> QED BY <2>2, <2>3
<1>2. CASE Serve
  <2>1. UNCHANGED <<pc, queue>>
    BY <1>2 DEF Serve
  <2> QED BY <1>2, <2>1 DEF EndInv, Serve, Ended
<1>3. CASE UNCHANGED vars
  BY <1>3 DEF vars, EndInv, Ended
<1> QED BY <1>1, <1>2, <1>3 DEF Next, Terminated

\* It holds from the start.
LEMMA EndInvariant == Spec => []EndInv
<1>1. Init => EndInv
  <2> SUFFICES ASSUME Init PROVE EndInv
    OBVIOUS
  <2>1. \A s \in Senders : pc[s] = "bind"
    BY StageFacts DEF Init, StartPC
  <2> QED BY <2>1 DEF Init, EndInv
<1> QED BY <1>1, EndStep, PipelineInvariant, PTL DEF Spec

\* What a thread keeps that has pushed its last buffer.
LEMMA KeptAtEnd ==
  ASSUME NEW t, NEW s, NEW v, NEW c, KeepRight(t, s, v, c), s \in After \ {"pushLast"}
  PROVE  /\ v.in = NoBuffer
         /\ v.out \in Buffers => \/ Stage(t) = "deser" /\ c[v.out] = <<>>
                                 \/ /\ Stage(t) = "read" /\ Source = "clickhouse"
                                    /\ Len(c[v.out]) < LinesPerBuffer
         /\ Stage(t) = "send" => v.out = NoBuffer
BY DEF KeepRight

\* When serve() returns and no write has failed, all partitions have been read, and
\* only the buffer that is not full of a ClickHouse reader still has rows.
LEMMA AtTheEnd ==
  ASSUME PipelineInv, RowsInv, EndInv, SendersEndLast, "send" \notin Faults, serve = "done"
  PROVE  /\ Unread = {}
         /\ \A t \in Readers : pc[t] \in After \ {"pushLast"} /\ loc[t].in = NoBuffer
         /\ \A b \in Buffers, i \in Nat : Live(pc, loc, content, b, i) =>
              Source = "clickhouse" /\ \E t \in Readers : loc[t].out = b
<1>0. /\ Readers \subseteq Threads /\ Threads = Readers \cup Desers \cup Comps \cup Senders
      /\ \A t \in Threads : /\ (t \in Readers <=> Stage(t) = "read") /\ (t \in Desers <=> Stage(t) = "deser")
                            /\ (t \in Comps <=> Stage(t) = "comp") /\ (t \in Senders <=> Stage(t) = "send")
      /\ NoBuffer \notin Buffers /\ Sentinel \notin Buffers
  BY StageFacts, BufferFacts DEF Threads
<1>1. /\ \A s \in Senders : pc[s] = "done"
      /\ <<"send", 1>> \in Senders
  BY ParallelismAssumption DEF EndInv, Ended, Senders
<1>2. /\ \A i \in 1..Len(queue.send) : queue.send[i] = Sentinel
      /\ \A i \in 1..Len(queue.comp) : queue.comp[i] = Sentinel
      /\ \A i \in 1..Len(queue.deser) : queue.deser[i] = Sentinel
      /\ \A t \in Comps \cup Desers \cup Readers : pc[t] \in {"load", "signal", "done"}
  <2>1. \E s \in Senders : pc[s] = "done"
    BY <1>1
  <2>2. Source = "clickhouse" => \A i \in 1..Len(queue.deser) : queue.deser[i] = Sentinel
    BY DEF EndInv
  <2> QED BY <2>1, <2>2 DEF SendersEndLast
<1>3. \A t \in Threads : pc[t] \in After \ {"pushLast"} /\ pc[t] # "release"
  BY <1>0, <1>1, <1>2 DEF After
<1>4. ASSUME NEW t \in Threads
      PROVE  /\ loc[t].in = NoBuffer
             /\ loc[t].out \in Buffers => content[loc[t].out] = <<>> \/ (t \in Readers /\ Source = "clickhouse")
  <2>1. KeepRight(t, pc[t], loc[t], content)
    BY RowFacts
  <2>3. pc[t] \in After \ {"pushLast"}
    BY <1>3
  <2>4. /\ loc[t].in = NoBuffer
        /\ loc[t].out \in Buffers => \/ Stage(t) = "deser" /\ content[loc[t].out] = <<>>
                                     \/ /\ Stage(t) = "read" /\ Source = "clickhouse"
                                        /\ Len(content[loc[t].out]) < LinesPerBuffer
    BY ONLY <2>1, <2>3, KeptAtEnd
  <2> QED BY <1>0, <2>4
<1>5. Unread = {}
  <2>1. Queued = {}
    <3>1. <<"read", 1>> \in Readers
      BY ParallelismAssumption DEF Readers
    <3> QED BY <1>0, <1>3, <3>1 DEF RowsInv, ReadersInv, PartsInv
  <2>2. \A r \in Readers : ~Reading(r)
    BY <1>0, <1>3 DEF Reading, ReadingAt, After
  <2> QED BY <2>1, <2>2 DEF Unread
<1>6. ASSUME NEW b \in Buffers, NEW i \in Nat, Live(pc, loc, content, b, i)
      PROVE  Source = "clickhouse" /\ \E t \in Readers : loc[t].out = b
  <2>1. content[b] # <<>>
    BY <1>6 DEF Live
  <2>2. /\ DOMAIN queue = {"free", "deser", "comp", "send"} /\ FreeEmpty
        /\ SomePlace(Buffers, queue, Held)
    BY TypeParts DEF PipelineInv, QueueTypes, QueueNames, RoomInv, PlaceInv
  <2>3. \A n \in DOMAIN queue : \A j \in 1..Len(queue[n]) : queue[n][j] # b
    <3>1. \A j \in 1..Len(queue.free) : queue.free[j] # b
      BY <2>1, <2>2 DEF FreeEmpty
    <3> QED BY <1>0, <1>2, <2>2, <3>1
  <2>4. PICK s \in DOMAIN Held : Held[s] = b
    BY <2>2, <2>3 DEF SomePlace
  <2>5. s[1] \in Threads /\ s[2] \in {"in", "out"} /\ loc[s[1]][s[2]] = b
    <3>1. DOMAIN loc = Threads
      BY TypeParts DEF PipelineInv
    <3> QED BY <2>4, <3>1 DEF Held, ThreadSlots
  <2>6. loc[s[1]].out = b
    BY <1>0, <1>4, <2>5
  <2> QED BY <1>4, <2>1, <2>5, <2>6
<1> QED BY <1>0, <1>3, <1>4, <1>5, <1>6

\* A row of the table is sent once: when serve() returns no row of a CSV file with
\* one reader, of a parquet table whose files all have full buffers, or of a
\* postgres table is missing or was sent twice, for every number of threads and
\* size of the pool, if no write fails and compressors drop no buffer.
THEOREM EveryRowSentOnce ==
  ASSUME CsvAlone, WholeFiles, Lossless, "send" \notin Faults, Source # "clickhouse"
  PROVE  Spec => []RowsSentOnce
<1>1. ASSUME PipelineInv, RowsInv, Kept, EndInv, SendersEndLast PROVE RowsSentOnce
  <2>1. NoRowTwice
    BY <1>1, SentAtMostOnce
  <2>2. ASSUME serve = "done", NEW r \in Rows PROVE sent[r] = 1
    <3>1. Unread = {} /\ \A b \in Buffers, i \in Nat : ~Live(pc, loc, content, b, i)
      BY <1>1, <2>2, AtTheEnd
    <3> QED BY <1>1, <3>1 DEF Kept, Found
  <2> QED BY <2>1, <2>2 DEF RowsSentOnce
<1> QED BY <1>1, NoRowLost, EndInvariant, NothingLeftBehind, PipelineInvariant, PTL

\* A row occurs in a buffer if it is at one of its places.
LEMMA OccursSome ==
  ASSUME NEW rows \in Seq(Rows), NEW r
  PROVE  Occurrences(r, rows) > 0 <=> \E i \in 1..Len(rows) : rows[i] = r
<1> DEFINE I == {i \in 1..Len(rows) : rows[i] = r}
<1>1. IsFiniteSet(I)
  <2>1. Len(rows) \in Nat
    OBVIOUS
  <2>2. IsFiniteSet(1..Len(rows))
    BY <2>1, FS_Interval
  <2> QED BY <2>2, FS_Subset
<1>2. Cardinality(I) \in Nat /\ (Cardinality(I) = 0 <=> I = {})
  BY <1>1, FS_CardinalityType, FS_EmptySet
<1>3. Occurrences(r, rows) = Cardinality(I)
  BY DEF Occurrences
<1>4. I # {} <=> \E i \in 1..Len(rows) : rows[i] = r
  OBVIOUS
<1> HIDE DEF I
<1> QED BY <1>2, <1>3, <1>4

\* The readers that keep row r at the end: none if it was sent, one if not.
LEMMA KeptOnce ==
  ASSUME PipelineInv, RowsInv, Kept, EndInv, SendersEndLast, "send" \notin Faults, serve = "done", NEW r \in Rows
  PROVE  sent[r] + Cardinality({t \in Readers : Occurrences(r, KeptBy(t)) > 0}) = 1
<1> DEFINE T == {t \in Readers : Occurrences(r, KeptBy(t)) > 0}
<1>0. /\ Readers \subseteq Threads /\ content \in [Buffers -> Seq(Rows)] /\ NoBuffer \notin Buffers
      /\ loc \in [Threads -> LocType] /\ QueueTypes /\ PlaceInv
      /\ sent[r] \in Nat /\ sent[r] <= 1
  <2>1. sent[r] \in Nat
    BY DEF PipelineInv, FullTypes, TypeOK
  <2>2. sent[r] <= 1
    BY DEF RowsInv, Apart
  <2> QED BY <2>1, <2>2, TypeParts, StageFacts, BufferFacts DEF PipelineInv
<1>1. /\ Unread = {}
      /\ \A t \in Readers : loc[t].in = NoBuffer
      /\ \A b \in Buffers, i \in Nat : Live(pc, loc, content, b, i) => \E t \in Readers : loc[t].out = b
  BY AtTheEnd
<1>2. ASSUME NEW t \in Readers
      PROVE  t \in T <=> /\ loc[t].out \in Buffers
                         /\ \E i \in 1..Len(content[loc[t].out]) : content[loc[t].out][i] = r
  <2>1. loc[t].out \in Buffers \cup {NoBuffer}
    BY <1>0 DEF LocType
  <2>2. CASE loc[t].out = NoBuffer
    <3>1. KeptBy(t) = <<>> /\ \A i \in 1..Len(<<>>) : FALSE
      BY <2>2 DEF KeptBy
    <3>3. Occurrences(r, <<>>) = 0
      BY <3>1, OccursOnce
    <3>2. ~(Occurrences(r, KeptBy(t)) > 0)
      BY <3>1, <3>3
    <3> QED BY <1>0, <2>2, <3>2
  <2>3. CASE loc[t].out \in Buffers
    <3>1. KeptBy(t) = content[loc[t].out] /\ content[loc[t].out] \in Seq(Rows)
      BY <1>0, <2>3 DEF KeptBy
    <3> QED BY <2>3, <3>1, OccursSome
  <2> QED BY <2>1, <2>2, <2>3
<1>3. ASSUME NEW t \in T
      PROVE  /\ t \in Readers /\ loc[t].out \in Buffers
             /\ \E i \in Nat : Live(pc, loc, content, loc[t].out, i) /\ content[loc[t].out][i] = r
  <2>1. t \in Readers
    OBVIOUS
  <2>2. PICK i \in 1..Len(content[loc[t].out]) : content[loc[t].out][i] = r
    BY <1>2, <2>1
  <2>3. loc[t].out \in Buffers /\ loc[t].in # loc[t].out
    BY <1>0, <1>1, <1>2, <2>1
  <2>4. i \in Nat
    OBVIOUS
  <2>5. Live(pc, loc, content, loc[t].out, i)
    BY <1>0, <2>1, <2>2, <2>3, <2>4, LiveBefore
  <2> QED BY <2>1, <2>2, <2>3, <2>4, <2>5
<1> HIDE DEF T
<1>4. ASSUME NEW t \in T, NEW u \in T PROVE t = u
  <2>1. PICK i \in Nat : Live(pc, loc, content, loc[t].out, i) /\ content[loc[t].out][i] = r
    BY <1>3
  <2>2. PICK j \in Nat : Live(pc, loc, content, loc[u].out, j) /\ content[loc[u].out][j] = r
    BY <1>3
  <2>3. loc[t].out = loc[u].out
    BY <1>3, <2>1, <2>2 DEF RowsInv, Apart
  <2> QED BY <1>0, <1>3, <2>3, HeldApart
<1>5. CASE sent[r] = 1
  <2>1. T = {}
    BY <1>3, <1>5 DEF RowsInv, Apart
  <2>2. Cardinality(T) = 0
    BY <2>1, FS_EmptySet
  <2> QED BY <1>5, <2>2 DEF T
<1>6. CASE sent[r] # 1
  <2>1. PICK b \in Buffers, i \in Nat : Live(pc, loc, content, b, i) /\ content[b][i] = r
    BY <1>1, <1>6 DEF Kept, Found
  <2>2. PICK t \in Readers : loc[t].out = b
    BY <1>1, <2>1
  <2>3. t \in T
    BY <1>2, <2>1, <2>2 DEF Live
  <2>4. T = {t}
    BY <1>4, <2>3
  <2>5. Cardinality(T) = 1
    BY <2>4, FS_Singleton, Zenon
  <2> QED BY <1>0, <1>6, <2>5 DEF T
<1> QED BY <1>5, <1>6

\* A ClickHouse table, without compression: if the bytes send() reads for the size of
\* a buffer, which has no header, are never below the size of the buffer, then when
\* serve() returns every row has been written to one socket, once, or is in the buffer
\* one reader has kept, and every such buffer has room for another row, for every
\* number of threads and size of the pool.  What a client makes of such a buffer is
\* not said.
THEOREM EveryRowSentOrKept ==
  ASSUME Lossless, "send" \notin Faults, Source = "clickhouse"
  PROVE  Spec => []RowsSentOrKept
<1>1. CsvAlone /\ WholeFiles
  BY DEF CsvAlone, WholeFiles, Parquet
<1>2. ASSUME PipelineInv, RowsInv, Kept, EndInv, SendersEndLast PROVE RowsSentOrKept
  <2>1. NoRowTwice
    BY <1>2, SentAtMostOnce
  <2>2. ASSUME serve = "done", NEW t \in Readers PROVE Len(KeptBy(t)) < LinesPerBuffer
    <3>1. pc[t] \in After \ {"pushLast"}
      BY <1>2, <2>2, AtTheEnd
    <3>2. t \in Threads /\ Stage(t) = "read"
      BY StageFacts
    <3>3. KeepRight(t, pc[t], loc[t], content) /\ loc[t].out \in Buffers \cup {NoBuffer}
      BY <1>2, <3>2, RowFacts
    <3>4. loc[t].out \in Buffers => Len(content[loc[t].out]) < LinesPerBuffer
      BY <3>1, <3>2, <3>3, KeptAtEnd
    <3>5. LinesPerBuffer \in Nat \ {0} /\ NoBuffer \notin Buffers /\ Len(<<>>) = 0
      BY SizesAssumption, BufferFacts
    <3> QED BY <3>3, <3>4, <3>5 DEF KeptBy
  <2>3. ASSUME serve = "done", NEW r \in Rows
        PROVE  sent[r] + Cardinality({t \in Readers : Occurrences(r, KeptBy(t)) > 0}) = 1
    BY <1>2, <2>3, KeptOnce
  <2> QED BY <2>1, <2>2, <2>3 DEF RowsSentOrKept
<1>3. Spec => [](RowsInv /\ Kept)
  BY <1>1, NoRowLost
<1> QED BY <1>2, <1>3, EndInvariant, NothingLeftBehind, PipelineInvariant, PTL
=============================================================================

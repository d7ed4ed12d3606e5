--------------------------- MODULE HwelTableProofs ---------------------------
(***************************************************************************)
(* For every size of a byte, every growth that divides it, every element   *)
(* size and every order of set-ups, failures, look-ups and clean-ups: core *)
(* 1 stays inside the memory of its table until a row cannot grow or a     *)
(* source has been set up more often than a byte can count, and until then *)
(* the table is ElementTable's.                                            *)
(***************************************************************************)
EXTENDS HwelTable, SequenceTheorems, TLAPS

\* What holds of a row while memory is kept: its length is the number of elements
\* it holds and no more than were set up; a live array has room for them, and its
\* size is a multiple of what it grows by, so that only the largest byte wraps.
RowKept(r, n) ==
    /\ Len(r.cells) = r.len
    /\ r.len <= n
    /\ r.state = "none" => r = NoRow
    /\ r.state = "live" =>
         /\ r.len <= r.size /\ r.size <= r.cap
         /\ \E k \in Nat : r.size = k * Growth

\* The inductive invariant.
TableInv ==
    /\ TypeOK
    /\ MemoryKept
    /\ wild \/ \A s \in Sources : RowKept(rows[s], setups[s])

-----------------------------------------------------------------------------

LEMMA Sizes ==
    /\ MaxByte \in Nat /\ Growth \in Nat /\ 1 <= Growth /\ Growth <= MaxByte
    /\ Room \in Nat /\ 1 <= Room
    /\ \E k \in Nat : MaxByte = k * Growth
  BY SizesAssumption

\* A byte that is small enough stays what it is.
LEMMA ByteOfSmall ==
    /\ \A n \in Nat : Byte(n) \in 0..MaxByte
    /\ \A n \in Nat : n <= MaxByte => Byte(n) = n
    /\ Byte(MaxByte + 1) = 0
<1>1. MaxByte + 1 \in Nat /\ 1 <= MaxByte + 1
  BY Sizes
<1>2. \A m \in Nat : 1 <= m => \A n \in Nat : (n % m) \in 0..m - 1
  OBVIOUS
<1>3. \A m \in Nat : 1 <= m => \A n \in Nat : n < m => n % m = n
  OBVIOUS
<1>4. \A m \in Nat : 1 <= m => m % m = 0
  OBVIOUS
<1>5. \A n \in Nat : Byte(n) \in 0..(MaxByte + 1) - 1
  BY <1>1, <1>2 DEF Byte
<1>6. \A n \in Nat : n < MaxByte + 1 => Byte(n) = n
  BY <1>1, <1>3 DEF Byte
<1>7. Byte(MaxByte + 1) = 0
  BY <1>1, <1>4 DEF Byte
<1> QED
  BY <1>5, <1>6, <1>7, Sizes

\* The multiples of the growth are at least the growth apart.
LEMMA Multiples ==
    ASSUME NEW g \in Nat, NEW k \in Nat, NEW m \in Nat, k * g < m * g
    PROVE  k * g + g <= m * g /\ k * g + g = (k + 1) * g
<1>1. k < m
  <2>1. m <= k => m * g <= k * g
    OBVIOUS
  <2> QED
    BY <2>1
<1>2. (k + 1) * g <= m * g
  BY <1>1
<1>3. (k + 1) * g = k * g + g
  OBVIOUS
<1> QED
  BY <1>2, <1>3

\* An array with room for as many elements of the larger type has room for more.
LEMMA Roomy == \A n \in Nat : n <= n * Room
<1>1. \A n, m \in Nat : 1 <= m => n <= n * m
  OBVIOUS
<1> QED
  BY <1>1, Sizes

\* The fields of a row.
LEMMA RowFields ==
    \A r \in Row :
        /\ r.state \in {"none", "live", "freed"}
        /\ r.len \in 0..MaxByte /\ r.size \in 0..MaxByte /\ r.cap \in Nat
        /\ r.cells \in Seq(Elements)
  BY DEF Row

\* A full array that is not at the largest byte grows by what it should.
LEMMA GrowsEnough ==
    ASSUME NEW r \in Row, NEW n \in Nat, RowKept(r, n), r.state = "live", r.len < MaxByte, Full(r)
    PROVE  /\ Grown(r) \in Row /\ RowKept(Grown(r), n)
           /\ Grown(r).len = r.len /\ Grown(r).len < Grown(r).cap /\ Grown(r).len < Grown(r).size
           /\ Grown(r).cells = r.cells /\ Grown(r).state = r.state
<1>1. r.len = r.size /\ r.size \in Nat /\ r.size < MaxByte /\ r.cap \in Nat
  BY RowFields, Sizes DEF Full
<1>2. PICK k \in Nat : r.size = k * Growth
  BY DEF RowKept
<1>3. PICK m \in Nat : MaxByte = m * Growth
  BY Sizes
<1>4. r.size + Growth <= MaxByte /\ r.size + Growth = (k + 1) * Growth
  BY <1>1, <1>2, <1>3, Sizes, Multiples
<1> DEFINE size == r.size + Growth
<1>5. size \in Nat /\ size \in 0..MaxByte /\ r.len < size
  BY <1>1, <1>4, Sizes
<1>6. Byte(size) = size
  BY <1>4, <1>5, ByteOfSmall
<1>7. size * Room \in Nat /\ size <= size * Room
  <2> HIDE DEF size
  <2> QED
    BY <1>5, Roomy, Sizes
<1>8. k + 1 \in Nat /\ size = (k + 1) * Growth
  BY <1>4
<1>9. Grown(r) = [r EXCEPT !.size = size, !.cap = size * Room]
  BY <1>6 DEF Grown
<1> HIDE DEF size
<1>10. Grown(r) \in Row
  BY <1>5, <1>7, <1>9 DEF Row
<1>11. /\ Grown(r).len = r.len /\ Grown(r).size = size /\ Grown(r).cap = size * Room
       /\ Grown(r).cells = r.cells /\ Grown(r).state = r.state
  BY <1>9 DEF Row
<1>12. r.len < size * Room /\ r.len <= size
  <2> DEFINE c == size * Room
  <2>1. c \in Nat /\ size <= c
    BY <1>7
  <2> HIDE DEF c
  <2>2. r.len < c /\ r.len <= size
    BY <1>1, <1>5, <2>1
  <2> QED
    BY <2>2 DEF c
<1>13. \E j \in Nat : size = j * Growth
  BY <1>8
<1> QED
  BY <1>5, <1>7, <1>10, <1>11, <1>12, <1>13 DEF RowKept

\* An element put behind the others, where there is room.
LEMMA PutKeeps ==
    ASSUME TypeOK, NEW s \in Sources, NEW e \in Elements, NEW r \in Row, NEW n \in Nat,
           RowKept(r, n), r.state = "live", r.len < MaxByte, r.len < r.cap, r.len < r.size,
           ~wild, Put(s, r, e)
    PROVE  /\ ~wild'
           /\ rows' = [rows EXCEPT ![s] = [r EXCEPT !.len = r.len + 1, !.cells = Append(@, e)]]
           /\ [r EXCEPT !.len = r.len + 1, !.cells = Append(@, e)] \in Row
           /\ RowKept([r EXCEPT !.len = r.len + 1, !.cells = Append(@, e)], n + 1)
<1>1. r.len \in Nat /\ r.len + 1 <= MaxByte /\ r.cap \in Nat /\ r.size \in Nat /\ r.cells \in Seq(Elements)
  BY RowFields, Sizes
<1>2. Byte(r.len + 1) = r.len + 1 /\ r.len + 1 \in 1..r.cap /\ r.len + 1 \in 0..MaxByte
  BY <1>1, ByteOfSmall, Sizes
<1>3. /\ ~wild'
      /\ rows' = [rows EXCEPT ![s] = [r EXCEPT !.len = r.len + 1, !.cells = Append(@, e)]]
  BY <1>2 DEF Put
<1> DEFINE q == [r EXCEPT !.len = r.len + 1, !.cells = Append(@, e)]
<1>4. Append(r.cells, e) \in Seq(Elements) /\ Len(Append(r.cells, e)) = Len(r.cells) + 1
  BY <1>1
<1>5. q \in Row
  BY <1>2, <1>4 DEF Row
<1>6. /\ q.len = r.len + 1 /\ q.size = r.size /\ q.cap = r.cap /\ q.state = r.state
      /\ q.cells = Append(r.cells, e)
  BY DEF Row
<1> HIDE DEF q
<1>7. RowKept(q, n + 1)
  BY <1>1, <1>4, <1>6 DEF RowKept
<1> QED
  BY <1>3, <1>5, <1>7 DEF q

\* One more set-up of a source that has an array: at the largest byte core 1 leaves
\* its memory, and before it the row has one more element.
LEMMA ExistingStep ==
    ASSUME TableInv, NEW s \in Sources, NEW e \in Elements, AddExisting(s, e)
    PROVE  /\ ~wild /\ setups' = [setups EXCEPT ![s] = @ + 1] /\ found' = found
           /\ \/ wild' /\ rows' = rows /\ setups[s] >= MaxByte
              \/ /\ ~wild'
                 /\ \E q \in Row :
                      /\ rows' = [rows EXCEPT ![s] = q]
                      /\ RowKept(q, setups[s] + 1)
                      /\ q.cells = Append(rows[s].cells, e)
<1> DEFINE r == rows[s]
           n == setups[s]
<1>1. /\ ~wild /\ setups' = [setups EXCEPT ![s] = @ + 1] /\ found' = found /\ r.state = "live"
      /\ Put(s, IF Full(r) THEN Grown(r) ELSE r, e)
  BY DEF AddExisting, SetUp
<1>2. r \in Row /\ n \in Nat /\ RowKept(r, n) /\ TypeOK
  BY <1>1 DEF TableInv, TypeOK
<1> HIDE DEF r, n
<1>3. /\ r.len \in 0..MaxByte /\ r.size \in 0..MaxByte /\ r.cap \in Nat /\ r.cells \in Seq(Elements)
      /\ r.len <= r.size /\ r.size <= r.cap /\ r.len <= n
  BY <1>1, <1>2, RowFields DEF RowKept
<1>4. CASE r.len = MaxByte
  <2>1. r.size = r.len
    BY <1>3, <1>4, Sizes
  <2>2. Put(s, Grown(r), e)
    BY <1>1, <2>1 DEF Full
  <2>3. Grown(r).len = r.len
    BY <1>2 DEF Grown, Row
  <2>4. Byte(Grown(r).len + 1) = 0
    BY <1>4, <2>3, ByteOfSmall
  <2>5. wild' /\ rows' = rows
    <3>1. 0 \notin 1..Grown(r).cap
      OBVIOUS
    <3> QED
      BY <2>2, <2>4, <3>1 DEF Put
  <2> QED
    BY <1>1, <1>3, <1>4, <2>5, Sizes DEF n
<1>5. CASE r.len < MaxByte
  <2>1. PICK t \in Row : /\ RowKept(t, n) /\ t.len < t.cap /\ t.len < t.size /\ t.len < MaxByte
                         /\ t.cells = r.cells /\ t.state = "live" /\ Put(s, t, e)
    <3>1. CASE Full(r)
      <4>1. /\ Grown(r) \in Row /\ RowKept(Grown(r), n)
            /\ Grown(r).len = r.len /\ Grown(r).len < Grown(r).cap /\ Grown(r).len < Grown(r).size
            /\ Grown(r).cells = r.cells /\ Grown(r).state = r.state
        BY <1>1, <1>2, <1>5, <3>1, GrowsEnough
      <4>2. Put(s, Grown(r), e)
        BY <1>1, <3>1
      <4> QED
        BY <1>1, <1>5, <4>1, <4>2
    <3>2. CASE ~Full(r)
      <4>1. r.len < r.size /\ r.len < r.cap
        BY <1>3, <3>2, Sizes DEF Full
      <4>2. Put(s, r, e)
        BY <1>1, <3>2
      <4> QED
        BY <1>1, <1>2, <1>5, <4>1, <4>2
    <3> QED
      BY <3>1, <3>2
  <2> DEFINE q == [t EXCEPT !.len = t.len + 1, !.cells = Append(@, e)]
  <2>2. ~wild' /\ rows' = [rows EXCEPT ![s] = q] /\ q \in Row /\ RowKept(q, n + 1)
    BY <1>1, <1>2, <2>1, PutKeeps
  <2>3. q.cells = Append(r.cells, e)
    BY <2>1 DEF Row
  <2> HIDE DEF q
  <2> QED
    BY <1>1, <2>2, <2>3 DEF r, n
<1> QED
  BY <1>3, <1>4, <1>5, Sizes

\* Every action but PowerCut starts with memory kept, and what it does to one row.
LEMMA OneRow ==
    ASSUME TableInv, ~wild, NEW s \in Sources, NEW q \in Row, RowKept(q, setups[s] + 1),
           rows' = [rows EXCEPT ![s] = q], setups' = [setups EXCEPT ![s] = @ + 1],
           found' = found, wild' = wild
    PROVE  TableInv'
<1>1. TypeOK'
  BY DEF TableInv, TypeOK
<1>2. \A x \in Sources : RowKept(rows'[x], setups'[x])
  <2> TAKE x \in Sources
  <2>1. CASE x = s
    BY <2>1 DEF TableInv, TypeOK
  <2>2. CASE x # s
    BY <2>2 DEF TableInv, TypeOK
  <2> QED
    BY <2>1, <2>2
<1> QED
  BY <1>1, <1>2 DEF TableInv, MemoryKept

LEMMA EmptyRow ==
    /\ NoRow \in Row /\ NoRow.cells = <<>> /\ NoRow.len = 0 /\ NoRow.state = "none"
    /\ RowKept(NoRow, 0) /\ RowKept(NoRow, 1)
<1>1. <<>> \in Seq(Elements) /\ Len(<<>>) = 0
  OBVIOUS
<1> QED
  BY <1>1, Sizes DEF NoRow, Row, RowKept

LEMMA NewRow ==
    ASSUME NEW e \in Elements, NEW n \in Nat
    PROVE  New(e) \in Row /\ RowKept(New(e), n + 1) /\ New(e).cells = Append(<<>>, e)
<1>1. <<e>> \in Seq(Elements) /\ Len(<<e>>) = 1 /\ <<e>> = Append(<<>>, e)
  OBVIOUS
<1>2. Growth = 1 * Growth /\ 1 \in Nat
  BY Sizes
<1>3. \E k \in Nat : Growth = k * Growth
  BY <1>2
<1> QED
  BY <1>1, <1>3, Sizes DEF New, Row, RowKept

LEMMA TableInvInit == Init => TableInv
<1> SUFFICES ASSUME Init PROVE TableInv
  OBVIOUS
<1>1. <<>> \in Seq(Elements)
  OBVIOUS
<1> QED
  BY <1>1, EmptyRow DEF Init, TableInv, TypeOK, MemoryKept

LEMMA TableInvNext == TableInv /\ [Next]_vars => TableInv'
<1> SUFFICES ASSUME TableInv, [Next]_vars PROVE TableInv'
  OBVIOUS
<1>0. /\ TypeOK /\ rows \in [Sources -> Row] /\ setups \in [Sources -> Nat]
  BY DEF TableInv, TypeOK
<1>1. ASSUME NEW s \in Sources, NEW e \in Elements, AddNew(s, e) PROVE TableInv'
  <2>1. /\ ~wild /\ wild' = wild /\ found' = found /\ setups' = [setups EXCEPT ![s] = @ + 1]
        /\ rows' = [rows EXCEPT ![s] = New(e)]
    BY <1>1 DEF AddNew, SetUp
  <2>2. New(e) \in Row /\ RowKept(New(e), setups[s] + 1)
    BY <1>0, NewRow
  <2> QED
    BY <2>1, <2>2, OneRow
<1>2. ASSUME NEW s \in Sources, AddRefused(s) PROVE TableInv'
  <2>1. /\ ~wild /\ wild' = wild /\ found' = found /\ setups' = [setups EXCEPT ![s] = @ + 1]
        /\ rows' = rows /\ rows[s].state = "none"
    BY <1>2 DEF AddRefused, SetUp
  <2>2. rows[s] \in Row /\ rows' = [rows EXCEPT ![s] = rows[s]]
    BY <1>0, <2>1
  <2>3. RowKept(rows[s], setups[s])
    BY <2>1 DEF TableInv
  <2>4. RowKept(rows[s], setups[s] + 1)
    <3>1. rows[s].len \in Nat /\ setups[s] \in Nat
      BY <1>0, <2>2, RowFields
    <3> QED
      BY <2>3, <3>1 DEF RowKept
  <2> QED
    BY <2>1, <2>2, <2>4, OneRow
<1>3. ASSUME NEW s \in Sources, NEW e \in Elements, AddExisting(s, e) PROVE TableInv'
  <2>1. /\ ~wild /\ setups' = [setups EXCEPT ![s] = @ + 1] /\ found' = found
        /\ \/ wild' /\ rows' = rows /\ setups[s] >= MaxByte
           \/ /\ ~wild'
              /\ \E q \in Row :
                   /\ rows' = [rows EXCEPT ![s] = q]
                   /\ RowKept(q, setups[s] + 1)
    BY <1>3, ExistingStep
  <2>2. CASE wild' /\ rows' = rows /\ setups[s] >= MaxByte
    <3>1. setups'[s] > MaxByte
      BY <1>0, <2>1, <2>2, Sizes
    <3>2. wild' = TRUE
      BY <1>3, <2>1, <2>2 DEF AddExisting, Put
    <3>3. TypeOK'
      BY <1>0, <2>1, <2>2, <3>2 DEF TypeOK
    <3> QED
      BY <2>2, <3>1, <3>3 DEF TableInv, MemoryKept
  <2>3. ASSUME ~wild', NEW q \in Row, rows' = [rows EXCEPT ![s] = q], RowKept(q, setups[s] + 1)
        PROVE  TableInv'
    <3>1. wild' = wild
      BY <1>3, <2>1, <2>3 DEF AddExisting, Put
    <3> QED
      BY <2>1, <2>3, <3>1, OneRow
  <2> QED
    BY <2>1, <2>2, <2>3
<1>4. ASSUME NEW s \in Sources, GrowFails(s) PROVE TableInv'
  <2> DEFINE q == [rows[s] EXCEPT !.state = "freed", !.size = Byte(@ + Growth)]
  <2>1. /\ ~wild /\ wild' = wild /\ found' = found /\ setups' = [setups EXCEPT ![s] = @ + 1]
        /\ rows' = [rows EXCEPT ![s] = q]
    BY <1>0, <1>4 DEF GrowFails, SetUp
  <2>2. rows[s] \in Row /\ RowKept(rows[s], setups[s]) /\ setups[s] \in Nat
    BY <1>0, <2>1 DEF TableInv
  <2>3. /\ rows[s].len \in Nat /\ rows[s].size + Growth \in Nat
    BY <2>2, RowFields, Sizes
  <2>4. Byte(rows[s].size + Growth) \in 0..MaxByte
    BY <2>3, ByteOfSmall
  <2>5. q \in Row
    BY <2>2, <2>4 DEF Row
  <2>6. q.state = "freed" /\ q.len = rows[s].len /\ q.cells = rows[s].cells
    BY <2>2 DEF Row
  <2> HIDE DEF q
  <2>7. RowKept(q, setups[s] + 1)
    BY <2>2, <2>3, <2>6 DEF RowKept
  <2> QED
    BY <2>1, <2>5, <2>7, OneRow
<1>5. ASSUME NEW s \in Sources, AddFreed(s) PROVE TableInv'
  <2>1. /\ wild' = TRUE /\ found' = found /\ rows' = rows /\ setups' = [setups EXCEPT ![s] = @ + 1]
        /\ rows[s].state = "freed"
    BY <1>5 DEF AddFreed, SetUp
  <2> QED
    BY <1>0, <2>1 DEF TableInv, TypeOK, MemoryKept
<1>6. ASSUME NEW s \in Sources, find_packet(s) PROVE TableInv'
  <2>1. ~wild /\ rows' = rows /\ setups' = setups
    BY <1>6 DEF find_packet
  <2>2. CASE rows[s].state = "freed"
    <3>1. wild' = TRUE /\ found' = found
      BY <1>6, <2>2 DEF find_packet
    <3> QED
      BY <2>1, <2>2, <3>1 DEF TableInv, TypeOK, MemoryKept
  <2>3. CASE rows[s].state # "freed"
    <3>1. wild' = wild /\ found' = SubSeq(rows[s].cells, 1, rows[s].len)
      BY <1>6, <2>3 DEF find_packet
    <3>2. rows[s].cells \in Seq(Elements) /\ rows[s].len = Len(rows[s].cells)
      BY <1>0, <2>1, RowFields DEF TableInv, RowKept
    <3>3. found' \in Seq(Elements)
      BY <3>1, <3>2
    <3> QED
      BY <2>1, <3>1, <3>3 DEF TableInv, TypeOK, MemoryKept
  <2> QED
    BY <2>2, <2>3
<1>7. CASE delete_all_packets
  <2>1. ~wild /\ found' = found
    BY <1>7 DEF delete_all_packets
  <2>2. CASE \E s \in Sources : rows[s].state = "freed"
    <3>1. wild' = TRUE /\ rows' = rows /\ setups' = setups
      BY <1>7, <2>2 DEF delete_all_packets
    <3> QED
      BY <2>1, <2>2, <3>1 DEF TableInv, TypeOK, MemoryKept
  <2>3. CASE ~ \E s \in Sources : rows[s].state = "freed"
    <3>1. wild' = wild /\ rows' = [s \in Sources |-> NoRow] /\ setups' = [s \in Sources |-> 0]
      BY <1>7, <2>3 DEF delete_all_packets
    <3> QED
      BY <2>1, <3>1, EmptyRow DEF TableInv, TypeOK, MemoryKept
  <2> QED
    BY <2>2, <2>3
<1>8. CASE PowerCut
  <2>1. <<>> \in Seq(Elements)
    OBVIOUS
  <2> QED
    BY <1>8, <2>1, EmptyRow DEF PowerCut, TableInv, TypeOK, MemoryKept
<1>9. CASE UNCHANGED vars
  BY <1>9 DEF vars, TableInv, TypeOK, MemoryKept
<1> QED
  BY <1>1, <1>2, <1>3, <1>4, <1>5, <1>6, <1>7, <1>8, <1>9 DEF Next, add_packet

-----------------------------------------------------------------------------
(* The step simulation *)

LEMMA RefinesInit == Init => Table!Init
  BY DEF Init, NoRow, Table!Init, Table!Empty

\* An element appended to one row of the implementation is appended to the abstract one.
LEMMA RefinesAdd ==
    ASSUME TableInv, ~wild, NEW s \in Sources, NEW e \in Elements, NEW q \in Row,
           rows' = [rows EXCEPT ![s] = q], q.cells = Append(rows[s].cells, e),
           found' = found, wild' = wild
    PROVE  Table!Next
<1>1. rows \in [Sources -> Row]
  BY DEF TableInv, TypeOK
<1>2. [x \in Sources |-> rows'[x].cells]
          = [[x \in Sources |-> rows[x].cells] EXCEPT ![s] = Append(@, e)]
  BY <1>1
<1>3. Table!Add(s, e)
  BY <1>2 DEF Table!Add
<1> QED
  BY <1>3 DEF Table!Next

LEMMA RefinesNext == TableInv /\ [Next]_vars => [Table!Next]_(Table!vars)
<1> SUFFICES ASSUME TableInv, [Next]_vars PROVE [Table!Next]_(Table!vars)
  OBVIOUS
<1>0. rows \in [Sources -> Row] /\ wild \in BOOLEAN
  BY DEF TableInv, TypeOK
<1>a. ASSUME ~wild, wild' PROVE Table!Next
  <2>1. wild' = TRUE
    BY <1>a, TableInvNext DEF TableInv, TypeOK
  <2> QED
    BY <1>a, <2>1 DEF Table!Next, Table!Break
<1>b. ASSUME rows' = rows, found' = found, wild' = wild PROVE UNCHANGED Table!vars
  BY <1>b DEF Table!vars
<1>1. ASSUME NEW s \in Sources, NEW e \in Elements, AddNew(s, e) PROVE Table!Next
  <2>1. /\ ~wild /\ wild' = wild /\ found' = found
        /\ rows' = [rows EXCEPT ![s] = New(e)] /\ rows[s].state = "none"
    BY <1>1 DEF AddNew, SetUp
  <2>2. rows[s].cells = <<>>
    BY <2>1, EmptyRow DEF TableInv, RowKept
  <2>3. New(e) \in Row /\ New(e).cells = Append(rows[s].cells, e)
    BY <2>2, NewRow
  <2> QED
    BY <2>1, <2>3, RefinesAdd
<1>2. ASSUME NEW s \in Sources, AddRefused(s) PROVE UNCHANGED Table!vars
  BY <1>2, <1>b DEF AddRefused, SetUp
<1>3. ASSUME NEW s \in Sources, NEW e \in Elements, AddExisting(s, e) PROVE Table!Next
  <2>1. /\ ~wild /\ found' = found
        /\ \/ wild' /\ rows' = rows /\ setups[s] >= MaxByte
           \/ /\ ~wild'
              /\ \E q \in Row :
                   /\ rows' = [rows EXCEPT ![s] = q]
                   /\ RowKept(q, setups[s] + 1)
                   /\ q.cells = Append(rows[s].cells, e)
    BY <1>3, ExistingStep
  <2>2. CASE wild'
    BY <2>1, <2>2, <1>a
  <2>3. CASE ~wild'
    <3>1. PICK q \in Row : rows' = [rows EXCEPT ![s] = q] /\ q.cells = Append(rows[s].cells, e)
      BY <2>1, <2>3
    <3>2. wild' = wild
      BY <1>3, <2>1, <2>3 DEF AddExisting, Put
    <3> QED
      BY <2>1, <3>1, <3>2, RefinesAdd
  <2> QED
    BY <2>2, <2>3
<1>4. ASSUME NEW s \in Sources, GrowFails(s) PROVE UNCHANGED Table!vars
  <2>1. wild' = wild /\ found' = found
        /\ rows' = [rows EXCEPT ![s].state = "freed", ![s].size = Byte(@ + Growth)]
    BY <1>4 DEF GrowFails, SetUp
  <2>2. \A x \in Sources : rows'[x].cells = rows[x].cells
    BY <1>0, <2>1 DEF Row
  <2>3. [x \in Sources |-> rows'[x].cells] = [x \in Sources |-> rows[x].cells]
    BY <2>2
  <2> QED
    BY <2>1, <2>3 DEF Table!vars
<1>5. ASSUME NEW s \in Sources, AddFreed(s) PROVE Table!Next
  BY <1>5, <1>a DEF AddFreed, SetUp
<1>6. ASSUME NEW s \in Sources, find_packet(s) PROVE Table!Next
  <2>1. CASE rows[s].state = "freed"
    BY <1>6, <1>a, <2>1 DEF find_packet
  <2>2. CASE rows[s].state # "freed"
    <3>1. ~wild /\ wild' = wild /\ rows' = rows /\ found' = SubSeq(rows[s].cells, 1, rows[s].len)
      BY <1>6, <2>2 DEF find_packet
    <3>2. rows[s].cells \in Seq(Elements) /\ rows[s].len = Len(rows[s].cells)
      BY <1>0, <3>1, RowFields DEF TableInv, RowKept
    <3>3. found' = rows[s].cells
      BY <3>1, <3>2
    <3>4. Table!Find(s)
      BY <3>1, <3>3 DEF Table!Find
    <3> QED
      BY <3>4 DEF Table!Next
  <2> QED
    BY <2>1, <2>2
<1>7. ASSUME delete_all_packets PROVE Table!Next
  <2>1. CASE \E s \in Sources : rows[s].state = "freed"
    BY <1>7, <1>a, <2>1 DEF delete_all_packets
  <2>2. CASE ~ \E s \in Sources : rows[s].state = "freed"
    <3>1. ~wild /\ wild' = wild /\ found' = found /\ rows' = [s \in Sources |-> NoRow]
      BY <1>7, <2>2 DEF delete_all_packets
    <3>2. [s \in Sources |-> rows'[s].cells] = [s \in Sources |-> <<>>]
      BY <3>1, EmptyRow
    <3>3. Table!Clear
      BY <3>1, <3>2 DEF Table!Clear, Table!Empty
    <3> QED
      BY <3>3 DEF Table!Next
  <2> QED
    BY <2>1, <2>2
<1>8. ASSUME PowerCut PROVE Table!Next
  <2>1. [s \in Sources |-> rows'[s].cells] = [s \in Sources |-> <<>>]
    BY <1>8, EmptyRow DEF PowerCut
  <2>2. Table!Restart
    BY <1>8, <2>1 DEF PowerCut, Table!Restart, Table!Empty
  <2> QED
    BY <2>2 DEF Table!Next
<1>9. ASSUME UNCHANGED vars PROVE UNCHANGED Table!vars
  BY <1>9, <1>b DEF vars
<1> QED
  BY <1>1, <1>2, <1>3, <1>4, <1>5, <1>6, <1>7, <1>8, <1>9 DEF Next, add_packet

-----------------------------------------------------------------------------

\* Lengths and sizes keep to a byte (hwman.c:50-57).
THEOREM TableTypeCorrect == Spec => []TypeOK
<1>1. TableInv => TypeOK
  BY DEF TableInv
<1> QED
  BY <1>1, TableInvInit, TableInvNext, PTL DEF Spec

\* Core 1 stays inside its memory until an array could not grow or a source was set
\* up more than MaxByte times (hwman.c:77-97).
THEOREM MemoryStaysKept == Spec => []MemoryKept
<1>1. TableInv => MemoryKept
  BY DEF TableInv
<1> QED
  BY <1>1, TableInvInit, TableInvNext, PTL DEF Spec

\* Until then the arrays are the table DualCore takes them for (hwman.c:71-130).
THEOREM TableImplements == Spec => TableRefinement
  BY RefinesInit, RefinesNext, TableInvInit, TableInvNext, PTL
     DEF TableRefinement, Spec, Table!Spec
=============================================================================

------------------------------ MODULE HwelTable ------------------------------
(***************************************************************************)
(* The memory of core 1's table of outputs: hwel_source_table, a hash of   *)
(* sources, each with a growing array of elements (add_packet(),           *)
(* find_packet(), delete_all_packets()).  Allocations may fail, and length *)
(* and size of an array are bytes.                                         *)
(***************************************************************************)
EXTENDS Integers, Sequences

CONSTANTS
    Sources,   \* source ids
    Elements,  \* decoded elements
    MaxByte,   \* largest value of a uint8_t
    Growth,    \* elements an array grows by
    Room,      \* sizeof(hwel_sources) for each sizeof(hwel) in a grown array
    MaxSetups  \* bound: set-ups of each source between two clean-ups

ASSUME SizesAssumption ==
    /\ MaxByte \in Nat /\ Growth \in 1..MaxByte /\ Room \in Nat \ {0}
    /\ \E k \in 1..MaxByte : MaxByte = k * Growth
ASSUME MaxSetupsAssumption == MaxSetups \in [Sources -> Nat]

VARIABLES
    rows,    \* the table: for each source its array
    found,   \* the elements the last control action went through
    wild,    \* memory that is not the table's was read, written or freed
    setups   \* set-ups of each source since the last clean-up

vars == <<rows, found, wild, setups>>

\* A row: its state ("none", "live", or "freed" once its array is gone), the two
\* bytes, the elements its array has room for, and those it holds.
NoRow == [state |-> "none", len |-> 0, size |-> 0, cap |-> 0, cells |-> <<>>]

Init ==
    /\ rows = [s \in Sources |-> NoRow]
    /\ found = <<>>
    /\ wild = FALSE
    /\ setups = [s \in Sources |-> 0]

\* Mutant: lengths and sizes as integers.
Byte_Unbounded(n) == n
Byte(n) == n % (MaxByte + 1)

SetUp(s) ==
    /\ ~wild /\ setups[s] < MaxSetups[s]
    /\ setups' = [setups EXCEPT ![s] = @ + 1]
    /\ UNCHANGED found

-----------------------------------------------------------------------------
(* add_packet() *)

\* The first element of a source.
New(e) == [state |-> "live", len |-> 1, size |-> Growth, cap |-> Growth, cells |-> <<e>>]

AddNew(s, e) ==
    /\ SetUp(s) /\ rows[s].state = "none"
    /\ rows' = [rows EXCEPT ![s] = New(e)]
    /\ UNCHANGED wild

\* One of the two mallocs fails: the element is left out.
AddRefused(s) ==
    /\ SetUp(s) /\ rows[s].state = "none"
    /\ UNCHANGED <<rows, wild>>

\* Mutant: the array is enlarged one element late.
Full_Late(r) == r.len > r.size
Full(r) == r.len = r.size

\* Mutant: a new array instead of the old one, enlarged.
Grown_Malloc(r) ==
    LET n == Byte(r.size + Growth)
    IN  [r EXCEPT !.size = n, !.cap = n * Room, !.cells = <<>>]

\* realloc(): the bytes are counted in the wrong type, which is the larger one.
Grown(r) ==
    LET n == Byte(r.size + Growth)
    IN  [r EXCEPT !.size = n, !.cap = n * Room]

\* len++, and the element goes to len-1.
Put(s, r, e) ==
    LET n == Byte(r.len + 1)
    IN  IF n \in 1..r.cap
          THEN /\ rows' = [rows EXCEPT ![s] = [r EXCEPT !.len = n, !.cells = Append(@, e)]]
               /\ UNCHANGED wild
          ELSE wild' = TRUE /\ UNCHANGED rows

AddExisting(s, e) ==
    /\ SetUp(s) /\ rows[s].state = "live"
    /\ Put(s, IF Full(rows[s]) THEN Grown(rows[s]) ELSE rows[s], e)

\* realloc fails: the array is freed, and the row stays with its size raised.
GrowFails(s) ==
    /\ SetUp(s) /\ rows[s].state = "live" /\ Full(rows[s])
    /\ rows' = [rows EXCEPT ![s].state = "freed", ![s].size = Byte(@ + Growth)]
    /\ UNCHANGED wild

\* The next element goes to an array that is gone.
AddFreed(s) ==
    /\ SetUp(s) /\ rows[s].state = "freed"
    /\ wild' = TRUE /\ UNCHANGED rows

-----------------------------------------------------------------------------
\* A control action: find_packet(), and the loop over the source's elements.
find_packet(s) ==
    /\ ~wild
    /\ IF rows[s].state = "freed"
         THEN wild' = TRUE /\ UNCHANGED found
         ELSE found' = SubSeq(rows[s].cells, 1, rows[s].len) /\ UNCHANGED wild
    /\ UNCHANGED <<rows, setups>>

\* An array that is gone is freed once more.
delete_all_packets ==
    /\ ~wild
    /\ IF \E s \in Sources : rows[s].state = "freed"
         THEN wild' = TRUE /\ UNCHANGED <<rows, setups>>
         ELSE /\ rows' = [s \in Sources |-> NoRow]
              /\ setups' = [s \in Sources |-> 0]
              /\ UNCHANGED wild
    /\ UNCHANGED found

\* Power is cut and comes back.
PowerCut ==
    /\ rows' = [s \in Sources |-> NoRow]
    /\ found' = <<>>
    /\ wild' = FALSE
    /\ setups' = [s \in Sources |-> 0]

add_packet(s, e) ==
    AddNew(s, e) \/ AddRefused(s) \/ AddExisting(s, e) \/ GrowFails(s) \/ AddFreed(s)

Next ==
    \/ \E s \in Sources, e \in Elements : add_packet(s, e)
    \/ \E s \in Sources : find_packet(s)
    \/ delete_all_packets
    \/ PowerCut

Spec == Init /\ [][Next]_vars

-----------------------------------------------------------------------------
(* Properties. *)

Row ==
    [state : {"none", "live", "freed"}, len : 0..MaxByte, size : 0..MaxByte,
     cap : Nat, cells : Seq(Elements)]

TypeOK ==
    /\ rows \in [Sources -> Row]
    /\ found \in Seq(Elements)
    /\ wild \in BOOLEAN
    /\ setups \in [Sources -> Nat]

\* Two things only make core 1 leave its memory, and until one of them happens it
\* never does, however rows grow: an array that could not grow, and more set-ups
\* of one source than a byte can count, which every connection of a browser adds
\* to (hwman.c:77-97, config.c:709).
MemoryKept ==
    wild => \/ \E s \in Sources : rows[s].state = "freed"
            \/ \E s \in Sources : setups[s] > MaxByte

Table == INSTANCE ElementTable WITH
    table <- [s \in Sources |-> rows[s].cells], broken <- wild

\* While memory is kept, a look-up finds each element of its source once, in the
\* order of the set-ups, across every reallocation (hwman.c:71-130).
TableRefinement == Table!Spec
=============================================================================

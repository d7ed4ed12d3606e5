---------------------------- MODULE ElementTable ----------------------------
(***************************************************************************)
(* What DualCore takes the table of core 1 for: a source is given its      *)
(* elements one by one, a look-up finds them all in the order of their     *)
(* set-ups, and a clean-up forgets them.  An element the memory has no     *)
(* room for is left out.  Once the table is broken it promises nothing.    *)
(***************************************************************************)
EXTENDS Sequences

CONSTANTS Sources, Elements

VARIABLES
    table,   \* the elements of each source
    found,   \* what the last look-up found
    broken   \* memory outside the table was used

vars == <<table, found, broken>>

Empty == [s \in Sources |-> <<>>]

Init == table = Empty /\ found = <<>> /\ broken = FALSE

Add(s, e) ==
    /\ ~broken
    /\ table' = [table EXCEPT ![s] = Append(@, e)]
    /\ UNCHANGED <<found, broken>>

Find(s) ==
    /\ ~broken
    /\ found' = table[s]
    /\ UNCHANGED <<table, broken>>

Clear ==
    /\ ~broken
    /\ table' = Empty
    /\ UNCHANGED <<found, broken>>

Break == ~broken /\ broken' = TRUE

Restart == table' = Empty /\ found' = <<>> /\ broken' = FALSE

Next ==
    \/ \E s \in Sources, e \in Elements : Add(s, e)
    \/ \E s \in Sources : Find(s)
    \/ Clear \/ Break \/ Restart

Spec == Init /\ [][Next]_vars
=============================================================================

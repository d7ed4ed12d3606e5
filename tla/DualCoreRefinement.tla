------------------------- MODULE DualCoreRefinement -------------------------
(***************************************************************************)
(* DualCore implements Panel: the device record is what core 1 and the     *)
(* FIFOs will have made of the outputs once everything in flight has been  *)
(* handled.  Starting a callback is the abstract step; marshalling,        *)
(* pushing, popping, filing and driving are stutters.                      *)
(***************************************************************************)
EXTENDS MCDualCore, SequencesExt

\* The operators of the abstract device, on a record passed as argument.
Dev == INSTANCE Panel WITH device <- NoWord

\* The LED after the events core 0 has still to take in.
LedAfterEvents ==
    LET values == {i \in 1..Len(EventStream) : i % 2 = 0 /\ EventStream[i - 1] = 2}
    IN  IF values = {} THEN led ELSE EventStream[Max(values)] # 0

\* The device as core 1 has it now.
Present ==
    [wired |-> UNION {{<<s, i, table[s][i]>> : i \in DOMAIN table[s]} : s \in DOMAIN table},
     outs  |-> {p \in Pins : pins[p].dir = "out"},
     high  |-> {p \in Pins : pins[p].level},
     led   |-> LedAfterEvents]

\* Core 1's progress through the stream: the device, and the first word of a
\* set-up while its second word is awaited.  In the loop over the rows of a
\* source, the rows left are driven first.
Progress ==
    IF pc1 = "drive"
      THEN <<Dev!Switch(Present, ToSet(SubSeq(Driven1, next1 + 1, Len(Driven1))),
                        decode_hwel(op1).value), NoWord>>
      ELSE <<Present, IF pc1 = "ref" THEN op1 ELSE NoWord>>

\* One word more.
Absorb(at, w) ==
    LET d == at[1]
        first == at[2]
        op == decode_hwel(w)
    IN  CASE first # NoWord -> <<Dev!Wire(d, decode_hwrf(w), RowOf(first)), NoWord>>
          [] first = NoWord /\ op.operation = SetupOp -> <<d, w>>
          [] first = NoWord /\ op.operation = ActionOp ->
               <<Dev!Switch(d, {t[3] : t \in Dev!Listeners(d, op.id)}, op.value), NoWord>>
          [] OTHER -> at

InFlight ==
    fifo01 \o out0 \o FlattenSeq([i \in 1..Len(todo0) |-> WordsOf(todo0[i])])

\* As in Panel, a fold over one-element sets.
Flushed ==
    CHOOSE d \in {at[1] : at \in
        FoldLeft(LAMBDA ats, w : {Absorb(at, w) : at \in ats}, {Progress}, InFlight)} : TRUE

P == INSTANCE Panel WITH device <- Flushed

\* However the two cores interleave, whatever is in the FIFOs, a set-up is filed
\* and a command is carried out exactly once, whole, and in the order received
\* (config.c:367-416, websockets.c:271-291, hwman.c:151-277, main.c:82-110).
PanelRefinement == P!Spec
=============================================================================

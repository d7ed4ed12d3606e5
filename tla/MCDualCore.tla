----------------------------- MODULE MCDualCore -----------------------------
(* Small instances of DualCore for TLC. *)
EXTENDS DualCore

Led(id, src) == [kind |-> "setup", ty |-> LED, id |-> id, io |-> 0, src |-> src]
Gpo(id, io, src) == [kind |-> "setup", ty |-> GPO, id |-> id, io |-> io, src |-> src]
Press(id, val) == [kind |-> "command", ty |-> LED, id |-> id, val |-> val, ext |-> <<>>]

\* One element on a source, and two sources whose ids differ in both bytes.
MCConfigs == {<<Led(1, 9)>>, <<Gpo(513, 0, 9), Led(2, 300)>>}
MCPackets == {<<Press(9, 1)>>, <<Press(300, 1), Press(9, 0)>>}
MCUptimes == {5}
MCTemps == {0}
MCPins == {0, 1}
MCJunk == {0, 9}

\* A panel of three LEDs on one button: saved, used once, and saved again.
BlockConfigs == {<<Led(1, 9), Led(2, 9), Led(3, 9)>>}
BlockPackets == {<<Press(9, 1)>>}
NoReadings == {}

\* Commands of more than one payload byte: the words the callback makes of the
\* rest are a clean-up, a set-up of a type core 1 does not know, the first word
\* of a GPO set-up, or nothing core 1 acts on.
Long(id, val, word) == [Press(id, val) EXCEPT !.ext = <<word>>]
StrayPackets ==
    {<<Press(9, 1)>>,
     <<Long(9, 1, <<128, 0>>)>>,
     <<Long(9, 1, OpWord(CleanOp, LED, 9, 0))>>,
     <<Long(9, 1, OpWord(SetupOp, 35, 7, 0)), Press(9, 0)>>,
     <<Long(9, 1, OpWord(SetupOp, GPO, 7, 1))>>}
=============================================================================

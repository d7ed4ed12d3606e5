------------------------------- MODULE Panel --------------------------------
(***************************************************************************)
(* What the controller promises: every packet acts at once and in order on *)
(* one device record, as if there were a single core and no FIFO.          *)
(*                                                                         *)
(*   wired   triples <<source id, position, output>>: the outputs that     *)
(*           listen to a source, numbered in the order they were set up    *)
(*   outs    the GPIOs that are outputs                                    *)
(*   high    the GPIOs whose level is 1                                    *)
(*   led     the LED is on                                                 *)
(***************************************************************************)
EXTENDS SequencesExt

CONSTANTS Configs, Packets, Pins, LED, GPO

VARIABLES stored, device
vars == <<stored, device>>

Blank == [wired |-> {}, outs |-> {}, high |-> {}, led |-> FALSE]

Init == stored = <<>> /\ device = Blank

Listeners(d, src) == {t \in d.wired : t[1] = src}
PinOf(row) == IF row.ty = GPO THEN {row.io} \intersect Pins ELSE {}

\* A set-up wires one more output to a source; a GPIO starts as an output at 0.
Wire(d, src, row) ==
    [wired |-> d.wired \union {<<src, Cardinality(Listeners(d, src)) + 1, row>>},
     outs  |-> d.outs \union PinOf(row),
     high  |-> d.high \ PinOf(row),
     led   |-> d.led]

\* A command switches the given outputs.
Switch(d, rows, val) ==
    LET pins == UNION {PinOf(r) : r \in rows}
    IN  [wired |-> d.wired,
         outs  |-> d.outs,
         high  |-> IF val # 0 THEN d.high \union pins ELSE d.high \ pins,
         led   |-> IF \E r \in rows : r.ty = LED THEN val # 0 ELSE d.led]

Obey(d, m) ==
    IF m.kind = "setup"
      THEN Wire(d, m.src, [ty |-> m.ty, id |-> m.id, io |-> m.io])
      ELSE Switch(d, {t[3] : t \in Listeners(d, m.id)}, m.val)

\* The fold runs over one-element sets: TLC then evaluates each stage once.
ObeyAll(msgs) ==
    device' \in FoldLeft(LAMBDA ds, m : {Obey(d, m) : d \in ds}, {device}, msgs)

\* A browser connects, saves a configuration, or sends commands.
Connect == ObeyAll(stored) /\ UNCHANGED stored
Save(c) == ObeyAll(c) /\ stored' = c
Command(p) == ObeyAll(p) /\ UNCHANGED stored
Restart == device' = Blank /\ UNCHANGED stored

Next ==
    \/ Connect \/ Restart
    \/ \E c \in Configs : Save(c)
    \/ \E p \in Packets : Command(p)

Spec == Init /\ [][Next]_vars
=============================================================================

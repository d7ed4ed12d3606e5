------------------------------ MODULE DualCore ------------------------------
(***************************************************************************)
(* The two cores of the controller and the two hardware FIFOs between      *)
(* them.  Core 0 runs main()'s poll loop: network callbacks turn stored    *)
(* set-up messages and received commands into words for core 1, and the    *)
(* loop takes (tag, value) event pairs off the other FIFO.  Core 1 runs    *)
(* core1_worker(): it reports uptime and temperature, keeps the table of   *)
(* outputs per source element, and drives the outputs.  Both FIFOs are     *)
(* bounded and every push blocks while its FIFO is full.                   *)
(***************************************************************************)
EXTENDS HwWord, Sequences

CONSTANTS
    Depth,        \* words each hardware FIFO holds
    Configs,      \* sequences of set-up messages a 0x0A packet may carry
    Packets,      \* sequences of command messages a 0x01 packet may carry
    Uptimes,      \* readings of the uptime counter
    Temps,        \* raw readings of the core temperature
    Pins,         \* GPIO numbers of the board
    JunkSources,  \* what an uninitialised source_id may hold
    LateRef,      \* may core 0 be later than 1 ms with a second set-up word
    MaxCallbacks  \* bound: network callbacks between two boots

\* A set-up message: an LED carries no pin, so its io is 0.
SetupItem ==
    {m \in [kind : {"setup"}, ty : {LED, GPO}, id : Half, io : Byte, src : Half] :
        m.ty = LED => m.io = 0}

\* A command message: its first payload byte, and the words made of the rest.
CommandItem ==
    [kind : {"command"}, ty : LED..63, id : Half, val : Byte, ext : Seq(Word)]

\* A row of the table: one output element listening to a source.
Row == [ty : LED..63, id : Half, io : Byte]

NoTag == -1
EventTag == {0, 1, 2}

ASSUME DepthAssumption == Depth \in Nat \ {0}
ASSUME ConfigsAssumption == Configs \subseteq Seq(SetupItem)
ASSUME PacketsAssumption == Packets \subseteq Seq(CommandItem)
ASSUME ReadingsAssumption == Uptimes \subseteq Nat /\ Temps \subseteq Nat
ASSUME PinsAssumption == Pins \subseteq Byte
ASSUME JunkAssumption == JunkSources \subseteq Half
ASSUME LateRefAssumption == LateRef \in BOOLEAN
ASSUME BoundAssumption == MaxCallbacks \in Nat

VARIABLES
    stored,     \* set-up messages of the configuration in flash
    callbacks,  \* callbacks run since boot
    pc0,        \* core 0: "poll" (network) or "pop" (event FIFO)
    todo0,      \* core 0: messages the running callback has still to send
    out0,       \* core 0: words of the current message still to push
    tag0,       \* core 0: event tag whose value word is awaited, or NoTag
    fifo01,     \* words on their way from core 0 to core 1
    fifo10,     \* words on their way from core 1 to core 0
    pc1,        \* core 1: where in its loop it is
    op1,        \* core 1: the word being handled
    next1,      \* core 1: rows of the source driven so far
    out1,       \* core 1: event words still to push
    table,      \* core 1: hwel_source_table, source id -> rows
    pins,       \* direction and level of every GPIO
    led         \* the LED of the wireless chip

core0 == <<callbacks, pc0, todo0, out0, tag0>>
core1 == <<pc1, op1, next1, out1>>
fifos == <<fifo01, fifo10>>
hw    == <<table, pins, led>>
vars  == <<stored, core0, core1, fifos, hw>>

NoWord == <<0, 0>>
EmptyTable == [s \in {} |-> <<>>]
IdlePins == [p \in Pins |-> [dir |-> "in", level |-> FALSE]]

\* Everything but flash is volatile: main() and core1_worker() start over.
Booted ==
    /\ callbacks = 0 /\ pc0 = "poll" /\ todo0 = <<>> /\ out0 = <<>> /\ tag0 = NoTag
    /\ pc1 = "uptime" /\ op1 = NoWord /\ next1 = 0 /\ out1 = <<>>
    /\ fifo01 = <<>> /\ fifo10 = <<>>
    /\ table = EmptyTable /\ pins = IdlePins /\ led = FALSE

Init == stored = <<>> /\ Booted

-----------------------------------------------------------------------------
(* Core 0: the network callbacks cyw43_arch_poll() runs. *)

Idle0 == pc0 = "poll" /\ todo0 = <<>> /\ out0 = <<>>

StartCallback(msgs) ==
    /\ Idle0
    /\ callbacks < MaxCallbacks
    /\ callbacks' = callbacks + 1
    /\ todo0' = msgs
    /\ UNCHANGED <<pc0, out0, tag0, core1, fifos, hw>>

\* Mutant: only the first stored set-up is sent.
Upgrade0_FirstOnly == StartCallback(IF stored = <<>> THEN stored ELSE <<Head(stored)>>) /\ UNCHANGED stored

\* A WebSocket opens: retrieve_store() sends the stored set-ups again.
Upgrade0 == StartCallback(stored) /\ UNCHANGED stored

\* Packets come over a WebSocket, so a browser has connected since the boot.
Upgraded == callbacks > 0

\* A configuration packet: write_config(), then every set-up of it.
Save0 == Upgraded /\ \E c \in Configs : StartCallback(c) /\ stored' = c

\* A command packet.
Command0 == Upgraded /\ \E p \in Packets : StartCallback(p) /\ UNCHANGED stored

\* Mutant: the source word is pushed first.
SetupWords_Swapped(m) == <<RefWord(m.src), OpWord(SetupOp, m.ty, m.id, m.io)>>

SetupWords(m) == <<OpWord(SetupOp, m.ty, m.id, m.io), RefWord(m.src)>>
CommandWords(m) == <<OpWord(ActionOp, m.ty, m.id, m.val)>> \o m.ext
WordsOf(m) == IF m.kind = "setup" THEN SetupWords(m) ELSE CommandWords(m)

\* The message loop of unmarshal_controls() or handle_websocket_msg().
Marshal0 ==
    /\ out0 = <<>> /\ todo0 # <<>>
    /\ out0' = WordsOf(Head(todo0))
    /\ todo0' = Tail(todo0)
    /\ UNCHANGED <<stored, callbacks, pc0, tag0, core1, fifos, hw>>

\* Mutant: core 0 pushes without waiting for room.
Push0_Overrun ==
    /\ out0 # <<>>
    /\ fifo01' = Append(fifo01, Head(out0))
    /\ out0' = Tail(out0)
    /\ UNCHANGED <<stored, callbacks, pc0, todo0, tag0, core1, fifo10, hw>>

\* Mutant: core 0 gives a word up when there is no room (push_timeout).
Push0_Lossy ==
    /\ out0 # <<>>
    /\ fifo01' = IF Len(fifo01) < Depth THEN Append(fifo01, Head(out0)) ELSE fifo01
    /\ out0' = Tail(out0)
    /\ UNCHANGED <<stored, callbacks, pc0, todo0, tag0, core1, fifo10, hw>>

\* multicore_fifo_push_blocking() on core 0.
Push0 ==
    /\ out0 # <<>> /\ Len(fifo01) < Depth
    /\ fifo01' = Append(fifo01, Head(out0))
    /\ out0' = Tail(out0)
    /\ UNCHANGED <<stored, callbacks, pc0, todo0, tag0, core1, fifo10, hw>>

EndPoll0 ==
    /\ Idle0
    /\ pc0' = "pop"
    /\ UNCHANGED <<stored, callbacks, todo0, out0, tag0, core1, fifos, hw>>

\* multicore_fifo_pop_timeout_us(): a word that is no tag is dropped.
PopTag0 ==
    /\ pc0 = "pop" /\ tag0 = NoTag
    /\ fifo10 # <<>>
    /\ fifo10' = Tail(fifo10)
    /\ IF Head(fifo10) \in EventTag
         THEN tag0' = Head(fifo10) /\ UNCHANGED pc0
         ELSE pc0' = "poll" /\ UNCHANGED tag0
    /\ UNCHANGED <<stored, callbacks, todo0, out0, core1, fifo01, hw>>

PopTimeout0 ==
    /\ pc0 = "pop" /\ tag0 = NoTag
    /\ fifo10 = <<>>
    /\ pc0' = "poll"
    /\ UNCHANGED <<stored, callbacks, todo0, out0, tag0, core1, fifos, hw>>

\* multicore_fifo_pop_blocking() for the value, and what is done with it.
PopValue0 ==
    /\ pc0 = "pop" /\ tag0 # NoTag
    /\ fifo10 # <<>>
    /\ fifo10' = Tail(fifo10)
    /\ led' = IF tag0 = 2 THEN Head(fifo10) # 0 ELSE led
    /\ tag0' = NoTag
    /\ pc0' = "poll"
    /\ UNCHANGED <<stored, callbacks, todo0, out0, core1, fifo01, table, pins>>

-----------------------------------------------------------------------------
(* Core 1: core1_worker(). *)

\* An event is pushed as its tag and its value, each push blocking.
Push1 ==
    /\ out1 # <<>> /\ Len(fifo10) < Depth
    /\ fifo10' = Append(fifo10, Head(out1))
    /\ out1' = Tail(out1)
    /\ UNCHANGED <<stored, core0, pc1, op1, next1, fifo01, hw>>

\* Mutant: the uptime's tag is pushed without its value.
Uptime1_TagOnly ==
    /\ pc1 = "uptime" /\ out1 = <<>>
    /\ pc1' = "pop"
    /\ \/ UNCHANGED out1
       \/ \E u \in Uptimes : out1' = <<0>>
    /\ UNCHANGED <<stored, core0, op1, next1, fifos, hw>>

Uptime1 ==
    /\ pc1 = "uptime" /\ out1 = <<>>
    /\ pc1' = "pop"
    /\ \/ UNCHANGED out1
       \/ \E u \in Uptimes : out1' = <<0, u>>
    /\ UNCHANGED <<stored, core0, op1, next1, fifos, hw>>

\* Mutant: the temperature is pushed before its tag.
CoreTemp1_ValueFirst ==
    /\ pc1 = "coretm" /\ out1 = <<>>
    /\ pc1' = "uptime"
    /\ \/ UNCHANGED out1
       \/ \E t \in Temps : out1' = <<t, 1>>
    /\ UNCHANGED <<stored, core0, op1, next1, fifos, hw>>

CoreTemp1 ==
    /\ pc1 = "coretm" /\ out1 = <<>>
    /\ pc1' = "uptime"
    /\ \/ UNCHANGED out1
       \/ \E t \in Temps : out1' = <<1, t>>
    /\ UNCHANGED <<stored, core0, op1, next1, fifos, hw>>

\* multicore_fifo_pop_timeout_us() found a word.
Popped ==
    /\ pc1 = "pop" /\ out1 = <<>> /\ fifo01 # <<>>
    /\ fifo01' = Tail(fifo01)
    /\ UNCHANGED <<stored, core0, next1, out1, fifo10, led>>

Outputs == {LED, GPO}

RowOf(w) ==
    LET d == decode_hwel(w)
    IN  [ty |-> d.control_type, id |-> d.id, io |-> d.value]

\* add_packet(): append to the source's rows, or start them.
add_packet(t, src, row) ==
    [s \in DOMAIN t \union {src} |->
        IF s # src THEN t[s] ELSE IF s \in DOMAIN t THEN Append(t[s], row) ELSE <<row>>]

\* gpio_init() and gpio_set_dir(): an output at level 0.
SetupPins(p, row) ==
    IF row.ty = GPO THEN [p EXCEPT ![row.io] = [dir |-> "out", level |-> FALSE]] ELSE p

\* A set-up of an LED or a GPO: the source id is in the next word.
SetupOutput1(w) ==
    /\ Popped
    /\ decode_hwel(w).operation = SetupOp
    /\ decode_hwel(w).control_type \in Outputs
    /\ pc1' = "ref"
    /\ op1' = w
    /\ UNCHANGED <<table, pins>>

\* A set-up of any other type is stored with whatever source_id the stack holds.
SetupOther1(w) ==
    /\ Popped
    /\ decode_hwel(w).operation = SetupOp
    /\ decode_hwel(w).control_type \notin Outputs
    /\ \E s \in JunkSources : table' = add_packet(table, s, RowOf(w))
    /\ pc1' = "coretm"
    /\ UNCHANGED <<op1, pins>>

\* Mutant: the pins are released, the rows are kept.
Clean1_KeepRows(w) ==
    /\ Popped
    /\ decode_hwel(w).operation = CleanOp
    /\ pins' = [p \in Pins |-> [pins[p] EXCEPT !.dir = "in"]]
    /\ pc1' = "drive"
    /\ op1' = w
    /\ UNCHANGED table

\* CLEAN_SETUP has no break: it goes on into the control action.
Clean1(w) ==
    /\ Popped
    /\ decode_hwel(w).operation = CleanOp
    /\ table' = EmptyTable
    /\ pins' = [p \in Pins |-> [pins[p] EXCEPT !.dir = "in"]]
    /\ pc1' = "drive"
    /\ op1' = w

Action1(w) ==
    /\ Popped
    /\ decode_hwel(w).operation = ActionOp
    /\ pc1' = "drive"
    /\ op1' = w
    /\ UNCHANGED <<table, pins>>

Ignored1(w) ==
    /\ Popped
    /\ decode_hwel(w).operation \notin {SetupOp, CleanOp, ActionOp}
    /\ pc1' = "coretm"
    /\ UNCHANGED <<op1, table, pins>>

Pop1 ==
    /\ fifo01 # <<>>
    /\ LET w == Head(fifo01)
       IN  SetupOutput1(w) \/ SetupOther1(w) \/ Clean1(w) \/ Action1(w) \/ Ignored1(w)

\* Mutant: the pop gives up although a word is there.
PopTimeout1_Early ==
    /\ pc1 = "pop" /\ out1 = <<>>
    /\ pc1' = "coretm"
    /\ UNCHANGED <<stored, core0, op1, next1, out1, fifos, hw>>

PopTimeout1 ==
    /\ pc1 = "pop" /\ out1 = <<>> /\ fifo01 = <<>>
    /\ pc1' = "coretm"
    /\ UNCHANGED <<stored, core0, op1, next1, out1, fifos, hw>>

\* The end of the set-up case, once the variable op holds ref.
AddOutput(ref) ==
    /\ table' = add_packet(table, decode_hwrf(ref), RowOf(op1))
    /\ pins' = SetupPins(pins, RowOf(op1))
    /\ pc1' = "coretm"
    /\ op1' = NoWord
    /\ UNCHANGED <<stored, core0, next1, out1, fifo10, led>>

Ref1 ==
    /\ pc1 = "ref" /\ fifo01 # <<>>
    /\ AddOutput(Head(fifo01))
    /\ fifo01' = Tail(fifo01)

\* The second pop times out, its result is ignored, op still is the first word.
RefTimeout1 ==
    /\ pc1 = "ref" /\ fifo01 = <<>>
    /\ LateRef \/ out0 = <<>>
    /\ AddOutput(op1)
    /\ UNCHANGED fifo01

\* find_packet()
find_packet(id) == IF id \in DOMAIN table THEN table[id] ELSE <<>>
Driven1 == find_packet(decode_hwel(op1).id)

\* One turn of the loop over the rows of the source.
Drive1 ==
    /\ pc1 = "drive" /\ out1 = <<>> /\ next1 < Len(Driven1)
    /\ LET row == Driven1[next1 + 1]
           v == decode_hwel(op1).value
       IN  /\ out1' = IF row.ty = LED THEN <<2, v>> ELSE <<>>
           /\ pins' = IF row.ty = GPO THEN [pins EXCEPT ![row.io].level = (v # 0)] ELSE pins
    /\ next1' = next1 + 1
    /\ UNCHANGED <<stored, core0, pc1, op1, fifos, table, led>>

\* Mutant: the loop over the rows waits for one row too many.
EndDrive1_OffByOne ==
    /\ pc1 = "drive" /\ out1 = <<>> /\ next1 > Len(Driven1)
    /\ pc1' = "coretm"
    /\ op1' = NoWord
    /\ next1' = 0
    /\ UNCHANGED <<stored, core0, out1, fifos, hw>>

EndDrive1 ==
    /\ pc1 = "drive" /\ out1 = <<>> /\ next1 >= Len(Driven1)
    /\ pc1' = "coretm"
    /\ op1' = NoWord
    /\ next1' = 0
    /\ UNCHANGED <<stored, core0, out1, fifos, hw>>

-----------------------------------------------------------------------------
\* Power is cut and comes back.
Reboot ==
    /\ UNCHANGED stored
    /\ callbacks' = 0 /\ pc0' = "poll" /\ todo0' = <<>> /\ out0' = <<>> /\ tag0' = NoTag
    /\ pc1' = "uptime" /\ op1' = NoWord /\ next1' = 0 /\ out1' = <<>>
    /\ fifo01' = <<>> /\ fifo10' = <<>>
    /\ table' = EmptyTable /\ pins' = IdlePins /\ led' = FALSE

Network == Upgrade0 \/ Save0 \/ Command0
Core0 == Marshal0 \/ Push0 \/ EndPoll0 \/ PopTag0 \/ PopTimeout0 \/ PopValue0
Core1 ==
    \/ Push1 \/ Uptime1 \/ CoreTemp1 \/ Pop1 \/ PopTimeout1
    \/ Ref1 \/ RefTimeout1 \/ Drive1 \/ EndDrive1

Next == Network \/ Core0 \/ Core1 \/ Reboot

Spec == Init /\ [][Next]_vars

\* Each core runs on; nothing is assumed of the network or of the power.
LiveSpec == Spec /\ WF_vars(Core0) /\ WF_vars(Core1)

-----------------------------------------------------------------------------
(* Properties. *)

TypeOK ==
    /\ stored \in Seq(SetupItem)
    /\ callbacks \in 0..MaxCallbacks
    /\ pc0 \in {"poll", "pop"}
    /\ todo0 \in Seq(SetupItem \union CommandItem)
    /\ out0 \in Seq(Word)
    /\ tag0 \in EventTag \union {NoTag}
    /\ fifo01 \in Seq(Word) /\ Len(fifo01) <= Depth
    /\ fifo10 \in Seq(Nat) /\ Len(fifo10) <= Depth
    /\ pc1 \in {"uptime", "pop", "ref", "drive", "coretm"}
    /\ op1 \in Word
    /\ next1 \in Nat
    /\ out1 \in Seq(Nat)
    /\ DOMAIN table \subseteq Half
    /\ \A s \in DOMAIN table : table[s] \in Seq(Row)
    /\ pins \in [Pins -> [dir : {"in", "out"}, level : BOOLEAN]]
    /\ led \in BOOLEAN

\* The event words core 0 has still to take in, the tag it holds included.
EventStream ==
    (IF tag0 = NoTag THEN <<>> ELSE <<tag0>>) \o fifo10 \o out1

IsEvent(tag, val) ==
    \/ tag = 0 /\ val \in Uptimes
    \/ tag = 1 /\ val \in Temps
    \/ tag = 2 /\ val \in Byte

\* A sequence of whole events.
Framed(words) ==
    \E n \in 0..Len(words) :
        /\ Len(words) = 2 * n
        /\ \A k \in 1..n : IsEvent(words[2 * k - 1], words[2 * k])

\* Tags and values share one FIFO with nothing to tell them apart: core 0 never
\* takes a value for a tag, nor a tag for a value, whatever the two cores do
\* between the pushes of a pair and the two pops of it (main.c:83-110).
EventsFramed == Framed(EventStream)

ConfiguredItems == UNION {{c[i] : i \in DOMAIN c} : c \in Configs}
ItemRow(m) == [ty |-> m.ty, id |-> m.id, io |-> m.io]

\* Where a set-up may be filed: under its source, or, once the second word was
\* late, under the upper half of its first word.
FiledUnder(m) ==
    {m.src} \union (IF LateRef THEN {OpWord(SetupOp, m.ty, m.id, m.io)[1]} ELSE {})

\* The words of a set-up are paired up again on the other side of the FIFO: every
\* row core 1 holds is a configured element, under a key that set-up can give
\* and never under the source of another one (hwman.c:156-211).
RowsGenuine ==
    \A s \in DOMAIN table : \A i \in 1..Len(table[s]) :
        \E m \in ConfiguredItems : table[s][i] = ItemRow(m) /\ s \in FiledUnder(m)

\* The words core 1 has still to decode, the first word of a set-up it holds included.
WordStream == (IF pc1 = "ref" THEN <<op1>> ELSE <<>>) \o fifo01 \o out0

\* The two words of a set-up travel together: whatever core 1 will decode as a
\* set-up is the first word of a configured one, with the source of that same
\* set-up right behind it, across callbacks, full FIFOs and late second words
\* (config.c:386-408, hwman.c:151-164).
SetupsPaired ==
    \A i \in 1..Len(WordStream) :
        decode_hwel(WordStream[i]).operation = SetupOp =>
            \E m \in ConfiguredItems :
                /\ WordStream[i] = OpWord(SetupOp, m.ty, m.id, m.io)
                /\ i < Len(WordStream) /\ WordStream[i + 1] = RefWord(m.src)

\* A pin that commands drive is an output: no set-up, clean-up or stray word
\* leaves a row for a pin that is an input (hwman.c:167-168, 215-221).
DrivenPinsAreOutputs ==
    \A s \in DOMAIN table : \A i \in 1..Len(table[s]) :
        LET row == table[s][i]
        IN  row.ty = GPO /\ row.io \in Pins => pins[row.io].dir = "out"

\* Nothing is on its way from core 0 to the table.
Settled == todo0 = <<>> /\ out0 = <<>> /\ fifo01 = <<>> /\ pc1 # "ref"

\* Core 1 has a row for every stored element.
StoredFiled ==
    \A i \in DOMAIN stored : \E s \in FiledUnder(stored[i]) \cap DOMAIN table :
        \E j \in DOMAIN table[s] : table[s][j] = ItemRow(stored[i])

\* Core 1 loses its table with the power, and the first browser to connect brings
\* all of it back: from then on, whenever nothing is on its way, the table has a row
\* for each element in flash, through saves, commands and FIFOs that fill up.  What
\* holds before a browser connects is StoredControlsRun (websockets.c:211,
\* config.c:693-717).
RestoredWhole == Upgraded /\ Settled => StoredFiled

\* Both cores in a blocking push on a full FIFO only the other can empty.
MutualBlock ==
    /\ out0 # <<>> /\ Len(fifo01) = Depth
    /\ out1 # <<>> /\ Len(fifo10) = Depth

\* core 0's blocking pop of a value always returns (main.c:86,96,108).
TagAnswered == tag0 # NoTag ~> tag0 = NoTag

\* A callback that pushes to core 1 returns to the network stack, unless the two
\* cores block each other.
CallbackReturns ==
    todo0 # <<>> \/ out0 # <<>> ~> (todo0 = <<>> /\ out0 = <<>>) \/ MutualBlock

\* What core 0 pushed is taken in by core 1, unless they block each other.
WordsConsumed == fifo01 # <<>> ~> fifo01 = <<>> \/ MutualBlock

-----------------------------------------------------------------------------
(* What the repository's documents say, and the code does not do. *)

\* README.md:16-17: the controller goes on running independently after set-up.
NoMutualBlock == ~MutualBlock

\* ConfigReference.md:9-10: the controller initialises its control logic from the
\* configuration it stores.  If the power stays on, stored elements come to be filed,
\* unless the cores block each other.
StoredControlsRun ==
    <>[][~Reboot]_vars => (stored # <<>> ~> StoredFiled \/ MutualBlock)
=============================================================================

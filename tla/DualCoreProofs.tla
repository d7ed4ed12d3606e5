--------------------------- MODULE DualCoreProofs ---------------------------
(***************************************************************************)
(* Safety of the two cores, for every FIFO depth, every set of             *)
(* configurations and packets, and any number of callbacks: events, pins,  *)
(* rows, what a browser brings back after a power cut; what the format of  *)
(* the words keeps; and that the two cores implement Panel.                *)
(***************************************************************************)
EXTENDS DualCoreRefinement, InductionTheorems, SequenceTheorems, FiniteSetTheorems, TLAPS

-----------------------------------------------------------------------------
(* What the word format keeps, for every value of the fields (HwWord). *)

\* Bytes and half-words, as bounds an arithmetic step can use.
LEMMA ByteBounds == \A n : n \in Byte <=> n \in Int /\ 0 <= n /\ n <= 255
BY DEF Byte

LEMMA HalfBounds == \A n : n \in Half <=> n \in Int /\ 0 <= n /\ n <= 65535
<1>1. MaxHalf \in Int
  BY DEF MaxHalf
<1>2. \A n : n \in Half <=> n \in Int /\ 0 <= n /\ n <= MaxHalf
  BY <1>1 DEF Half
<1> QED
  BY <1>2 DEF MaxHalf

\* A half-word is its upper byte and its lower byte.
LEMMA ByteSplit ==
    ASSUME NEW n \in Half
    PROVE  /\ n \div 256 \in Byte
           /\ n % 256 \in Byte
           /\ (n \div 256) * 256 + (n % 256) = n
<1>1. n \in Int /\ 0 <= n /\ n <= 65535
  BY HalfBounds
<1>2. n \div 256 \in Int /\ n % 256 \in Int
  BY <1>1
<1>3. n \div 256 >= 0 /\ n \div 256 <= 255
  BY <1>1
<1>4. n % 256 >= 0 /\ n % 256 <= 255
  BY <1>1
<1>5. (n \div 256) * 256 + (n % 256) = n
  BY <1>1
<1> QED
  BY <1>2, <1>3, <1>4, <1>5, ByteBounds

LEMMA ByteJoin ==
    ASSUME NEW h \in Byte, NEW l \in Byte
    PROVE  /\ h * 256 + l \in Half
           /\ (h * 256 + l) \div 256 = h
           /\ (h * 256 + l) % 256 = l
<1>1. h \in Nat /\ h <= 255 /\ l \in 0..255
  BY DEF Byte
<1>2. h * 256 + l \in Half
  <2>1. h * 256 + l \in Int /\ 0 <= h * 256 + l /\ h * 256 + l <= 65535
    BY <1>1
  <2> QED BY <2>1, HalfBounds
<1>3. (h * 256 + l) \div 256 = h
  BY <1>1
<1>4. (h * 256 + l) % 256 = l
  BY <1>1
<1> QED
  BY <1>2, <1>3, <1>4

\* The upper half of a word of operation op, type 32 + t and id h * 256 + ...
LEMMA UpperJoin ==
    ASSUME NEW op \in 0..3, NEW t \in 0..31, NEW h \in Byte
    PROVE  /\ op * 16384 + t * 256 + h \in Half
           /\ (op * 16384 + t * 256 + h) \div 16384 = op
           /\ ((op * 16384 + t * 256 + h) \div 256) % 32 = t
           /\ (op * 16384 + t * 256 + h) % 256 = h
<1> DEFINE hi == op * 16384 + t * 256 + h
           q == op * 64 + t
<1>1. op \in Nat /\ op <= 3 /\ t \in Nat /\ t <= 31 /\ h \in 0..255
  BY DEF Byte
<1>2. hi \in Half
  <2>1. hi \in Int /\ 0 <= hi /\ hi <= 65535
    BY <1>1
  <2> QED BY <2>1, HalfBounds
<1>3. hi \div 16384 = op
  BY <1>1
<1>4. q \in Nat /\ hi = q * 256 + h
  BY <1>1
<1>5. hi \div 256 = q /\ hi % 256 = h
  <2> HIDE DEF q, hi
  <2> QED BY <1>1, <1>4
<1>6. q % 32 = t
  BY <1>1
<1> QED
  BY <1>2, <1>3, <1>5, <1>6

\* Every word decodes to fields of the widths of hwel (hwman.c:36-45).
THEOREM DecodeType ==
    ASSUME NEW w \in Word
    PROVE  /\ decode_hwel(w).operation \in 0..3
           /\ decode_hwel(w).control_type \in LED..63
           /\ decode_hwel(w).id \in Half
           /\ decode_hwel(w).value \in Byte
           /\ decode_hwrf(w) \in Half
<1>1. w[1] \in Half /\ w[2] \in Half
  BY DEF Word
<1>2. w[1] \in Int /\ 0 <= w[1] /\ w[1] <= 65535
  BY <1>1, HalfBounds
<1>3. w[1] \div 16384 \in 0..3
  <2>1. w[1] \div 16384 \in Int
    BY <1>2
  <2>2. w[1] \div 16384 >= 0 /\ w[1] \div 16384 <= 3
    BY <1>2
  <2> QED BY <2>1, <2>2
<1>4. ((w[1] \div 256) % 32) + 32 \in LED..63
  <2>1. w[1] \div 256 \in Nat
    BY <1>1, ByteSplit DEF Byte
  <2>2. (w[1] \div 256) % 32 \in 0..31
    BY <2>1
  <2> QED BY <2>2 DEF LED
<1>5. (w[1] % 256) * 256 + w[2] \div 256 \in Half
  BY <1>1, ByteSplit, ByteJoin
<1>6. w[2] % 256 \in Byte
  BY <1>1, ByteSplit
<1> QED
  BY <1>1, <1>3, <1>4, <1>5, <1>6 DEF decode_hwel, decode_hwrf

\* Core 1 reads from a word what core 0 put into it: for every operation, element
\* type 0x20..0x3F, id and value, decode_hwel inverts the shifts of config.c:381-401
\* and websockets.c:277-281.
THEOREM DecodeOpWord ==
    ASSUME NEW op \in 0..3, NEW ty \in LED..63, NEW id \in Half, NEW val \in Byte
    PROVE  /\ OpWord(op, ty, id, val) \in Word
           /\ decode_hwel(OpWord(op, ty, id, val)) =
                [operation |-> op, control_type |-> ty, id |-> id, value |-> val]
<1>1. ty % 32 \in 0..31 /\ (ty % 32) + 32 = ty
  BY DEF LED
<1>2. /\ id \div 256 \in Byte /\ id % 256 \in Byte
      /\ (id \div 256) * 256 + (id % 256) = id
  BY ByteSplit
<1> DEFINE hi == op * 16384 + (ty % 32) * 256 + id \div 256
           lo == (id % 256) * 256 + val
<1>3. lo \in Half /\ lo \div 256 = id % 256 /\ lo % 256 = val
  BY <1>2, ByteJoin
<1>4. /\ hi \in Half /\ hi \div 16384 = op
      /\ (hi \div 256) % 32 = ty % 32 /\ hi % 256 = id \div 256
  BY <1>1, <1>2, UpperJoin
<1>5. OpWord(op, ty, id, val) = <<hi, lo>>
  BY DEF OpWord
<1> HIDE DEF hi, lo
<1>6. <<hi, lo>> \in Word
  BY <1>3, <1>4 DEF Word
<1>7. decode_hwel(<<hi, lo>>) =
        [operation |-> op, control_type |-> (ty % 32) + 32,
         id |-> (id \div 256) * 256 + (id % 256), value |-> val]
  BY <1>3, <1>4 DEF decode_hwel
<1> QED
  BY <1>1, <1>2, <1>5, <1>6, <1>7

\* The second word of a set-up gives its source back; taken for a first word it
\* asks for nothing, as long as source ids stay below 0x4000.
THEOREM DecodeRefWord ==
    ASSUME NEW src \in Half
    PROVE  /\ RefWord(src) \in Word
           /\ decode_hwrf(RefWord(src)) = src
           /\ src < 16384 => decode_hwel(RefWord(src)).operation = 0
<1>1. RefWord(src) \in Word /\ decode_hwrf(RefWord(src)) = src
  <2>1. 0 \in Half
    BY HalfBounds
  <2> QED BY <2>1 DEF RefWord, Word, decode_hwrf
<1>2. decode_hwel(RefWord(src)).operation = src \div 16384
  BY DEF RefWord, decode_hwel
<1>3. src \in Int /\ 0 <= src
  BY HalfBounds
<1>4. src < 16384 => src \div 16384 = 0
  BY <1>3
<1> QED
  BY <1>1, <1>2, <1>4

-----------------------------------------------------------------------------
(* Type correctness. *)

LEMMA TailType ==
    ASSUME NEW S, NEW s \in Seq(S), s # <<>>
    PROVE  Head(s) \in S /\ Tail(s) \in Seq(S) /\ Len(Tail(s)) = Len(s) - 1
OBVIOUS

\* A push moves the first word owed to the end of the FIFO: nothing is added to,
\* lost from or reordered in the stream the two make up.
LEMMA PushMoves ==
    ASSUME NEW S, NEW s \in Seq(S), NEW t \in Seq(S), t # <<>>
    PROVE  Append(s, Head(t)) \o Tail(t) = s \o t
<1>1. Head(t) \in S /\ Tail(t) \in Seq(S)
  BY HeadTailProperties
<1>2. <<Head(t)>> \o Tail(t) = t
  OBVIOUS
<1>3. Append(s, Head(t)) = s \o <<Head(t)>>
  BY <1>1, AppendIsConcat
<1>4. (s \o <<Head(t)>>) \o Tail(t) = s \o (<<Head(t)>> \o Tail(t))
  <2>1. <<Head(t)>> \in Seq(S)
    BY <1>1
  <2> QED
    BY <1>1, <2>1, ConcatAssociative
<1> QED
  BY <1>2, <1>3, <1>4

\* The words of a message are words.
LEMMA WordsOfType ==
    ASSUME NEW m \in SetupItem \union CommandItem
    PROVE  WordsOf(m) \in Seq(Word)
<1>1. CASE m.kind = "setup"
  <2>1. m \in SetupItem
    BY <1>1 DEF CommandItem
  <2>2. /\ m.ty \in LED..63 /\ m.id \in Half /\ m.io \in Byte /\ m.src \in Half
    BY <2>1 DEF SetupItem, LED, GPO
  <2>3. OpWord(SetupOp, m.ty, m.id, m.io) \in Word
    BY <2>2, DecodeOpWord DEF SetupOp
  <2>4. RefWord(m.src) \in Word
    BY <2>2, DecodeRefWord
  <2> QED
    BY <1>1, <2>3, <2>4 DEF WordsOf, SetupWords
<1>2. CASE m.kind # "setup"
  <2>1. m \in CommandItem
    BY <1>2 DEF SetupItem
  <2>2. m.ty \in LED..63 /\ m.id \in Half /\ m.val \in Byte /\ m.ext \in Seq(Word)
    BY <2>1 DEF CommandItem
  <2>3. OpWord(ActionOp, m.ty, m.id, m.val) \in Word
    BY <2>2, DecodeOpWord DEF ActionOp
  <2>4. <<OpWord(ActionOp, m.ty, m.id, m.val)>> \in Seq(Word)
    BY <2>3
  <2> QED
    BY <1>2, <2>2, <2>4 DEF WordsOf, CommandWords
<1> QED
  BY <1>1, <1>2

\* add_packet keeps the table a table.
LEMMA AddPacketType ==
    ASSUME NEW t, DOMAIN t \subseteq Half, \A s \in DOMAIN t : t[s] \in Seq(Row),
           NEW src \in Half, NEW row \in Row
    PROVE  LET u == add_packet(t, src, row)
           IN  DOMAIN u \subseteq Half /\ \A s \in DOMAIN u : u[s] \in Seq(Row)
BY DEF add_packet

LEMMA RowOfType ==
    ASSUME NEW w \in Word
    PROVE  RowOf(w) \in Row
BY DecodeType DEF RowOf, Row, Byte

LEMMA SetupPinsType ==
    ASSUME NEW p \in [Pins -> [dir : {"in", "out"}, level : BOOLEAN]], NEW row
    PROVE  SetupPins(p, row) \in [Pins -> [dir : {"in", "out"}, level : BOOLEAN]]
BY DEF SetupPins

LEMMA NoWordType == NoWord \in Word
BY HalfBounds DEF NoWord, Word

LEMMA IdlePinsType == IdlePins \in [Pins -> [dir : {"in", "out"}, level : BOOLEAN]]
BY DEF IdlePins

\* What TypeOK says of the values the volatile variables boot with.
LEMMA BootTypes ==
    /\ \A S : <<>> \in Seq(S)
    /\ Len(<<>>) <= Depth
    /\ 0 \in 0..MaxCallbacks
    /\ NoTag \in EventTag \union {NoTag}
    /\ DOMAIN EmptyTable \subseteq Half
    /\ \A s \in DOMAIN EmptyTable : EmptyTable[s] \in Seq(Row)
    /\ FALSE \in BOOLEAN
BY DepthAssumption, BoundAssumption DEF EmptyTable

LEMMA TypeBooted == Booted /\ stored \in Seq(SetupItem) => TypeOK
<1> SUFFICES ASSUME Booted, stored \in Seq(SetupItem) PROVE TypeOK
  OBVIOUS
<1>1. stored \in Seq(SetupItem) /\ callbacks \in 0..MaxCallbacks /\ pc0 \in {"poll", "pop"}
  BY BootTypes DEF Booted
<1>2. todo0 \in Seq(SetupItem \union CommandItem) /\ out0 \in Seq(Word)
  BY BootTypes DEF Booted
<1>3. tag0 \in EventTag \union {NoTag} /\ op1 \in Word /\ next1 \in Nat
  BY BootTypes, NoWordType DEF Booted
<1>4. fifo01 \in Seq(Word) /\ Len(fifo01) <= Depth /\ fifo10 \in Seq(Nat) /\ Len(fifo10) <= Depth
  BY BootTypes DEF Booted
<1>5. pc1 \in {"uptime", "pop", "ref", "drive", "coretm"} /\ out1 \in Seq(Nat)
  BY BootTypes DEF Booted
<1>6. DOMAIN table \subseteq Half /\ \A s \in DOMAIN table : table[s] \in Seq(Row)
  BY BootTypes DEF Booted
<1>7. pins \in [Pins -> [dir : {"in", "out"}, level : BOOLEAN]] /\ led \in BOOLEAN
  BY IdlePinsType DEF Booted
<1> QED
  BY <1>1, <1>2, <1>3, <1>4, <1>5, <1>6, <1>7 DEF TypeOK

LEMMA TypeInit == Init => TypeOK
BY TypeBooted, BootTypes DEF Init

LEMMA TypeNetwork == TypeOK /\ Network => TypeOK'
<1> SUFFICES ASSUME TypeOK, Network PROVE TypeOK'
  OBVIOUS
<1>1. CASE Upgrade0
  BY <1>1, BoundAssumption
     DEF TypeOK, Upgrade0, StartCallback, core1, fifos, hw
<1>2. CASE Save0
  <2>1. PICK c \in Configs : StartCallback(c) /\ stored' = c
    BY <1>2 DEF Save0
  <2>2. c \in Seq(SetupItem) /\ c \in Seq(SetupItem \union CommandItem)
    BY ConfigsAssumption
  <2> QED
    BY <2>1, <2>2, BoundAssumption DEF TypeOK, StartCallback, core1, fifos, hw
<1>3. CASE Command0
  <2>1. PICK p \in Packets : StartCallback(p) /\ UNCHANGED stored
    BY <1>3 DEF Command0
  <2>2. p \in Seq(SetupItem \union CommandItem)
    BY PacketsAssumption
  <2> QED
    BY <2>1, <2>2, BoundAssumption DEF TypeOK, StartCallback, core1, fifos, hw
<1> QED
  BY <1>1, <1>2, <1>3 DEF Network

LEMMA TypeCore0 == TypeOK /\ Core0 => TypeOK'
<1> SUFFICES ASSUME TypeOK, Core0 PROVE TypeOK'
  OBVIOUS
<1>1. CASE Marshal0
  <2>1. Head(todo0) \in SetupItem \union CommandItem
        /\ Tail(todo0) \in Seq(SetupItem \union CommandItem)
    BY <1>1, TailType DEF TypeOK, Marshal0
  <2>2. out0' \in Seq(Word)
    BY <1>1, <2>1, WordsOfType DEF Marshal0
  <2> QED
    BY <1>1, <2>1, <2>2 DEF TypeOK, Marshal0, core1, fifos, hw
<1>2. CASE Push0
  <2>1. Head(out0) \in Word /\ Tail(out0) \in Seq(Word)
    BY <1>2, TailType DEF TypeOK, Push0
  <2>2. fifo01' \in Seq(Word) /\ Len(fifo01') <= Depth
    BY <1>2, <2>1, DepthAssumption DEF TypeOK, Push0
  <2> QED
    BY <1>2, <2>1, <2>2 DEF TypeOK, Push0, core1, hw
<1>3. CASE EndPoll0
  BY <1>3 DEF TypeOK, EndPoll0, core1, fifos, hw
<1>4. CASE PopTag0
  <2>1. fifo10' \in Seq(Nat) /\ Len(fifo10') <= Depth
    BY <1>4, TailType, DepthAssumption DEF TypeOK, PopTag0
  <2> QED
    BY <1>4, <2>1 DEF TypeOK, PopTag0, core1, hw
<1>5. CASE PopTimeout0
  BY <1>5 DEF TypeOK, PopTimeout0, core1, fifos, hw
<1>6. CASE PopValue0
  <2>1. fifo10' \in Seq(Nat) /\ Len(fifo10') <= Depth
    BY <1>6, TailType, DepthAssumption DEF TypeOK, PopValue0
  <2> QED
    BY <1>6, <2>1 DEF TypeOK, PopValue0, core1
<1> QED
  BY <1>1, <1>2, <1>3, <1>4, <1>5, <1>6 DEF Core0

LEMMA PoppedType ==
    ASSUME TypeOK, Popped
    PROVE  /\ Head(fifo01) \in Word
           /\ fifo01' \in Seq(Word) /\ Len(fifo01') <= Depth
BY TailType, DepthAssumption DEF TypeOK, Popped

LEMMA TypeAddOutput ==
    ASSUME TypeOK, NEW ref \in Word, AddOutput(ref),
           fifo01' \in Seq(Word), Len(fifo01') <= Depth
    PROVE  TypeOK'
<1>1. DOMAIN table' \subseteq Half /\ \A s \in DOMAIN table' : table'[s] \in Seq(Row)
  BY AddPacketType, RowOfType, DecodeType DEF AddOutput, TypeOK
<1>2. pins' \in [Pins -> [dir : {"in", "out"}, level : BOOLEAN]]
  BY SetupPinsType DEF AddOutput, TypeOK
<1> QED
  BY <1>1, <1>2, NoWordType DEF AddOutput, TypeOK, core0

LEMMA TypePop1 == TypeOK /\ Pop1 => TypeOK'
<1> SUFFICES ASSUME TypeOK, Pop1 PROVE TypeOK'
  OBVIOUS
<1> DEFINE w == Head(fifo01)
<1>1. CASE SetupOutput1(w)
  BY <1>1, PoppedType DEF TypeOK, SetupOutput1, Popped, core0
<1>2. CASE SetupOther1(w)
  <2>1. PICK s \in JunkSources : table' = add_packet(table, s, RowOf(w))
    BY <1>2 DEF SetupOther1
  <2>2. s \in Half /\ RowOf(w) \in Row
    BY <1>2, JunkAssumption, PoppedType, RowOfType DEF SetupOther1
  <2>3. DOMAIN table' \subseteq Half /\ \A r \in DOMAIN table' : table'[r] \in Seq(Row)
    BY <2>1, <2>2, AddPacketType DEF TypeOK
  <2> QED
    BY <1>2, <2>3, PoppedType DEF TypeOK, SetupOther1, Popped, core0
<1>3. CASE Clean1(w)
  <2>1. pins' \in [Pins -> [dir : {"in", "out"}, level : BOOLEAN]]
    BY <1>3 DEF Clean1, TypeOK
  <2>2. DOMAIN table' \subseteq Half /\ \A s \in DOMAIN table' : table'[s] \in Seq(Row)
    BY <1>3 DEF Clean1, EmptyTable
  <2> QED
    BY <1>3, <2>1, <2>2, PoppedType DEF TypeOK, Clean1, Popped, core0
<1>4. CASE Action1(w)
  BY <1>4, PoppedType DEF TypeOK, Action1, Popped, core0
<1>5. CASE Ignored1(w)
  BY <1>5, PoppedType DEF TypeOK, Ignored1, Popped, core0
<1> QED
  BY <1>1, <1>2, <1>3, <1>4, <1>5 DEF Pop1

LEMMA TypeCore1 == TypeOK /\ Core1 => TypeOK'
<1> SUFFICES ASSUME TypeOK, Core1 PROVE TypeOK'
  OBVIOUS
<1>1. CASE Push1
  <2>1. Head(out1) \in Nat /\ Tail(out1) \in Seq(Nat)
    BY <1>1, TailType DEF TypeOK, Push1
  <2>2. fifo10' \in Seq(Nat) /\ Len(fifo10') <= Depth
    BY <1>1, <2>1, DepthAssumption DEF TypeOK, Push1
  <2> QED
    BY <1>1, <2>1, <2>2 DEF TypeOK, Push1, core0, hw
<1>2. CASE Uptime1
  <2>1. CASE UNCHANGED out1
    BY <1>2, <2>1 DEF TypeOK, Uptime1, core0, fifos, hw
  <2>2. CASE \E u \in Uptimes : out1' = <<0, u>>
    <3>1. out1' \in Seq(Nat)
      BY <2>2, ReadingsAssumption
    <3> QED
      BY <1>2, <3>1 DEF TypeOK, Uptime1, core0, fifos, hw
  <2> QED
    BY <1>2, <2>1, <2>2 DEF Uptime1
<1>3. CASE CoreTemp1
  <2>1. CASE UNCHANGED out1
    BY <1>3, <2>1 DEF TypeOK, CoreTemp1, core0, fifos, hw
  <2>2. CASE \E t \in Temps : out1' = <<1, t>>
    <3>1. out1' \in Seq(Nat)
      BY <2>2, ReadingsAssumption
    <3> QED
      BY <1>3, <3>1 DEF TypeOK, CoreTemp1, core0, fifos, hw
  <2> QED
    BY <1>3, <2>1, <2>2 DEF CoreTemp1
<1>4. CASE Pop1
  BY <1>4, TypePop1
<1>5. CASE PopTimeout1
  BY <1>5 DEF TypeOK, PopTimeout1, core0, fifos, hw
<1>6. CASE Ref1
  <2>1. Head(fifo01) \in Word /\ fifo01' \in Seq(Word) /\ Len(fifo01') <= Depth
    BY <1>6, TailType, DepthAssumption DEF Ref1, TypeOK
  <2> QED
    BY <1>6, <2>1, TypeAddOutput DEF Ref1
<1>7. CASE RefTimeout1
  BY <1>7, TypeAddOutput DEF RefTimeout1, TypeOK
<1>8. CASE Drive1
  <2>1. decode_hwel(op1).value \in Nat
    BY DecodeType, ByteBounds DEF TypeOK
  <2>2. out1' \in Seq(Nat)
    BY <1>8, <2>1 DEF Drive1
  <2>3. pins' \in [Pins -> [dir : {"in", "out"}, level : BOOLEAN]]
    BY <1>8, ZenonT(30) DEF Drive1, TypeOK
  <2> QED
    BY <1>8, <2>2, <2>3 DEF TypeOK, Drive1, core0, fifos
<1>9. CASE EndDrive1
  BY <1>9, NoWordType DEF TypeOK, EndDrive1, core0, fifos, hw
<1> QED
  BY <1>1, <1>2, <1>3, <1>4, <1>5, <1>6, <1>7, <1>8, <1>9 DEF Core1

LEMMA TypeReboot == TypeOK /\ Reboot => TypeOK'
<1>1. TypeOK /\ Reboot => (Booted /\ stored \in Seq(SetupItem))'
  BY DEF TypeOK, Reboot, Booted
<1>2. (Booted /\ stored \in Seq(SetupItem))' => TypeOK'
  BY TypeBooted, PTL
<1> QED
  BY <1>1, <1>2

LEMMA TypeStep == TypeOK /\ [Next]_vars => TypeOK'
<1>1. TypeOK /\ UNCHANGED vars => TypeOK'
  BY DEF TypeOK, vars, core0, core1, fifos, hw
<1> QED
  BY <1>1, TypeNetwork, TypeCore0, TypeCore1, TypeReboot DEF Next

\* In every behaviour the state has its type; in particular neither FIFO is pushed
\* beyond its depth, and only well-formed rows reach the table.
THEOREM TypeCorrect == Spec => []TypeOK
BY TypeInit, TypeStep, PTL DEF Spec

-----------------------------------------------------------------------------
(***************************************************************************)
(* Events stay framed.  The invariant is inductive together with TypeOK:   *)
(* a push moves a word inside EventStream, core 1 extends the stream by a  *)
(* whole event and only when it owes nothing, and core 0 takes the stream  *)
(* apart at its front.                                                     *)
(***************************************************************************)

LEMMA FramedAppend ==
    ASSUME NEW s \in Seq(Int), Framed(s), NEW a \in Int, NEW b \in Int, IsEvent(a, b)
    PROVE  Framed(s \o <<a, b>>)
<1> DEFINE t == s \o <<a, b>>
<1>1. PICK n \in 0..Len(s) :
          Len(s) = 2 * n /\ \A k \in 1..n : IsEvent(s[2 * k - 1], s[2 * k])
  BY DEF Framed
<1>2. /\ n \in Nat /\ Len(t) = 2 * (n + 1)
      /\ t[2 * (n + 1) - 1] = a /\ t[2 * (n + 1)] = b
      /\ \A i \in 1..2 * n : t[i] = s[i]
  BY <1>1
<1>3. ASSUME NEW k \in 1..(n + 1)
      PROVE  IsEvent(t[2 * k - 1], t[2 * k])
  <2>1. CASE k = n + 1
    BY <1>2, <2>1
  <2>2. CASE k # n + 1
    <3>1. k \in 1..n /\ 2 * k - 1 \in 1..2 * n /\ 2 * k \in 1..2 * n
      BY <1>2, <2>2
    <3> QED
      BY <1>1, <1>2, <3>1
  <2> QED
    BY <2>1, <2>2
<1> HIDE DEF t
<1>4. n + 1 \in 0..Len(t)
  BY <1>2
<1>5. Framed(t)
  BY <1>2, <1>3, <1>4 DEF Framed
<1> QED
  BY <1>5 DEF t

LEMMA FramedDrop ==
    ASSUME NEW s \in Seq(Int), Framed(s), NEW t \in Seq(Int), Len(s) = Len(t) + 2,
           \A i \in 1..Len(t) : t[i] = s[i + 2]
    PROVE  Framed(t)
<1>1. PICK n \in 0..Len(s) :
          Len(s) = 2 * n /\ \A k \in 1..n : IsEvent(s[2 * k - 1], s[2 * k])
  BY DEF Framed
<1>2. n - 1 \in 0..Len(t) /\ Len(t) = 2 * (n - 1)
  BY <1>1
<1>3. ASSUME NEW k \in 1..(n - 1)
      PROVE  IsEvent(t[2 * k - 1], t[2 * k])
  <2>1. /\ k + 1 \in 1..n
        /\ 2 * k - 1 \in 1..Len(t) /\ 2 * k \in 1..Len(t)
        /\ 2 * (k + 1) - 1 = (2 * k - 1) + 2 /\ 2 * (k + 1) = 2 * k + 2
    BY <1>1, <1>2
  <2>2. IsEvent(s[2 * (k + 1) - 1], s[2 * (k + 1)])
    BY <1>1, <2>1
  <2>3. t[2 * k - 1] = s[2 * (k + 1) - 1] /\ t[2 * k] = s[2 * (k + 1)]
    BY <2>1
  <2> QED
    BY <2>2, <2>3
<1> QED
  BY <1>2, <1>3 DEF Framed

\* The first two words of a stream that is not empty are an event.
LEMMA FramedFront ==
    ASSUME NEW s \in Seq(Int), Framed(s), s # <<>>
    PROVE  Len(s) >= 2 /\ IsEvent(s[1], s[2])
<1>1. PICK n \in 0..Len(s) :
          Len(s) = 2 * n /\ \A k \in 1..n : IsEvent(s[2 * k - 1], s[2 * k])
  BY DEF Framed
<1>2. n \in Nat /\ n >= 1
  BY <1>1
<1>3. 1 \in 1..n /\ 2 * 1 - 1 = 1 /\ 2 * 1 = 2
  BY <1>2
<1> QED
  BY <1>1, <1>2, <1>3

LEMMA StreamTypes ==
    ASSUME TypeOK
    PROVE  /\ fifo10 \in Seq(Int) /\ out1 \in Seq(Int) /\ tag0 \in Int
           /\ EventStream \in Seq(Int)
<1>1. fifo10 \in Seq(Int) /\ out1 \in Seq(Int) /\ tag0 \in Int
  BY DEF TypeOK, EventTag, NoTag
<1> QED
  BY <1>1 DEF EventStream

LEMMA FramedEmpty == Framed(<<>>)
BY DEF Framed

LEMMA FramedInit == Init => EventsFramed
<1> SUFFICES ASSUME Init PROVE EventsFramed
  OBVIOUS
<1>1. EventStream = <<>>
  BY DEF Init, Booted, EventStream
<1> QED
  BY <1>1, FramedEmpty DEF EventsFramed

\* Core 1 owes nothing and produces one event.
LEMMA FramedProduce ==
    ASSUME TypeOK, EventsFramed, out1 = <<>>, UNCHANGED <<tag0, fifo10>>,
           NEW a \in Int, NEW b \in Int, IsEvent(a, b), out1' = <<a, b>>
    PROVE  EventsFramed'
<1>1. EventStream' = EventStream \o <<a, b>>
  BY StreamTypes DEF EventStream
<1> QED
  BY <1>1, StreamTypes, FramedAppend DEF EventsFramed

LEMMA FramedFrame ==
    ASSUME EventsFramed, UNCHANGED <<tag0, fifo10, out1>>
    PROVE  EventsFramed'
BY DEF EventsFramed, EventStream

LEMMA IntStreams == \A a, b, c \in Seq(Int) : (a \o b) \o c = a \o (b \o c)
<1> TAKE a, b, c \in Seq(Int)
<1> QED
  BY ConcatAssociative

LEMMA EventsPush1 == ASSUME TypeOK, Push1 PROVE EventStream' = EventStream
<1>1. Append(fifo10, Head(out1)) \o Tail(out1) = fifo10 \o out1
  BY StreamTypes, PushMoves DEF Push1
<1> DEFINE held == IF tag0 = NoTag THEN <<>> ELSE <<tag0>>
<1>2. held \in Seq(Int)
  BY StreamTypes
<1> HIDE DEF held
<1>3. EventStream' = held \o (fifo10' \o out1')
  <2>1. fifo10' \in Seq(Int) /\ out1' \in Seq(Int)
    BY StreamTypes, HeadTailProperties, AppendProperties DEF Push1
  <2>2. EventStream' = (held \o fifo10') \o out1'
    BY DEF EventStream, Push1, core0, held
  <2>3. (held \o fifo10') \o out1' = held \o (fifo10' \o out1')
    BY <1>2, <2>1, IntStreams, Zenon
  <2> QED
    BY <2>2, <2>3, Zenon
<1>4. EventStream = held \o (fifo10 \o out1)
  <2>1. EventStream = (held \o fifo10) \o out1
    BY DEF EventStream, held
  <2>2. fifo10 \in Seq(Int) /\ out1 \in Seq(Int)
    BY StreamTypes
  <2>3. (held \o fifo10) \o out1 = held \o (fifo10 \o out1)
    BY <1>2, <2>2, IntStreams, Zenon
  <2> QED
    BY <2>1, <2>3, Zenon
<1> QED
  BY <1>1, <1>3, <1>4 DEF Push1

LEMMA FramedPush1 == TypeOK /\ EventsFramed /\ Push1 => EventsFramed'
BY EventsPush1 DEF EventsFramed

LEMMA EventsPopTag0 == ASSUME TypeOK, EventsFramed, PopTag0 PROVE EventStream' = EventStream
<1>1. EventStream = fifo10 \o out1 /\ EventStream # <<>> /\ EventStream[1] = Head(fifo10)
  BY StreamTypes DEF PopTag0, EventStream
<1>2. Head(fifo10) \in EventTag
  BY <1>1, StreamTypes, FramedFront DEF EventsFramed, IsEvent, EventTag
<1>3. tag0' = Head(fifo10) /\ tag0' # NoTag
  BY <1>2 DEF PopTag0, EventTag, NoTag
<1>4. EventStream' = <<Head(fifo10)>> \o Tail(fifo10) \o out1
  BY <1>3 DEF PopTag0, EventStream, core1
<1> QED
  BY <1>1, <1>4, StreamTypes DEF PopTag0

LEMMA FramedPopTag0 == TypeOK /\ EventsFramed /\ PopTag0 => EventsFramed'
BY EventsPopTag0 DEF EventsFramed

LEMMA EventsPopValue0 ==
    ASSUME TypeOK, PopValue0
    PROVE  /\ EventStream' \in Seq(Int) /\ Len(EventStream) = Len(EventStream') + 2
           /\ \A i \in 1..Len(EventStream') : EventStream'[i] = EventStream[i + 2]
           /\ EventStream[1] = tag0 /\ EventStream[2] = Head(fifo10)
<1>1. EventStream' = Tail(fifo10) \o out1
  BY StreamTypes DEF PopValue0, EventStream, core1
<1>2. EventStream' \in Seq(Int) /\ Len(EventStream) = Len(EventStream') + 2
  <2>1. fifo10 # <<>> /\ tag0 # NoTag
    BY DEF PopValue0
  <2>2. Tail(fifo10) \in Seq(Int) /\ Len(fifo10) = Len(Tail(fifo10)) + 1
    BY <2>1, StreamTypes, TailType
  <2>3. EventStream' \in Seq(Int) /\ Len(EventStream') = Len(Tail(fifo10)) + Len(out1)
    BY <1>1, <2>2, StreamTypes, ConcatProperties
  <2>4. Len(EventStream) = 1 + Len(fifo10) + Len(out1)
    BY <2>1, StreamTypes DEF EventStream
  <2> QED
    BY <2>2, <2>3, <2>4, StreamTypes
<1>3. \A i \in 1..Len(EventStream') : EventStream'[i] = EventStream[i + 2]
  BY <1>1, StreamTypes DEF PopValue0, EventStream
<1>4. EventStream[1] = tag0 /\ EventStream[2] = Head(fifo10)
  BY StreamTypes DEF PopValue0, EventStream
<1> QED
  BY <1>2, <1>3, <1>4

LEMMA FramedPopValue0 == TypeOK /\ EventsFramed /\ PopValue0 => EventsFramed'
BY EventsPopValue0, StreamTypes, FramedDrop DEF EventsFramed

LEMMA FramedCore1 == TypeOK /\ EventsFramed /\ Core1 => EventsFramed'
<1> SUFFICES ASSUME TypeOK, EventsFramed, Core1 PROVE EventsFramed'
  OBVIOUS
<1>1. CASE Push1
  BY <1>1, FramedPush1
<1>2. CASE Uptime1
  <2>1. CASE UNCHANGED out1
    BY <1>2, <2>1, FramedFrame DEF Uptime1, core0, fifos
  <2>2. CASE \E u \in Uptimes : out1' = <<0, u>>
    BY <1>2, <2>2, FramedProduce, ReadingsAssumption DEF Uptime1, core0, fifos, IsEvent
  <2> QED
    BY <1>2, <2>1, <2>2 DEF Uptime1
<1>3. CASE CoreTemp1
  <2>1. CASE UNCHANGED out1
    BY <1>3, <2>1, FramedFrame DEF CoreTemp1, core0, fifos
  <2>2. CASE \E t \in Temps : out1' = <<1, t>>
    BY <1>3, <2>2, FramedProduce, ReadingsAssumption DEF CoreTemp1, core0, fifos, IsEvent
  <2> QED
    BY <1>3, <2>1, <2>2 DEF CoreTemp1
<1>4. CASE Pop1
  BY <1>4, FramedFrame
     DEF Pop1, SetupOutput1, SetupOther1, Clean1, Action1, Ignored1, Popped, core0
<1>5. CASE PopTimeout1
  BY <1>5, FramedFrame DEF PopTimeout1, core0, fifos
<1>6. CASE Ref1
  BY <1>6, FramedFrame DEF Ref1, AddOutput, core0
<1>7. CASE RefTimeout1
  BY <1>7, FramedFrame DEF RefTimeout1, AddOutput, core0
<1>8. CASE Drive1
  <2>1. decode_hwel(op1).value \in Byte /\ decode_hwel(op1).value \in Int
    BY DecodeType, ByteBounds DEF TypeOK
  <2>2. CASE out1' = <<>>
    BY <1>8, <2>2, FramedFrame DEF Drive1, core0, fifos
  <2>3. CASE out1' = <<2, decode_hwel(op1).value>>
    BY <1>8, <2>1, <2>3, FramedProduce DEF Drive1, core0, fifos, IsEvent
  <2> QED
    BY <1>8, <2>2, <2>3 DEF Drive1
<1>9. CASE EndDrive1
  BY <1>9, FramedFrame DEF EndDrive1, core0, fifos
<1> QED
  BY <1>1, <1>2, <1>3, <1>4, <1>5, <1>6, <1>7, <1>8, <1>9 DEF Core1

LEMMA FramedStep == TypeOK /\ EventsFramed /\ [Next]_vars => EventsFramed'
<1> SUFFICES ASSUME TypeOK, EventsFramed, [Next]_vars PROVE EventsFramed'
  OBVIOUS
<1>1. CASE Network
  BY <1>1, FramedFrame
     DEF Network, Upgrade0, Save0, Command0, StartCallback, core1, fifos
<1>2. CASE Core0
  <2>1. CASE PopTag0
    BY <2>1, FramedPopTag0
  <2>2. CASE PopValue0
    BY <2>2, FramedPopValue0
  <2>3. CASE Marshal0 \/ Push0 \/ EndPoll0 \/ PopTimeout0
    BY <2>3, FramedFrame DEF Marshal0, Push0, EndPoll0, PopTimeout0, core1, fifos
  <2> QED
    BY <1>2, <2>1, <2>2, <2>3 DEF Core0
<1>3. CASE Core1
  BY <1>3, FramedCore1
<1>4. CASE Reboot
  <2>1. EventStream' = <<>>
    BY <1>4 DEF Reboot, EventStream
  <2> QED
    BY <2>1, FramedEmpty DEF EventsFramed
<1>5. CASE UNCHANGED vars
  BY <1>5, FramedFrame DEF vars, core0, core1, fifos
<1> QED
  BY <1>1, <1>2, <1>3, <1>4, <1>5 DEF Next

\* Core 0 never mistakes a value for a tag or a tag for a value, for every FIFO
\* depth, every uptime and temperature, every value byte, and any interleaving of
\* the two cores and reboots (main.c:83-110, hwman.c:143-148, 249-250, 280-288).
THEOREM EventsStayFramed == Spec => []EventsFramed
<1>1. Init => TypeOK /\ EventsFramed
  BY TypeInit, FramedInit
<1>2. TypeOK /\ EventsFramed /\ [Next]_vars => (TypeOK /\ EventsFramed)'
  BY TypeStep, FramedStep
<1> QED
  BY <1>1, <1>2, PTL DEF Spec

-----------------------------------------------------------------------------
(* Rows and pins. *)

\* What a source's rows are after one more has been filed.
LEMMA FiledRows ==
    ASSUME TypeOK, NEW src \in Half, NEW row \in Row, NEW s \in DOMAIN add_packet(table, src, row)
    PROVE  \A i \in 1..Len(add_packet(table, src, row)[s]) :
               \/ add_packet(table, src, row)[s][i] = row /\ s = src
               \/ /\ s \in DOMAIN table /\ i \in 1..Len(table[s])
                  /\ add_packet(table, src, row)[s][i] = table[s][i]
<1> DEFINE new == add_packet(table, src, row)
<1>1. CASE s # src
  <2>1. s \in DOMAIN table /\ new[s] = table[s]
    BY <1>1 DEF add_packet
  <2> QED
    BY <2>1
<1>2. CASE s = src /\ s \in DOMAIN table
  <2>1. table[s] \in Seq(Row)
    BY <1>2 DEF TypeOK
  <2>2. new[s] = Append(table[s], row)
    BY <1>2 DEF add_packet
  <2>3. \A i \in 1..Len(Append(table[s], row)) :
           \/ i \in 1..Len(table[s]) /\ Append(table[s], row)[i] = table[s][i]
           \/ Append(table[s], row)[i] = row
    BY <2>1
  <2> QED
    BY <1>2, <2>2, <2>3
<1>3. CASE s = src /\ s \notin DOMAIN table
  <2>1. new[s] = <<row>>
    BY <1>3 DEF add_packet
  <2>2. \A i \in 1..Len(<<row>>) : <<row>>[i] = row
    OBVIOUS
  <2> QED
    BY <1>3, <2>1, <2>2
<1> QED
  BY <1>1, <1>2, <1>3

LEMMA DrivenFrame ==
    ASSUME DrivenPinsAreOutputs, UNCHANGED <<table, pins>>
    PROVE  DrivenPinsAreOutputs'
BY DEF DrivenPinsAreOutputs

LEMMA DrivenNoRows == ASSUME table' = EmptyTable PROVE DrivenPinsAreOutputs'
BY DEF DrivenPinsAreOutputs, EmptyTable

\* A set-up adds a row and makes its pin an output; no pin stops being one.
LEMMA DrivenFiled ==
    ASSUME TypeOK, DrivenPinsAreOutputs, NEW src \in Half, NEW row \in Row,
           table' = add_packet(table, src, row),
           \A p \in Pins : pins[p].dir = "out" => pins'[p].dir = "out",
           row.ty = GPO /\ row.io \in Pins => pins'[row.io].dir = "out"
    PROVE  DrivenPinsAreOutputs'
<1> SUFFICES ASSUME NEW s \in DOMAIN table', NEW i \in 1..Len(table'[s]),
                    table'[s][i].ty = GPO, table'[s][i].io \in Pins
             PROVE  pins'[table'[s][i].io].dir = "out"
  BY DEF DrivenPinsAreOutputs
<1>1. \/ table'[s][i] = row
      \/ s \in DOMAIN table /\ i \in 1..Len(table[s]) /\ table'[s][i] = table[s][i]
  BY FiledRows
<1> QED
  BY <1>1 DEF DrivenPinsAreOutputs

LEMMA DrivenAddOutput ==
    ASSUME TypeOK, DrivenPinsAreOutputs, NEW ref \in Word, AddOutput(ref)
    PROVE  DrivenPinsAreOutputs'
<1>1. decode_hwrf(ref) \in Half /\ RowOf(op1) \in Row
  BY RowOfType DEF decode_hwrf, Word, TypeOK
<1>2. pins' = SetupPins(pins, RowOf(op1))
  BY DEF AddOutput
<1>3. \A p \in Pins : pins[p].dir = "out" => pins'[p].dir = "out"
  BY <1>2 DEF SetupPins, TypeOK
<1>4. RowOf(op1).ty = GPO /\ RowOf(op1).io \in Pins => pins'[RowOf(op1).io].dir = "out"
  BY <1>2 DEF SetupPins, TypeOK
<1> QED
  BY <1>1, <1>3, <1>4, DrivenFiled DEF AddOutput

LEMMA DrivenPop1 == TypeOK /\ DrivenPinsAreOutputs /\ Pop1 => DrivenPinsAreOutputs'
<1> SUFFICES ASSUME TypeOK, DrivenPinsAreOutputs, Pop1 PROVE DrivenPinsAreOutputs'
  OBVIOUS
<1> DEFINE w == Head(fifo01)
<1>1. w \in Word
  BY HeadTailProperties DEF Pop1, TypeOK
<1> HIDE DEF w
<1>2. CASE SetupOutput1(w) \/ Action1(w) \/ Ignored1(w)
  BY <1>2, DrivenFrame DEF SetupOutput1, Action1, Ignored1
<1>3. CASE Clean1(w)
  BY <1>3, DrivenNoRows DEF Clean1
<1>4. CASE SetupOther1(w)
  <2>1. PICK s \in JunkSources : table' = add_packet(table, s, RowOf(w))
    BY <1>4 DEF SetupOther1
  <2>2. s \in Half /\ RowOf(w) \in Row
    BY <1>1, RowOfType, JunkAssumption
  <2>3. RowOf(w).ty # GPO
    BY <1>4 DEF SetupOther1, RowOf, Outputs
  <2> QED
    BY <1>4, <2>1, <2>2, <2>3, DrivenFiled DEF SetupOther1
<1> QED
  BY <1>2, <1>3, <1>4 DEF Pop1, w

LEMMA DrivenStep == TypeOK /\ DrivenPinsAreOutputs /\ [Next]_vars => DrivenPinsAreOutputs'
<1> SUFFICES ASSUME TypeOK, DrivenPinsAreOutputs, [Next]_vars PROVE DrivenPinsAreOutputs'
  OBVIOUS
<1>1. CASE Network \/ Core0
  BY <1>1, DrivenFrame
     DEF Network, Upgrade0, Save0, Command0, StartCallback, Core0, Marshal0, Push0,
         EndPoll0, PopTag0, PopTimeout0, PopValue0, hw
<1>2. CASE Core1
  <2>1. CASE Push1 \/ Uptime1 \/ CoreTemp1 \/ PopTimeout1 \/ EndDrive1
    BY <2>1, DrivenFrame DEF Push1, Uptime1, CoreTemp1, PopTimeout1, EndDrive1, hw
  <2>2. CASE Pop1
    BY <2>2, DrivenPop1
  <2>3. CASE Ref1
    <3>1. Head(fifo01) \in Word
      BY <2>3, HeadTailProperties DEF Ref1, TypeOK
    <3> QED
      BY <2>3, <3>1, DrivenAddOutput DEF Ref1
  <2>4. CASE RefTimeout1
    BY <2>4, DrivenAddOutput DEF RefTimeout1, TypeOK
  <2>5. CASE Drive1
    <3>1. table' = table
      BY <2>5 DEF Drive1
    <3>2. \A p \in Pins : pins'[p].dir = pins[p].dir
      BY <2>5 DEF Drive1, TypeOK
    <3> QED
      BY <3>1, <3>2 DEF DrivenPinsAreOutputs
  <2> QED
    BY <1>2, <2>1, <2>2, <2>3, <2>4, <2>5 DEF Core1
<1>3. CASE Reboot
  BY <1>3, DrivenNoRows DEF Reboot
<1>4. CASE UNCHANGED vars
  BY <1>4, DrivenFrame DEF vars, hw
<1> QED
  BY <1>1, <1>2, <1>3, <1>4 DEF Next

\* No interleaving of set-ups, late second words, stray words, clean-ups and
\* reboots leaves a row that drives a pin which is an input, whatever the packets,
\* the depth of the FIFOs and what an uninitialised source_id holds
\* (hwman.c:159-211, 215-221, 255).
THEOREM DrivenPinsStayOutputs == Spec => []DrivenPinsAreOutputs
<1>1. Init => TypeOK /\ DrivenPinsAreOutputs
  <2>1. Init => DrivenPinsAreOutputs
    BY DEF Init, Booted, EmptyTable, DrivenPinsAreOutputs
  <2> QED
    BY <2>1, TypeInit
<1>2. TypeOK /\ DrivenPinsAreOutputs /\ [Next]_vars => (TypeOK /\ DrivenPinsAreOutputs)'
  BY TypeStep, DrivenStep
<1> QED
  BY <1>1, <1>2, PTL DEF Spec

-----------------------------------------------------------------------------
(* The rows of core 1.  Every row is a configured element filed under a    *)
(* key that its own set-up gives it.  RowsGenuine is not inductive by      *)
(* itself: it needs that the two words of each set-up stay together in the *)
(* stream from core 0 to core 1 (SetupsPaired), and that whatever a        *)
(* callback has still to send comes from a configuration (GenuineSource).  *)

\* Commands carry one payload byte, and no source id reaches into the two bits
\* of its word that core 1 would read as an operation.
TidyInputs ==
    /\ \A p \in Packets : \A i \in DOMAIN p : p[i].ext = <<>>
    /\ \A m \in ConfiguredItems : m.src < 16384

TidyMessage(m) ==
    IF m.kind = "setup" THEN m \in ConfiguredItems ELSE m \in CommandItem /\ m.ext = <<>>

GenuineSource ==
    /\ stored = <<>> \/ stored \in Configs
    /\ \A i \in 1..Len(todo0) : TidyMessage(todo0[i])
    /\ pc1 = "ref" => decode_hwel(op1).operation = SetupOp

RowsInv == TypeOK /\ GenuineSource /\ SetupsPaired /\ RowsGenuine

\* SetupsPaired, of any sequence of words.
Paired(words) ==
    \A i \in 1..Len(words) :
        decode_hwel(words[i]).operation = SetupOp =>
            \E m \in ConfiguredItems :
                /\ words[i] = OpWord(SetupOp, m.ty, m.id, m.io)
                /\ i < Len(words) /\ words[i + 1] = RefWord(m.src)

LEMMA PairedStream == SetupsPaired <=> Paired(WordStream)
BY DEF SetupsPaired, Paired

LEMMA PairedEmpty == Paired(<<>>)
BY DEF Paired

\* Dropping words from the front keeps the rest paired.
LEMMA PairedDrop ==
    ASSUME NEW s \in Seq(Word), NEW t \in Seq(Word), NEW n \in Nat, Paired(s),
           Len(s) = Len(t) + n, \A i \in 1..Len(t) : t[i] = s[i + n]
    PROVE  Paired(t)
<1> SUFFICES ASSUME NEW i \in 1..Len(t), decode_hwel(t[i]).operation = SetupOp
             PROVE  \E m \in ConfiguredItems :
                        /\ t[i] = OpWord(SetupOp, m.ty, m.id, m.io)
                        /\ i < Len(t) /\ t[i + 1] = RefWord(m.src)
  BY DEF Paired
<1>1. i + n \in 1..Len(s) /\ t[i] = s[i + n]
  OBVIOUS
<1>2. PICK m \in ConfiguredItems :
          /\ s[i + n] = OpWord(SetupOp, m.ty, m.id, m.io)
          /\ i + n < Len(s) /\ s[i + n + 1] = RefWord(m.src)
  BY <1>1 DEF Paired
<1>3. i < Len(t) /\ i + 1 \in 1..Len(t)
  BY <1>1, <1>2
<1>4. t[i + 1] = s[(i + 1) + n] /\ (i + 1) + n = i + n + 1
  BY <1>3
<1> QED
  BY <1>1, <1>2, <1>3, <1>4

\* Two paired streams one after the other are paired.
LEMMA PairedConcat ==
    ASSUME NEW s \in Seq(Word), NEW t \in Seq(Word), Paired(s), Paired(t)
    PROVE  Paired(s \o t)
<1> DEFINE u == s \o t
<1>1. /\ u \in Seq(Word) /\ Len(u) = Len(s) + Len(t)
      /\ \A i \in 1..Len(s) : u[i] = s[i]
      /\ \A i \in 1..Len(t) : u[i + Len(s)] = t[i]
  BY ConcatProperties
<1> HIDE DEF u
<1> SUFFICES ASSUME NEW i \in 1..Len(u), decode_hwel(u[i]).operation = SetupOp
             PROVE  \E m \in ConfiguredItems :
                        /\ u[i] = OpWord(SetupOp, m.ty, m.id, m.io)
                        /\ i < Len(u) /\ u[i + 1] = RefWord(m.src)
  BY DEF Paired, u
<1>2. CASE i <= Len(s)
  <2>1. i \in 1..Len(s) /\ u[i] = s[i]
    BY <1>1, <1>2
  <2>2. PICK m \in ConfiguredItems :
            /\ s[i] = OpWord(SetupOp, m.ty, m.id, m.io)
            /\ i < Len(s) /\ s[i + 1] = RefWord(m.src)
    BY <2>1 DEF Paired
  <2>3. i + 1 \in 1..Len(s) /\ i < Len(u)
    BY <1>1, <2>1, <2>2
  <2>4. u[i + 1] = s[i + 1]
    BY <1>1, <2>3
  <2> QED
    BY <2>1, <2>2, <2>3, <2>4
<1>3. CASE i > Len(s)
  <2> DEFINE j == i - Len(s)
  <2>1. j \in 1..Len(t) /\ j + Len(s) = i
    BY <1>1, <1>3
  <2> HIDE DEF j
  <2>2. u[i] = t[j]
    BY <1>1, <2>1
  <2>3. PICK m \in ConfiguredItems :
            /\ t[j] = OpWord(SetupOp, m.ty, m.id, m.io)
            /\ j < Len(t) /\ t[j + 1] = RefWord(m.src)
    BY <2>1, <2>2 DEF Paired
  <2>4. j + 1 \in 1..Len(t) /\ (j + 1) + Len(s) = i + 1 /\ i < Len(u)
    BY <1>1, <2>1, <2>3, SMTT(30)
  <2>5. u[i + 1] = t[j + 1]
    BY <1>1, <2>4
  <2> QED
    BY <2>2, <2>3, <2>4, <2>5
<1> QED
  BY <1>2, <1>3

-----------------------------------------------------------------------------
(* The words of one message. *)

LEMMA ConfiguredType == \A m \in ConfiguredItems : m \in SetupItem
BY ConfigsAssumption DEF ConfiguredItems

LEMMA SetupFields ==
    ASSUME NEW m \in ConfiguredItems
    PROVE  /\ m.ty \in Outputs /\ m.ty \in LED..63
           /\ m.id \in Half /\ m.io \in Byte /\ m.src \in Half
<1>1. m \in SetupItem
  BY ConfiguredType
<1> QED
  BY <1>1 DEF SetupItem, Outputs, LED, GPO

\* What core 1 reads in the first word of a configured set-up.
LEMMA SetupDecoded ==
    ASSUME NEW m \in ConfiguredItems
    PROVE  LET w == OpWord(SetupOp, m.ty, m.id, m.io)
           IN  /\ w \in Word
               /\ decode_hwel(w).operation = SetupOp
               /\ decode_hwel(w).control_type = m.ty
               /\ RowOf(w) = ItemRow(m)
<1>1. SetupOp \in 0..3
  BY DEF SetupOp
<1>2. LET w == OpWord(SetupOp, m.ty, m.id, m.io)
      IN  /\ w \in Word
          /\ decode_hwel(w) = [operation |-> SetupOp, control_type |-> m.ty,
                               id |-> m.id, value |-> m.io]
  BY <1>1, SetupFields, DecodeOpWord
<1> QED
  BY <1>2 DEF RowOf, ItemRow

LEMMA CommandDecoded ==
    ASSUME NEW m \in CommandItem
    PROVE  decode_hwel(OpWord(ActionOp, m.ty, m.id, m.val)).operation = ActionOp
<1>1. ActionOp \in 0..3
  BY DEF ActionOp
<1>2. m.ty \in LED..63 /\ m.id \in Half /\ m.val \in Byte
  BY DEF CommandItem
<1> QED
  BY <1>1, <1>2, DecodeOpWord

LEMMA PairedMessage ==
    ASSUME TidyInputs, NEW m, TidyMessage(m)
    PROVE  Paired(WordsOf(m))
<1>1. CASE m.kind = "setup"
  <2>1. m \in ConfiguredItems
    BY <1>1 DEF TidyMessage
  <2>2. WordsOf(m) = <<OpWord(SetupOp, m.ty, m.id, m.io), RefWord(m.src)>>
    BY <1>1 DEF WordsOf, SetupWords
  <2>3. decode_hwel(RefWord(m.src)).operation # SetupOp
    BY <2>1, SetupFields, DecodeRefWord DEF TidyInputs, SetupOp
  <2> DEFINE first == OpWord(SetupOp, m.ty, m.id, m.io)
             second == RefWord(m.src)
  <2> HIDE DEF first, second
  <2>4. \A i \in 1..Len(<<first, second>>) : i = 1 \/ (i = 2 /\ <<first, second>>[i] = second)
    OBVIOUS
  <2>5. <<first, second>>[1] = first /\ <<first, second>>[1 + 1] = second
        /\ 1 < Len(<<first, second>>)
    OBVIOUS
  <2>6. decode_hwel(second).operation # SetupOp
    BY <2>3 DEF second
  <2>7. WordsOf(m) = <<first, second>>
    BY <2>2 DEF first, second
  <2>8. \A i \in 1..Len(<<first, second>>) :
            decode_hwel(<<first, second>>[i]).operation = SetupOp => i = 1
    BY <2>4, <2>6
  <2>9. first = OpWord(SetupOp, m.ty, m.id, m.io) /\ second = RefWord(m.src)
    BY DEF first, second
  <2> QED
    BY <2>1, <2>5, <2>7, <2>8, <2>9 DEF Paired
<1>2. CASE m.kind # "setup"
  <2>1. m \in CommandItem /\ m.ext = <<>>
    BY <1>2 DEF TidyMessage
  <2> DEFINE w == OpWord(ActionOp, m.ty, m.id, m.val)
  <2>2. decode_hwel(w).operation # SetupOp
    BY <2>1, CommandDecoded DEF ActionOp, SetupOp
  <2> HIDE DEF w
  <2>3. WordsOf(m) = <<w>>
    BY <1>2, <2>1 DEF WordsOf, CommandWords, w
  <2>4. \A i \in 1..Len(<<w>>) : <<w>>[i] = w
    OBVIOUS
  <2> QED
    BY <2>2, <2>3, <2>4 DEF Paired
<1> QED
  BY <1>1, <1>2

LEMMA TidyWords ==
    ASSUME TidyInputs, NEW m, TidyMessage(m)
    PROVE  WordsOf(m) \in Seq(Word)
<1>1. CASE m.kind = "setup"
  BY <1>1, ConfiguredType, WordsOfType DEF TidyMessage
<1>2. CASE m.kind # "setup"
  BY <1>2, WordsOfType DEF TidyMessage
<1> QED
  BY <1>1, <1>2

-----------------------------------------------------------------------------
(* The steps keep the stream paired. *)

Held == IF pc1 = "ref" THEN <<op1>> ELSE <<>>

LEMMA WordTypes ==
    ASSUME TypeOK
    PROVE  /\ Held \in Seq(Word) /\ fifo01 \in Seq(Word) /\ out0 \in Seq(Word)
           /\ WordStream \in Seq(Word)
<1>1. Held \in Seq(Word) /\ fifo01 \in Seq(Word) /\ out0 \in Seq(Word)
  BY DEF TypeOK, Held
<1>2. WordStream = (Held \o fifo01) \o out0
  BY DEF WordStream, Held
<1> QED
  BY <1>1, <1>2

LEMMA PairedFrame ==
    ASSUME SetupsPaired, UNCHANGED <<out0, fifo01>>, Held' = Held
    PROVE  SetupsPaired'
BY PairedStream DEF SetupsPaired, WordStream, Held

LEMMA WordSeqs == \A a, b, c \in Seq(Word) : (a \o b) \o c = a \o (b \o c)
<1> TAKE a, b, c \in Seq(Word)
<1> QED
  BY ConcatAssociative

\* The stream, grouped the other way.
LEMMA StreamGrouped == TypeOK => WordStream = Held \o (fifo01 \o out0)
<1> SUFFICES ASSUME TypeOK PROVE WordStream = Held \o (fifo01 \o out0)
  OBVIOUS
<1>1. WordStream = (Held \o fifo01) \o out0
  BY DEF WordStream, Held
<1>2. (Held \o fifo01) \o out0 = Held \o (fifo01 \o out0)
  BY WordTypes, WordSeqs, Zenon
<1> QED
  BY <1>1, <1>2, Zenon

LEMMA StreamGroupedNext == (TypeOK => WordStream = Held \o (fifo01 \o out0))'
BY StreamGrouped, PTL

\* The stream loses its first n words.
Drops(n) ==
    /\ WordStream' \in Seq(Word) /\ Len(WordStream) = Len(WordStream') + n
    /\ \A i \in 1..Len(WordStream') : WordStream'[i] = WordStream[i + n]

LEMMA PairedDrops ==
    ASSUME RowsInv, NEW n \in Nat, Drops(n)
    PROVE  SetupsPaired'
BY WordTypes, PairedDrop, PairedStream DEF Drops, RowsInv, SetupsPaired, Paired

LEMMA StreamMarshal0 ==
    ASSUME RowsInv, Marshal0
    PROVE  WordStream' = WordStream \o WordsOf(Head(todo0))
<1>1. WordStream = Held \o fifo01
  <2>1. WordStream = (Held \o fifo01) \o <<>>
    BY DEF Marshal0, WordStream, Held
  <2>2. Held \o fifo01 \in Seq(Word)
    BY WordTypes, ConcatProperties DEF RowsInv
  <2> QED
    BY <2>1, <2>2
<1>2. WordStream' = (Held \o fifo01) \o WordsOf(Head(todo0))
  BY DEF Marshal0, WordStream, Held, core1, fifos
<1> QED
  BY <1>1, <1>2

LEMMA FirstIsTidy ==
    ASSUME RowsInv, todo0 # <<>>
    PROVE  1 \in 1..Len(todo0) /\ Head(todo0) = todo0[1] /\ TidyMessage(Head(todo0))
<1>1. 1 \in 1..Len(todo0) /\ Head(todo0) = todo0[1]
  BY DEF RowsInv, TypeOK
<1> QED
  BY <1>1 DEF RowsInv, GenuineSource

LEMMA PairedMarshal0 ==
    ASSUME TidyInputs, RowsInv, TypeOK', Marshal0
    PROVE  SetupsPaired'
<1> DEFINE words == WordsOf(Head(todo0))
<1>1. words \in Seq(Word) /\ Paired(words)
  BY FirstIsTidy, TidyWords, PairedMessage DEF Marshal0
<1>2. WordStream' = WordStream \o words
  BY StreamMarshal0
<1> HIDE DEF words
<1> QED
  BY <1>1, <1>2, WordTypes, PairedConcat, PairedStream DEF RowsInv, SetupsPaired, Paired

LEMMA StreamPush0 ==
    ASSUME RowsInv, TypeOK', Push0
    PROVE  WordStream' = WordStream
<1>1. Append(fifo01, Head(out0)) \o Tail(out0) = fifo01 \o out0
  BY WordTypes, PushMoves DEF Push0, RowsInv
<1> QED
  BY <1>1, StreamGrouped, StreamGroupedNext DEF Push0, RowsInv, core1, Held

\* Core 1 takes a word in and holds it as the first of a set-up, or is done with it.
LEMMA StreamTaken ==
    ASSUME RowsInv, pc1 # "ref", fifo01 # <<>>, fifo01' = Tail(fifo01), UNCHANGED out0
    PROVE  /\ pc1' = "ref" /\ op1' = Head(fifo01) => WordStream' = WordStream
           /\ pc1' # "ref" => Drops(1)
<1>1. WordStream = fifo01 \o out0
  BY WordTypes DEF WordStream, RowsInv
<1>2. CASE pc1' = "ref" /\ op1' = Head(fifo01)
  <2>1. <<Head(fifo01)>> \o Tail(fifo01) = fifo01
    BY WordTypes DEF RowsInv
  <2>2. WordStream' = (<<Head(fifo01)>> \o Tail(fifo01)) \o out0
    BY <1>2 DEF WordStream
  <2> QED
    BY <1>1, <1>2, <2>1, <2>2
<1>3. CASE pc1' # "ref"
  <2>1. WordStream' = Tail(fifo01) \o out0
    BY <1>3, WordTypes, TailType DEF WordStream, RowsInv
  <2>2. /\ Tail(fifo01) \in Seq(Word) /\ Len(fifo01) = Len(Tail(fifo01)) + 1
        /\ \A i \in 1..Len(Tail(fifo01)) : Tail(fifo01)[i] = fifo01[i + 1]
    BY WordTypes, TailType DEF RowsInv
  <2> QED
    BY <1>1, <1>3, <2>1, <2>2, WordTypes DEF RowsInv, Drops
<1> QED
  BY <1>2, <1>3

\* Core 1 is done with a set-up whose second word came.
LEMMA StreamRef1 == ASSUME RowsInv, Ref1 PROVE Drops(2)
<1>1. WordStream = (<<op1>> \o fifo01) \o out0 /\ WordStream' = Tail(fifo01) \o out0
  BY WordTypes, TailType DEF WordStream, RowsInv, Ref1, AddOutput, core0
<1>2. /\ Tail(fifo01) \in Seq(Word) /\ Len(fifo01) = Len(Tail(fifo01)) + 1
      /\ \A i \in 1..Len(Tail(fifo01)) : Tail(fifo01)[i] = fifo01[i + 1]
  BY WordTypes, TailType DEF RowsInv, Ref1
<1>3. op1 \in Word
  BY DEF RowsInv, TypeOK
<1> QED
  BY <1>1, <1>2, <1>3, WordTypes DEF RowsInv, Drops

\* Core 1 is done with a set-up whose second word was late.
LEMMA StreamRefTimeout1 == ASSUME RowsInv, RefTimeout1 PROVE Drops(1)
<1>1. WordStream = (<<op1>> \o <<>>) \o out0 /\ WordStream' = <<>> \o out0
  BY DEF WordStream, RefTimeout1, AddOutput, core0
<1>2. op1 \in Word
  BY DEF RowsInv, TypeOK
<1> QED
  BY <1>1, <1>2, WordTypes DEF RowsInv, Drops

LEMMA PairedPop1 ==
    ASSUME RowsInv, TypeOK', Pop1
    PROVE  SetupsPaired'
<1> DEFINE w == Head(fifo01)
<1>1. fifo01 # <<>> /\ pc1 # "ref" /\ fifo01' = Tail(fifo01) /\ UNCHANGED out0
  BY DEF Pop1, SetupOutput1, SetupOther1, Clean1, Action1, Ignored1, Popped, core0
<1>2. (pc1' = "ref" /\ op1' = Head(fifo01)) \/ pc1' # "ref"
  BY DEF Pop1, SetupOutput1, SetupOther1, Clean1, Action1, Ignored1
<1>3. WordStream' = WordStream \/ Drops(1)
  BY <1>1, <1>2, StreamTaken
<1> QED
  BY <1>3, PairedDrops DEF SetupsPaired, RowsInv

LEMMA PairedStep ==
    ASSUME TidyInputs, RowsInv, TypeOK', [Next]_vars
    PROVE  SetupsPaired'
<1>1. CASE Network
  BY <1>1, PairedFrame
     DEF RowsInv, Network, Upgrade0, Save0, Command0, StartCallback, core1, fifos, Held
<1>2. CASE Core0
  <2>1. CASE Marshal0
    BY <2>1, PairedMarshal0
  <2>2. CASE Push0
    BY <2>2, StreamPush0 DEF SetupsPaired, RowsInv
  <2>3. CASE EndPoll0 \/ PopTag0 \/ PopTimeout0 \/ PopValue0
    BY <2>3, PairedFrame
       DEF RowsInv, EndPoll0, PopTag0, PopTimeout0, PopValue0, core1, fifos, Held
  <2> QED
    BY <1>2, <2>1, <2>2, <2>3 DEF Core0
<1>3. CASE Core1
  <2>1. CASE Push1 \/ Drive1
    BY <2>1, PairedFrame DEF RowsInv, Push1, Drive1, core0, fifos, Held
  <2>2. CASE Uptime1 \/ CoreTemp1 \/ PopTimeout1 \/ EndDrive1
    <3>1. Held' = Held /\ UNCHANGED <<out0, fifo01>>
      BY <2>2 DEF Uptime1, CoreTemp1, PopTimeout1, EndDrive1, core0, fifos, Held
    <3> QED
      BY <3>1, PairedFrame DEF RowsInv
  <2>3. CASE Pop1
    BY <2>3, PairedPop1
  <2>4. CASE Ref1
    BY <2>4, StreamRef1, PairedDrops
  <2>5. CASE RefTimeout1
    BY <2>5, StreamRefTimeout1, PairedDrops
  <2> QED
    BY <1>3, <2>1, <2>2, <2>3, <2>4, <2>5 DEF Core1
<1>4. CASE Reboot
  <2>1. WordStream' = <<>>
    BY <1>4 DEF Reboot, WordStream
  <2> QED
    BY <2>1, PairedEmpty DEF SetupsPaired, Paired
<1>5. CASE UNCHANGED vars
  BY <1>5, PairedFrame DEF RowsInv, vars, core0, core1, fifos, Held
<1> QED
  BY <1>1, <1>2, <1>3, <1>4, <1>5 DEF Next

-----------------------------------------------------------------------------
(* Where messages come from. *)

LEMMA SourceFrame ==
    ASSUME GenuineSource, UNCHANGED <<stored, todo0, pc1, op1>>
    PROVE  GenuineSource'
BY DEF GenuineSource, TidyMessage

LEMMA ConfiguredMessages ==
    ASSUME NEW c \in Configs, NEW i \in 1..Len(c)
    PROVE  TidyMessage(c[i])
<1>1. c \in Seq(SetupItem)
  BY ConfigsAssumption
<1>2. i \in DOMAIN c /\ c[i] \in SetupItem
  BY <1>1
<1>3. c[i] \in ConfiguredItems
  BY <1>2 DEF ConfiguredItems
<1>4. c[i].kind = "setup"
  BY <1>2 DEF SetupItem
<1> QED
  BY <1>3, <1>4 DEF TidyMessage

LEMMA CommandMessages ==
    ASSUME TidyInputs, NEW p \in Packets, NEW i \in 1..Len(p)
    PROVE  TidyMessage(p[i])
<1>1. p \in Seq(CommandItem)
  BY PacketsAssumption
<1>2. i \in DOMAIN p /\ p[i] \in CommandItem
  BY <1>1
<1>3. p[i].ext = <<>> /\ p[i].kind = "command"
  BY <1>2 DEF TidyInputs, CommandItem
<1> QED
  BY <1>2, <1>3 DEF TidyMessage

LEMMA SourceStep ==
    ASSUME TidyInputs, TypeOK, GenuineSource, [Next]_vars
    PROVE  GenuineSource'
<1>1. CASE Network
  <2>1. (pc1 = "ref" => decode_hwel(op1).operation = SetupOp)'
    BY <1>1 DEF GenuineSource, Network, Upgrade0, Save0, Command0, StartCallback, core1
  <2>2. CASE Upgrade0
    <3>1. stored' = stored /\ todo0' = stored
      BY <2>2 DEF Upgrade0, StartCallback
    <3>2. \A i \in 1..Len(stored) : TidyMessage(stored[i])
      BY ConfiguredMessages DEF GenuineSource
    <3> QED
      BY <2>1, <3>1, <3>2 DEF GenuineSource, TidyMessage
  <2>3. CASE Save0
    <3>1. PICK c \in Configs : stored' = c /\ todo0' = c
      BY <2>3 DEF Save0, StartCallback
    <3> QED
      BY <2>1, <3>1, ConfiguredMessages DEF GenuineSource, TidyMessage
  <2>4. CASE Command0
    <3>1. PICK p \in Packets : stored' = stored /\ todo0' = p
      BY <2>4 DEF Command0, StartCallback
    <3> QED
      BY <2>1, <3>1, CommandMessages DEF GenuineSource, TidyMessage
  <2> QED
    BY <1>1, <2>2, <2>3, <2>4 DEF Network
<1>2. CASE Core0
  <2>1. CASE Marshal0
    <3>1. todo0' = Tail(todo0) /\ todo0 # <<>> /\ todo0 \in Seq(SetupItem \union CommandItem)
      BY <2>1 DEF Marshal0, TypeOK
    <3>2. Len(Tail(todo0)) = Len(todo0) - 1
          /\ \A i \in 1..Len(Tail(todo0)) : Tail(todo0)[i] = todo0[i + 1]
      BY <3>1
    <3>3. \A i \in 1..Len(todo0') : todo0'[i] = todo0[i + 1] /\ i + 1 \in 1..Len(todo0)
      BY <3>1, <3>2
    <3>4. UNCHANGED <<stored, pc1, op1>>
      BY <2>1 DEF Marshal0, core1
    <3> QED
      BY <3>3, <3>4 DEF GenuineSource, TidyMessage
  <2>2. CASE Push0 \/ EndPoll0 \/ PopTag0 \/ PopTimeout0 \/ PopValue0
    BY <2>2, SourceFrame DEF Push0, EndPoll0, PopTag0, PopTimeout0, PopValue0, core1
  <2> QED
    BY <1>2, <2>1, <2>2 DEF Core0
<1>3. CASE Core1
  <2>1. UNCHANGED <<stored, todo0>>
    BY <1>3 DEF Core1, Push1, Uptime1, CoreTemp1, Pop1, PopTimeout1, Ref1, RefTimeout1, AddOutput,
           Drive1, EndDrive1, SetupOutput1, SetupOther1, Clean1, Action1, Ignored1, Popped, core0
  <2>2. CASE pc1' = "ref" /\ UNCHANGED <<pc1, op1>>
    BY <2>1, <2>2, SourceFrame
  <2>3. CASE pc1' # "ref"
    BY <2>1, <2>3 DEF GenuineSource, TidyMessage
  <2>4. CASE pc1' = "ref" /\ decode_hwel(op1').operation = SetupOp
    BY <2>1, <2>4 DEF GenuineSource, TidyMessage
  <2>5. CASE Push1
    BY <2>5, <2>2, <2>3 DEF Push1
  <2>6. CASE Uptime1 \/ CoreTemp1 \/ PopTimeout1 \/ EndDrive1 \/ Ref1 \/ RefTimeout1
    BY <2>6, <2>3 DEF Uptime1, CoreTemp1, PopTimeout1, EndDrive1, Ref1, RefTimeout1, AddOutput
  <2>7. CASE Drive1
    BY <2>7, <2>2, <2>3 DEF Drive1
  <2>8. CASE Pop1
    BY <2>8, <2>3, <2>4
       DEF Pop1, SetupOutput1, SetupOther1, Clean1, Action1, Ignored1
  <2> QED
    BY <1>3, <2>5, <2>6, <2>7, <2>8 DEF Core1
<1>4. CASE Reboot
  BY <1>4 DEF Reboot, GenuineSource
<1>5. CASE UNCHANGED vars
  BY <1>5, SourceFrame DEF vars, core0, core1
<1> QED
  BY <1>1, <1>2, <1>3, <1>4, <1>5 DEF Next

-----------------------------------------------------------------------------
(* The rows. *)

LEMMA RowsFrame == ASSUME RowsGenuine, UNCHANGED table PROVE RowsGenuine'
BY DEF RowsGenuine

LEMMA RowsNone == ASSUME table' = EmptyTable PROVE RowsGenuine'
BY DEF RowsGenuine, EmptyTable

LEMMA RowsFiled ==
    ASSUME TypeOK, RowsGenuine, NEW src \in Half, NEW row \in Row,
           table' = add_packet(table, src, row),
           NEW m \in ConfiguredItems, row = ItemRow(m), src \in FiledUnder(m)
    PROVE  RowsGenuine'
<1> SUFFICES ASSUME NEW s \in DOMAIN table', NEW i \in 1..Len(table'[s])
             PROVE  \E c \in ConfiguredItems : table'[s][i] = ItemRow(c) /\ s \in FiledUnder(c)
  BY DEF RowsGenuine
<1>1. \/ table'[s][i] = row /\ s = src
      \/ s \in DOMAIN table /\ i \in 1..Len(table[s]) /\ table'[s][i] = table[s][i]
  BY FiledRows
<1> QED
  BY <1>1 DEF RowsGenuine

\* The first word core 1 holds is that of a configured set-up, its source next.
LEMMA HeldIsConfigured ==
    ASSUME RowsInv, pc1 = "ref"
    PROVE  \E m \in ConfiguredItems :
               /\ op1 = OpWord(SetupOp, m.ty, m.id, m.io)
               /\ fifo01 # <<>> => Head(fifo01) = RefWord(m.src)
               /\ fifo01 = <<>> => out0 # <<>>
<1>1. WordStream = (<<op1>> \o fifo01) \o out0
  BY DEF WordStream
<1>2. op1 \in Word
  BY DEF RowsInv, TypeOK
<1>3. /\ 1 \in 1..Len(WordStream) /\ WordStream[1] = op1
      /\ Len(WordStream) = 1 + Len(fifo01) + Len(out0)
      /\ fifo01 # <<>> => WordStream[1 + 1] = Head(fifo01)
  BY <1>1, <1>2, WordTypes DEF RowsInv
<1>4. decode_hwel(WordStream[1]).operation = SetupOp
  BY <1>3 DEF RowsInv, GenuineSource
<1>5. PICK m \in ConfiguredItems :
          /\ WordStream[1] = OpWord(SetupOp, m.ty, m.id, m.io)
          /\ 1 < Len(WordStream) /\ WordStream[1 + 1] = RefWord(m.src)
  BY <1>3, <1>4 DEF RowsInv, SetupsPaired
<1>6. fifo01 = <<>> => out0 # <<>>
  BY <1>3, <1>5, WordTypes DEF RowsInv
<1> QED
  BY <1>3, <1>5, <1>6

LEMMA RowsRef1 == ASSUME RowsInv, Ref1 PROVE RowsGenuine'
<1>1. pc1 = "ref" /\ fifo01 # <<>>
  BY DEF Ref1
<1>2. PICK m \in ConfiguredItems :
          op1 = OpWord(SetupOp, m.ty, m.id, m.io) /\ Head(fifo01) = RefWord(m.src)
  BY <1>1, HeldIsConfigured
<1>3. decode_hwrf(Head(fifo01)) = m.src /\ m.src \in Half /\ m.src \in FiledUnder(m)
  BY <1>2, SetupFields, DecodeRefWord DEF FiledUnder
<1>4. RowOf(op1) = ItemRow(m) /\ RowOf(op1) \in Row
  BY <1>2, SetupDecoded, RowOfType
<1>5. table' = add_packet(table, m.src, RowOf(op1))
  BY <1>3 DEF Ref1, AddOutput
<1> QED
  BY <1>3, <1>4, <1>5, RowsFiled DEF RowsInv

LEMMA RowsRefTimeout1 == ASSUME RowsInv, RefTimeout1 PROVE RowsGenuine'
<1>1. pc1 = "ref" /\ fifo01 = <<>>
  BY DEF RefTimeout1
<1>2. PICK m \in ConfiguredItems : op1 = OpWord(SetupOp, m.ty, m.id, m.io) /\ out0 # <<>>
  BY <1>1, HeldIsConfigured
<1>3. decode_hwrf(op1) \in FiledUnder(m) /\ decode_hwrf(op1) \in Half
  <2>1. LateRef
    BY <1>2 DEF RefTimeout1
  <2>2. op1[1] \in Half
    BY DEF RowsInv, TypeOK, Word
  <2> QED
    BY <1>2, <2>1, <2>2 DEF decode_hwrf, FiledUnder
<1>4. RowOf(op1) = ItemRow(m) /\ RowOf(op1) \in Row
  BY <1>2, SetupDecoded, RowOfType
<1>5. table' = add_packet(table, decode_hwrf(op1), RowOf(op1))
  BY DEF RefTimeout1, AddOutput
<1> QED
  BY <1>3, <1>4, <1>5, RowsFiled DEF RowsInv

LEMMA RowsPop1 == ASSUME RowsInv, Pop1 PROVE RowsGenuine'
<1> DEFINE w == Head(fifo01)
<1>1. CASE SetupOutput1(w) \/ Action1(w) \/ Ignored1(w)
  BY <1>1, RowsFrame DEF RowsInv, SetupOutput1, Action1, Ignored1
<1>2. CASE Clean1(w)
  BY <1>2, RowsNone DEF Clean1
<1>3. CASE SetupOther1(w)
  <2>1. fifo01 # <<>> /\ pc1 = "pop"
    BY <1>3 DEF SetupOther1, Popped
  <2>2. WordStream = fifo01 \o out0
    BY <2>1, WordTypes DEF WordStream, RowsInv
  <2>3. 1 \in 1..Len(WordStream) /\ WordStream[1] = w
    BY <2>1, <2>2, WordTypes DEF RowsInv
  <2>4. PICK m \in ConfiguredItems : w = OpWord(SetupOp, m.ty, m.id, m.io)
    BY <1>3, <2>3 DEF RowsInv, SetupsPaired, SetupOther1
  <2>5. decode_hwel(w).control_type \in Outputs
    BY <2>4, SetupDecoded, SetupFields
  <2> QED
    BY <1>3, <2>5 DEF SetupOther1
<1> QED
  BY <1>1, <1>2, <1>3 DEF Pop1

LEMMA RowsStep == ASSUME RowsInv, [Next]_vars PROVE RowsGenuine'
<1>1. CASE Network \/ Core0
  BY <1>1, RowsFrame
     DEF RowsInv, Network, Upgrade0, Save0, Command0, StartCallback, Core0, Marshal0,
         Push0, EndPoll0, PopTag0, PopTimeout0, PopValue0, hw
<1>2. CASE Core1
  <2>1. CASE Push1 \/ Uptime1 \/ CoreTemp1 \/ PopTimeout1 \/ Drive1 \/ EndDrive1
    BY <2>1, RowsFrame
       DEF RowsInv, Push1, Uptime1, CoreTemp1, PopTimeout1, Drive1, EndDrive1, hw
  <2> QED
    BY <1>2, <2>1, RowsPop1, RowsRef1, RowsRefTimeout1 DEF Core1
<1>3. CASE Reboot
  BY <1>3, RowsNone DEF Reboot
<1>4. CASE UNCHANGED vars
  BY <1>4, RowsFrame DEF RowsInv, vars, hw
<1> QED
  BY <1>1, <1>2, <1>3, <1>4 DEF Next

LEMMA RowsInit == Init => RowsInv
<1> SUFFICES ASSUME Init PROVE RowsInv
  OBVIOUS
<1>1. WordStream = <<>>
  BY DEF Init, Booted, WordStream
<1>2. SetupsPaired
  BY <1>1, PairedEmpty DEF SetupsPaired, Paired
<1>3. GenuineSource /\ RowsGenuine
  BY DEF Init, Booted, GenuineSource, RowsGenuine, EmptyTable
<1> QED
  BY <1>2, <1>3, TypeInit DEF RowsInv

LEMMA RowsInvStep == TidyInputs /\ RowsInv /\ [Next]_vars => RowsInv'
<1> SUFFICES ASSUME TidyInputs, RowsInv, [Next]_vars PROVE RowsInv'
  OBVIOUS
<1>1. TypeOK'
  BY TypeStep DEF RowsInv
<1>2. GenuineSource' /\ SetupsPaired' /\ RowsGenuine'
  BY <1>1, SourceStep, PairedStep, RowsStep DEF RowsInv
<1> QED
  BY <1>1, <1>2 DEF RowsInv

LEMMA RowsInvariant == TidyInputs /\ Spec => []RowsInv
<1> SUFFICES ASSUME TidyInputs PROVE Spec => []RowsInv
  OBVIOUS
<1>1. RowsInv /\ [Next]_vars => RowsInv'
  BY RowsInvStep
<1> QED
  BY <1>1, RowsInit, PTL DEF Spec

\* With one-byte commands and source ids under 16384, the words of a set-up are
\* never parted: no callback, full FIFO, late second word or reboot lets core 1
\* pair the first word of one set-up with the source of another (config.c:386-408).
THEOREM SetupsStayPaired == TidyInputs /\ Spec => []SetupsPaired
<1>1. RowsInv => SetupsPaired
  BY DEF RowsInv
<1> QED
  BY <1>1, RowsInvariant, PTL

\* Under the same two conditions every row core 1 holds is a configured element,
\* filed under its own source or, when its second word was late, under the upper
\* half of its first (hwman.c:156-211).
THEOREM RowsStayGenuine == TidyInputs /\ Spec => []RowsGenuine
<1>1. RowsInv => RowsGenuine
  BY DEF RowsInv
<1> QED
  BY <1>1, RowsInvariant, PTL

-----------------------------------------------------------------------------
(* What a browser brings back after a power cut. *)

\* A set-up core 1 has still to take in: in a callback, or as two words of the stream.
OnItsWay(m) ==
    \/ \E i \in 1..Len(todo0) : todo0[i] = m
    \/ \E i \in 1..Len(WordStream) :
           /\ WordStream[i] = OpWord(SetupOp, m.ty, m.id, m.io)
           /\ i < Len(WordStream) /\ WordStream[i + 1] = RefWord(m.src)

Filed(m) ==
    \E s \in FiledUnder(m) \cap DOMAIN table : \E j \in DOMAIN table[s] : table[s][j] = ItemRow(m)

NoCleanUp == \A i \in 1..Len(WordStream) : decode_hwel(WordStream[i]).operation # CleanOp

\* Once a browser has connected, each stored set-up is filed or on its way.
Restoring == Upgraded => \A i \in DOMAIN stored : OnItsWay(stored[i]) \/ Filed(stored[i])

RestoreInv == RowsInv /\ NoCleanUp /\ Restoring

\* The words of a message, and what core 1 takes them for.
LEMMA TidyOperations ==
    ASSUME TidyInputs, NEW m, TidyMessage(m)
    PROVE  \A i \in 1..Len(WordsOf(m)) :
               /\ decode_hwel(WordsOf(m)[i]).operation # CleanOp
               /\ m.kind # "setup" => decode_hwel(WordsOf(m)[i]).operation # SetupOp
<1>1. CASE m.kind = "setup"
  <2> DEFINE first == OpWord(SetupOp, m.ty, m.id, m.io)
             second == RefWord(m.src)
  <2>1. m \in ConfiguredItems
    BY <1>1 DEF TidyMessage
  <2>2. decode_hwel(first).operation # CleanOp
    BY <2>1, SetupDecoded DEF SetupOp, CleanOp
  <2>3. decode_hwel(second).operation # CleanOp
    BY <2>1, SetupFields, DecodeRefWord DEF TidyInputs, CleanOp
  <2>4. WordsOf(m) = <<first, second>>
    BY <1>1 DEF WordsOf, SetupWords
  <2> HIDE DEF first, second
  <2>5. \A i \in 1..Len(<<first, second>>) :
            <<first, second>>[i] = first \/ <<first, second>>[i] = second
    OBVIOUS
  <2> QED
    BY <1>1, <2>2, <2>3, <2>4, <2>5
<1>2. CASE m.kind # "setup"
  <2> DEFINE w == OpWord(ActionOp, m.ty, m.id, m.val)
  <2>1. m \in CommandItem /\ m.ext = <<>>
    BY <1>2 DEF TidyMessage
  <2>2. decode_hwel(w).operation \notin {SetupOp, CleanOp}
    BY <2>1, CommandDecoded DEF ActionOp, SetupOp, CleanOp
  <2> HIDE DEF w
  <2>3. WordsOf(m) = <<w>>
    BY <1>2, <2>1 DEF WordsOf, CommandWords, w
  <2>4. \A i \in 1..Len(<<w>>) : <<w>>[i] = w
    OBVIOUS
  <2> QED
    BY <2>2, <2>3, <2>4
<1> QED
  BY <1>1, <1>2

LEMMA StoredIsSetup ==
    ASSUME RowsInv, NEW i \in DOMAIN stored
    PROVE  stored[i].kind = "setup" /\ stored[i] \in ConfiguredItems
<1>1. stored \in Seq(SetupItem) /\ stored[i] \in SetupItem
  BY DEF RowsInv, TypeOK
<1>2. stored \in Configs
  BY DEF RowsInv, GenuineSource
<1> QED
  BY <1>1, <1>2 DEF SetupItem, ConfiguredItems

\* A table only grows, but for clean-ups and reboots.
LEMMA FiledStays ==
    ASSUME TypeOK, NEW m, Filed(m), NEW src \in Half, NEW row \in Row,
           \/ UNCHANGED table
           \/ table' = add_packet(table, src, row)
    PROVE  Filed(m)'
<1>1. CASE UNCHANGED table
  BY <1>1 DEF Filed
<1>2. CASE table' = add_packet(table, src, row)
  <2>1. PICK s \in FiledUnder(m) \cap DOMAIN table :
            \E j \in DOMAIN table[s] : table[s][j] = ItemRow(m)
    BY DEF Filed
  <2>2. PICK j \in DOMAIN table[s] : table[s][j] = ItemRow(m)
    BY <2>1
  <2>3. table[s] \in Seq(Row)
    BY <2>1 DEF TypeOK
  <2>4. s \in DOMAIN table' /\ (table'[s] = table[s] \/ table'[s] = Append(table[s], row))
    BY <1>2, <2>1 DEF add_packet
  <2>5. j \in DOMAIN table'[s] /\ table'[s][j] = table[s][j]
    BY <2>2, <2>3, <2>4
  <2> QED
    BY <2>1, <2>2, <2>4, <2>5 DEF Filed
<1> QED
  BY <1>1, <1>2

LEMMA FiledNow ==
    ASSUME TypeOK, NEW m, NEW src \in FiledUnder(m), table' = add_packet(table, src, ItemRow(m))
    PROVE  Filed(m)'
<1>1. src \in DOMAIN table'
  BY DEF add_packet
<1>2. CASE src \in DOMAIN table
  <2>1. table[src] \in Seq(Row) /\ table'[src] = Append(table[src], ItemRow(m))
    BY <1>2 DEF TypeOK, add_packet
  <2>2. LET j == Len(table[src]) + 1
        IN  j \in DOMAIN table'[src] /\ table'[src][j] = ItemRow(m)
    BY <2>1
  <2> QED
    BY <1>1, <2>2 DEF Filed
<1>3. CASE src \notin DOMAIN table
  <2>1. table'[src] = <<ItemRow(m)>>
    BY <1>1, <1>3 DEF add_packet
  <2>2. 1 \in DOMAIN table'[src] /\ table'[src][1] = ItemRow(m)
    BY <2>1
  <2> QED
    BY <1>1, <2>2 DEF Filed
<1> QED
  BY <1>2, <1>3

\* What is dropped from the front of the stream is all that is lost on the way.
LEMMA WayDrops ==
    ASSUME RowsInv, UNCHANGED todo0, NEW n \in Nat, Drops(n), NEW m, OnItsWay(m),
           \A i \in 1..n : i \in 1..Len(WordStream) =>
               \/ WordStream[i] # OpWord(SetupOp, m.ty, m.id, m.io)
               \/ i < Len(WordStream) /\ WordStream[i + 1] # RefWord(m.src)
    PROVE  OnItsWay(m)'
<1>1. CASE \E i \in 1..Len(todo0) : todo0[i] = m
  BY <1>1 DEF OnItsWay
<1>2. CASE ~ \E i \in 1..Len(todo0) : todo0[i] = m
  <2>1. PICK i \in 1..Len(WordStream) :
            /\ WordStream[i] = OpWord(SetupOp, m.ty, m.id, m.io)
            /\ i < Len(WordStream) /\ WordStream[i + 1] = RefWord(m.src)
    BY <1>2 DEF OnItsWay
  <2>2. i \in Int /\ ~(i \in 1..n)
    BY <2>1
  <2> DEFINE k == i - n
  <2>3. /\ k \in 1..Len(WordStream') /\ k + 1 \in 1..Len(WordStream')
        /\ k + n = i /\ (k + 1) + n = i + 1 /\ k < Len(WordStream')
    BY <2>1, <2>2, WordTypes DEF Drops, RowsInv
  <2> HIDE DEF k
  <2>4. WordStream'[k] = WordStream[i] /\ WordStream'[k + 1] = WordStream[i + 1]
    BY <2>3 DEF Drops
  <2> QED
    BY <2>1, <2>3, <2>4 DEF OnItsWay
<1> QED
  BY <1>1, <1>2

LEMMA CleanDrops ==
    ASSUME RowsInv, NoCleanUp, NEW n \in Nat, Drops(n)
    PROVE  NoCleanUp'
<1>1. \A i \in 1..Len(WordStream') : i + n \in 1..Len(WordStream)
  BY WordTypes DEF Drops, RowsInv
<1> QED
  BY <1>1 DEF NoCleanUp, Drops

LEMMA RestoreFrame ==
    ASSUME RestoreInv, UNCHANGED <<stored, callbacks, todo0, table>>, WordStream' = WordStream
    PROVE  NoCleanUp' /\ Restoring'
BY DEF RestoreInv, NoCleanUp, Restoring, Upgraded, OnItsWay, Filed

LEMMA RestoreNetwork ==
    ASSUME TidyInputs, RestoreInv, Network
    PROVE  NoCleanUp' /\ Restoring'
<1>1. UNCHANGED table /\ WordStream' = WordStream /\ todo0 = <<>>
  BY DEF Network, Upgrade0, Save0, Command0, StartCallback, Idle0, core1, fifos, hw, WordStream
<1>2. NoCleanUp'
  BY <1>1 DEF RestoreInv, NoCleanUp
<1>3. CASE todo0' = stored'
  BY <1>2, <1>3 DEF Restoring, OnItsWay
<1>4. CASE Command0
  <2>1. Upgraded /\ stored' = stored
    BY <1>4 DEF Command0, StartCallback
  <2>2. \A m : OnItsWay(m) => OnItsWay(m)'
    BY <1>1 DEF OnItsWay
  <2>3. \A m : Filed(m) => Filed(m)'
    BY <1>1 DEF Filed
  <2> QED
    BY <1>2, <2>1, <2>2, <2>3 DEF RestoreInv, Restoring
<1> QED
  BY <1>3, <1>4 DEF Network, Upgrade0, Save0, StartCallback

\* A message leaves the callback and its words join the stream.
LEMMA RestoreMarshal0 ==
    ASSUME TidyInputs, RestoreInv, Marshal0
    PROVE  NoCleanUp' /\ Restoring'
<1> DEFINE m0 == Head(todo0)
           words == WordsOf(m0)
<1>1. todo0' = Tail(todo0) /\ todo0 # <<>> /\ UNCHANGED <<stored, callbacks, table>>
  BY DEF Marshal0, hw
<1>2. TidyMessage(m0) /\ words \in Seq(Word)
  BY <1>1, FirstIsTidy, TidyWords DEF RestoreInv
<1>3. /\ WordStream' \in Seq(Word)
      /\ Len(WordStream') = Len(WordStream) + Len(words)
      /\ \A i \in 1..Len(WordStream) : WordStream'[i] = WordStream[i]
      /\ \A i \in 1..Len(words) : WordStream'[i + Len(WordStream)] = words[i]
  <2>1. WordStream' = WordStream \o words /\ WordStream \in Seq(Word)
    BY StreamMarshal0, WordTypes DEF RestoreInv, RowsInv
  <2> HIDE DEF words
  <2> QED
    BY <1>2, <2>1, ConcatProperties
<1>4. \A i \in 1..Len(words) : /\ decode_hwel(words[i]).operation # CleanOp
                               /\ m0.kind # "setup" => decode_hwel(words[i]).operation # SetupOp
  BY <1>2, TidyOperations
<1>5. /\ Len(Tail(todo0)) = Len(todo0) - 1 /\ Len(todo0) \in Nat
      /\ \A i \in 1..Len(Tail(todo0)) : Tail(todo0)[i] = todo0[i + 1] /\ i + 1 \in 1..Len(todo0)
      /\ todo0[1] = m0 /\ 1 \in 1..Len(todo0)
  BY <1>1 DEF RestoreInv, RowsInv, TypeOK
<1>6. WordStream \in Seq(Word) /\ Len(WordStream) \in Nat /\ Len(words) \in Nat
  BY <1>2, WordTypes DEF RestoreInv, RowsInv
<1>7. \A i \in 1..Len(WordStream') :
          \/ i \in 1..Len(WordStream)
          \/ i - Len(WordStream) \in 1..Len(words) /\ (i - Len(WordStream)) + Len(WordStream) = i
  <2> HIDE DEF words
  <2> QED
    BY <1>3, <1>6
<1>8. NoCleanUp'
  <2> HIDE DEF words, m0
  <2> QED
    BY <1>3, <1>4, <1>7, ZenonT(30) DEF RestoreInv, NoCleanUp
<1>9. ASSUME NEW k \in DOMAIN stored, OnItsWay(stored[k]) PROVE OnItsWay(stored[k])'
  <2> DEFINE m == stored[k]
  <2>1. m.kind = "setup"
    BY StoredIsSetup DEF RestoreInv
  <2>2. UNCHANGED m
    BY <1>1
  <2> HIDE DEF m, words, m0
  <2>3. CASE \E i \in 1..Len(todo0) : i # 1 /\ todo0[i] = m
    <3>1. PICK i \in 1..Len(todo0) : i # 1 /\ todo0[i] = m
      BY <2>3
    <3>2. i - 1 \in 1..Len(Tail(todo0)) /\ (i - 1) + 1 = i
      BY <1>5, <3>1
    <3>3. todo0'[i - 1] = m /\ i - 1 \in 1..Len(todo0')
      BY <1>1, <1>5, <3>1, <3>2
    <3> QED
      BY <2>2, <3>3 DEF OnItsWay, m
  <2>4. CASE m = m0
    <3>1. words = <<OpWord(SetupOp, m.ty, m.id, m.io), RefWord(m.src)>>
      BY <2>1, <2>4 DEF words, WordsOf, SetupWords
    <3>2. /\ Len(words) = 2 /\ words[1] = OpWord(SetupOp, m.ty, m.id, m.io)
          /\ words[2] = RefWord(m.src)
      BY <3>1
    <3> DEFINE i == 1 + Len(WordStream)
    <3>3. /\ i \in 1..Len(WordStream') /\ i < Len(WordStream')
          /\ WordStream'[i] = words[1] /\ WordStream'[i + 1] = words[2]
      <4>1. 1 \in 1..Len(words) /\ 2 \in 1..Len(words) /\ i + 1 = 2 + Len(WordStream)
        BY <1>6, <3>2
      <4>2. i \in 1..Len(WordStream') /\ i < Len(WordStream')
        BY <1>3, <1>6, <3>2
      <4> QED
        BY <1>3, <4>1, <4>2
    <3> HIDE DEF i
    <3> QED
      BY <2>2, <3>2, <3>3 DEF OnItsWay, m
  <2>5. CASE \E i \in 1..Len(WordStream) :
                 /\ WordStream[i] = OpWord(SetupOp, m.ty, m.id, m.io)
                 /\ i < Len(WordStream) /\ WordStream[i + 1] = RefWord(m.src)
    <3>1. PICK i \in 1..Len(WordStream) :
                 /\ WordStream[i] = OpWord(SetupOp, m.ty, m.id, m.io)
                 /\ i < Len(WordStream) /\ WordStream[i + 1] = RefWord(m.src)
      BY <2>5
    <3>2. i + 1 \in 1..Len(WordStream) /\ i \in 1..Len(WordStream') /\ i < Len(WordStream')
      BY <1>3, <1>6, <3>1
    <3>3. WordStream'[i] = WordStream[i] /\ WordStream'[i + 1] = WordStream[i + 1]
      BY <1>3, <3>1, <3>2
    <3> QED
      BY <2>2, <3>1, <3>2, <3>3 DEF OnItsWay, m
  <2> QED
    BY <1>5, <1>9, <2>3, <2>4, <2>5 DEF OnItsWay, m
<1>10. \A m : Filed(m) => Filed(m)'
  BY <1>1 DEF Filed
<1> HIDE DEF words, m0
<1> QED
  BY <1>1, <1>8, <1>9, <1>10 DEF RestoreInv, Restoring, Upgraded

LEMMA FirstOfStream ==
    ASSUME RowsInv, pc1 # "ref", fifo01 # <<>>
    PROVE  1 \in 1..Len(WordStream) /\ WordStream[1] = Head(fifo01)
<1>1. WordStream = fifo01 \o out0
  BY WordTypes DEF WordStream, RowsInv
<1> QED
  BY <1>1, WordTypes DEF RowsInv

LEMMA RestorePop1 ==
    ASSUME TidyInputs, RestoreInv, Pop1
    PROVE  NoCleanUp' /\ Restoring'
<1> DEFINE w == Head(fifo01)
<1>1. /\ fifo01 # <<>> /\ pc1 # "ref" /\ fifo01' = Tail(fifo01)
      /\ UNCHANGED <<stored, callbacks, todo0, out0>>
  BY DEF Pop1, SetupOutput1, SetupOther1, Clean1, Action1, Ignored1, Popped, core0
<1>2. 1 \in 1..Len(WordStream) /\ WordStream[1] = w
  BY <1>1, FirstOfStream DEF RestoreInv
<1>3. CASE SetupOutput1(w)
  <2>1. pc1' = "ref" /\ op1' = w /\ UNCHANGED table
    BY <1>3 DEF SetupOutput1
  <2>2. WordStream' = WordStream
    BY <1>1, <2>1, StreamTaken DEF RestoreInv
  <2> QED
    BY <1>1, <2>1, <2>2, RestoreFrame
<1>4. CASE SetupOther1(w)
  <2>1. PICK m \in ConfiguredItems : w = OpWord(SetupOp, m.ty, m.id, m.io)
    BY <1>2, <1>4 DEF RestoreInv, RowsInv, SetupsPaired, SetupOther1
  <2>2. decode_hwel(w).control_type \in Outputs
    BY <2>1, SetupDecoded, SetupFields
  <2> QED
    BY <1>4, <2>2 DEF SetupOther1
<1>5. CASE Clean1(w)
  BY <1>2, <1>5 DEF Clean1, RestoreInv, NoCleanUp
<1>6. CASE Action1(w) \/ Ignored1(w)
  <2>1. pc1' # "ref" /\ UNCHANGED table /\ decode_hwel(w).operation # SetupOp
    BY <1>6 DEF Action1, Ignored1, ActionOp, SetupOp
  <2>2. Drops(1)
    BY <1>1, <2>1, StreamTaken DEF RestoreInv
  <2>3. ASSUME NEW k \in DOMAIN stored, OnItsWay(stored[k]) PROVE OnItsWay(stored[k])'
    <3>1. UNCHANGED stored[k]
      BY <1>1
    <3>2. WordStream[1] # OpWord(SetupOp, stored[k].ty, stored[k].id, stored[k].io)
      BY <1>2, <2>1, StoredIsSetup, SetupDecoded DEF RestoreInv
    <3>3. \A i \in 1..1 : i = 1
      OBVIOUS
    <3> DEFINE m == stored[k]
    <3>4. \A c : c = m /\ OnItsWay(c) => OnItsWay(c)'
      BY <1>1, <2>2, <3>2, <3>3, WayDrops DEF RestoreInv
    <3> QED
      BY <2>3, <3>1, <3>4
  <2>4. \A m : Filed(m) => Filed(m)'
    BY <2>1 DEF Filed
  <2> QED
    BY <1>1, <2>2, <2>3, <2>4, CleanDrops DEF RestoreInv, Restoring, Upgraded
<1> QED
  BY <1>3, <1>4, <1>5, <1>6 DEF Pop1

\* The set-up core 1 holds is filed; the others stay on their way.
LEMMA RestoreAdd ==
    ASSUME TidyInputs, RestoreInv, NEW n \in {1, 2}, Drops(n), pc1 = "ref",
           UNCHANGED <<stored, callbacks, todo0>>, NEW src \in Half,
           table' = add_packet(table, src, RowOf(op1)),
           NEW m0 \in ConfiguredItems, op1 = OpWord(SetupOp, m0.ty, m0.id, m0.io),
           1 < Len(WordStream) => WordStream[2] = RefWord(m0.src),
           src \in FiledUnder(m0),
           \* whatever has the same two words is filed in the same place
           \A m \in ConfiguredItems :
               op1 = OpWord(SetupOp, m.ty, m.id, m.io) /\ m.src = m0.src => src \in FiledUnder(m)
    PROVE  NoCleanUp' /\ Restoring'
<1>1. n \in Nat /\ NoCleanUp'
  BY CleanDrops DEF RestoreInv
<1>2. 1 \in 1..Len(WordStream) /\ WordStream[1] = op1 /\ WordStream \in Seq(Word)
  <2>1. WordStream = (<<op1>> \o fifo01) \o out0
    BY DEF WordStream
  <2>2. op1 \in Word
    BY DEF RestoreInv, RowsInv, TypeOK
  <2> QED
    BY <2>1, <2>2, WordTypes DEF RestoreInv, RowsInv
<1>3. RowOf(op1) \in Row
  BY RowOfType DEF RestoreInv, RowsInv, TypeOK
<1>4. ASSUME Upgraded, NEW k \in DOMAIN stored PROVE OnItsWay(stored[k])' \/ Filed(stored[k])'
  <2>1. UNCHANGED stored[k] /\ stored[k] \in ConfiguredItems
    BY StoredIsSetup DEF RestoreInv
  <2>2. OnItsWay(stored[k]) \/ Filed(stored[k])
    BY <1>4 DEF RestoreInv, Restoring
  <2>3. ASSUME NEW m, m = stored[k], Filed(m) PROVE Filed(m)'
    BY <1>3, <2>3, FiledStays DEF RestoreInv, RowsInv
  <2>4. ASSUME NEW m, m = stored[k], OnItsWay(m),
               op1 = OpWord(SetupOp, m.ty, m.id, m.io),
               1 < Len(WordStream), WordStream[2] = RefWord(m.src)
        PROVE  Filed(m)'
    <3>1. m \in ConfiguredItems
      BY <2>1, <2>4
    <3>2. RefWord(m.src) = RefWord(m0.src) /\ m.src = m0.src
      BY <2>4 DEF RefWord
    <3>3. src \in FiledUnder(m)
      BY <2>4, <3>1, <3>2
    <3>4. RowOf(op1) = ItemRow(m)
      BY <2>4, <3>1, SetupDecoded
    <3> QED
      BY <3>3, <3>4, FiledNow DEF RestoreInv, RowsInv
  <2>5. ASSUME NEW m, m = stored[k], OnItsWay(m),
               ~(/\ op1 = OpWord(SetupOp, m.ty, m.id, m.io)
                 /\ 1 < Len(WordStream) /\ WordStream[2] = RefWord(m.src))
        PROVE  OnItsWay(m)'
    <3>1. m \in ConfiguredItems /\ decode_hwel(OpWord(SetupOp, m.ty, m.id, m.io)).operation = SetupOp
      BY <2>1, <2>5, SetupDecoded
    <3>2. 2 \in 1..Len(WordStream) => WordStream[2] # OpWord(SetupOp, m.ty, m.id, m.io)
      <4>1. decode_hwel(RefWord(m0.src)).operation # SetupOp
        BY SetupFields, DecodeRefWord DEF TidyInputs, SetupOp
      <4> QED
        BY <3>1, <4>1
    <3>3. \A i \in 1..n : i = 1 \/ i = 2
      OBVIOUS
    <3>4. \A i \in 1..n : i \in 1..Len(WordStream) =>
              \/ WordStream[i] # OpWord(SetupOp, m.ty, m.id, m.io)
              \/ i < Len(WordStream) /\ WordStream[i + 1] # RefWord(m.src)
      <4>1. CASE op1 # OpWord(SetupOp, m.ty, m.id, m.io)
        BY <1>2, <3>2, <3>3, <4>1
      <4>2. CASE op1 = OpWord(SetupOp, m.ty, m.id, m.io) /\ 1 < Len(WordStream)
        BY <1>2, <2>5, <3>2, <3>3, <4>2
      <4>3. CASE ~(1 < Len(WordStream))
        <5>1. \E i \in 1..Len(WordStream) : decode_hwel(WordStream[i]).operation = SetupOp
          BY <1>2, SetupDecoded
        <5> QED
          BY <1>2, <4>3, SetupDecoded DEF RestoreInv, RowsInv, SetupsPaired
      <4> QED
        BY <4>1, <4>2, <4>3
    <3> QED
      BY <1>1, <2>5, <3>4, WayDrops DEF RestoreInv
  <2> QED
    BY <2>1, <2>2, <2>3, <2>4, <2>5
<1> QED
  BY <1>1, <1>4 DEF Restoring, Upgraded

LEMMA RestoreRef1 ==
    ASSUME TidyInputs, RestoreInv, Ref1
    PROVE  NoCleanUp' /\ Restoring'
<1>1. pc1 = "ref" /\ fifo01 # <<>> /\ UNCHANGED <<stored, callbacks, todo0>>
  BY DEF Ref1, AddOutput, core0
<1>2. PICK m \in ConfiguredItems :
          op1 = OpWord(SetupOp, m.ty, m.id, m.io) /\ Head(fifo01) = RefWord(m.src)
  BY <1>1, HeldIsConfigured DEF RestoreInv
<1>3. decode_hwrf(Head(fifo01)) = m.src /\ m.src \in Half
  BY <1>2, SetupFields, DecodeRefWord
<1>4. table' = add_packet(table, m.src, RowOf(op1))
  BY <1>3 DEF Ref1, AddOutput
<1>5. WordStream[2] = Head(fifo01)
  <2>1. WordStream = (<<op1>> \o fifo01) \o out0
    BY <1>1 DEF WordStream
  <2>2. op1 \in Word
    BY DEF RestoreInv, RowsInv, TypeOK
  <2> QED
    BY <1>1, <2>1, <2>2, WordTypes DEF RestoreInv, RowsInv
<1>6. \A c \in ConfiguredItems : c.src \in FiledUnder(c)
  BY DEF FiledUnder
<1>7. Drops(2)
  BY StreamRef1 DEF RestoreInv
<1> QED
  BY <1>1, <1>2, <1>3, <1>4, <1>5, <1>6, <1>7, RestoreAdd

LEMMA RestoreRefTimeout1 ==
    ASSUME TidyInputs, RestoreInv, RefTimeout1
    PROVE  NoCleanUp' /\ Restoring'
<1>1. pc1 = "ref" /\ fifo01 = <<>> /\ UNCHANGED <<stored, callbacks, todo0>>
  BY DEF RefTimeout1, AddOutput, core0
<1>2. WordStream[1] = op1 /\ 1 \in 1..Len(WordStream)
  <2>1. WordStream = (<<op1>> \o fifo01) \o out0
    BY <1>1 DEF WordStream
  <2>2. op1 \in Word
    BY DEF RestoreInv, RowsInv, TypeOK
  <2> QED
    BY <2>1, <2>2, WordTypes DEF RestoreInv, RowsInv
<1>3. PICK m \in ConfiguredItems :
          /\ op1 = OpWord(SetupOp, m.ty, m.id, m.io)
          /\ 1 < Len(WordStream) /\ WordStream[1 + 1] = RefWord(m.src)
  <2>1. decode_hwel(WordStream[1]).operation = SetupOp
    BY <1>1, <1>2 DEF RestoreInv, RowsInv, GenuineSource
  <2> QED
    BY <1>2, <2>1 DEF RestoreInv, RowsInv, SetupsPaired
<1>4. LateRef
  BY <1>1, HeldIsConfigured DEF RestoreInv, RefTimeout1
<1>5. \A c : op1 = OpWord(SetupOp, c.ty, c.id, c.io) => decode_hwrf(op1) \in FiledUnder(c)
  BY <1>4 DEF decode_hwrf, FiledUnder
<1>6. decode_hwrf(op1) \in Half
  BY DEF decode_hwrf, Word, RestoreInv, RowsInv, TypeOK
<1>7. table' = add_packet(table, decode_hwrf(op1), RowOf(op1))
  BY DEF RefTimeout1, AddOutput
<1>8. Drops(1)
  BY StreamRefTimeout1 DEF RestoreInv
<1>9. WordStream[2] = RefWord(m.src)
  BY <1>3
<1> QED
  BY <1>1, <1>3, <1>5, <1>6, <1>7, <1>8, <1>9, RestoreAdd

LEMMA RestoreStep ==
    ASSUME TidyInputs, RestoreInv, RowsInv', [Next]_vars
    PROVE  RestoreInv'
<1> SUFFICES NoCleanUp' /\ Restoring'
  BY DEF RestoreInv
<1> USE DEF RestoreInv
<1>1. CASE Network
  BY <1>1, RestoreNetwork
<1>2. CASE Core0
  <2>1. CASE Push0
    BY <2>1, StreamPush0, RestoreFrame DEF RowsInv, Push0, hw
  <2>2. CASE EndPoll0 \/ PopTag0 \/ PopTimeout0 \/ PopValue0
    <3>1. UNCHANGED <<stored, callbacks, todo0, table>> /\ WordStream' = WordStream
      BY <2>2 DEF EndPoll0, PopTag0, PopTimeout0, PopValue0, core1, fifos, hw, WordStream
    <3> QED
      BY <3>1, RestoreFrame
  <2> QED
    BY <1>2, <2>1, <2>2, RestoreMarshal0 DEF Core0
<1>3. CASE Core1
  <2>1. CASE Push1 \/ Drive1 \/ Uptime1 \/ CoreTemp1 \/ PopTimeout1 \/ EndDrive1
    <3>1. UNCHANGED <<stored, callbacks, todo0, table>> /\ WordStream' = WordStream
      BY <2>1 DEF Push1, Drive1, Uptime1, CoreTemp1, PopTimeout1, EndDrive1, core0, fifos, hw,
                  WordStream
    <3> QED
      BY <3>1, RestoreFrame
  <2> QED
    BY <1>3, <2>1, RestorePop1, RestoreRef1, RestoreRefTimeout1 DEF Core1
<1>4. CASE Reboot
  <2>1. WordStream' = <<>> /\ callbacks' = 0
    BY <1>4 DEF Reboot, WordStream
  <2> QED
    BY <2>1 DEF NoCleanUp, Restoring, Upgraded
<1>5. CASE UNCHANGED vars
  BY <1>5, RestoreFrame DEF vars, core0, core1, fifos, hw, WordStream
<1> QED
  BY <1>1, <1>2, <1>3, <1>4, <1>5 DEF Next

LEMMA RestoreInvariant == TidyInputs /\ Spec => []RestoreInv
<1> SUFFICES ASSUME TidyInputs PROVE Spec => []RestoreInv
  OBVIOUS
<1>1. Init => RestoreInv
  <2>1. Init => WordStream = <<>> /\ callbacks = 0
    BY DEF Init, Booted, WordStream
  <2> QED
    BY <2>1, RowsInit DEF RestoreInv, NoCleanUp, Restoring, Upgraded
<1>2. RestoreInv /\ RowsInv' /\ [Next]_vars => RestoreInv'
  BY RestoreStep
<1> QED
  BY <1>1, <1>2, RowsInvariant, PTL DEF Spec

\* With one-byte commands and source ids under 16384, the first browser to connect
\* after a power cut brings every stored element back: from then on, once nothing is
\* on its way, the table has a row for each of them (websockets.c:211,
\* config.c:693-717).
THEOREM TableRestored == TidyInputs /\ Spec => []RestoredWhole
<1>1. RestoreInv => RestoredWhole
  <2> SUFFICES ASSUME RestoreInv, Upgraded, Settled, NEW i \in DOMAIN stored
               PROVE  Filed(stored[i])
    BY DEF RestoredWhole, StoredFiled, Filed
  <2>1. WordStream = <<>> /\ todo0 = <<>>
    BY DEF Settled, WordStream
  <2>2. ~OnItsWay(stored[i])
    BY <2>1 DEF OnItsWay
  <2> QED
    BY <2>2 DEF RestoreInv, Restoring
<1> QED
  BY <1>1, RestoreInvariant, PTL

-----------------------------------------------------------------------------
(***************************************************************************)
(* DualCore implements Panel.  Flushed folds Absorb over every word in     *)
(* flight and Panel folds Obey over the messages of a packet, so a fold is *)
(* first turned into a sequence of intermediate values (Trace, ObeyTrace). *)
(* Then, step by step: whatever moves a word along leaves InFlight and     *)
(* Progress alone; taking a word in moves it from the one to the other     *)
(* (TakesWord); and a callback, which starts only between two messages     *)
(* (StreamWhole), adds words that come to what Panel makes of its messages *)
(* (CallbackAbsorbed).                                                     *)
(***************************************************************************)

(* Folds over sequences, by what each step makes of the one before. *)

LEMMA HighestExists ==
    ASSUME NEW n \in Nat, NEW T \in SUBSET (1..n), T # {}
    PROVE  \E x \in T : \A y \in T : x >= y
<1> DEFINE S == {k \in Nat : \A U \in SUBSET (1..k) : U # {} => \E x \in U : \A y \in U : x >= y}
<1>1. 0 \in S
  <2>1. 1..0 = {}
    OBVIOUS
  <2> QED
    BY <2>1
<1>2. ASSUME NEW k \in S PROVE k + 1 \in S
  <2> SUFFICES ASSUME NEW U \in SUBSET (1..k + 1), U # {} PROVE \E x \in U : \A y \in U : x >= y
    OBVIOUS
  <2>1. CASE k + 1 \in U
    <3>1. \A y \in U : k + 1 >= y
      OBVIOUS
    <3> QED
      BY <2>1, <3>1
  <2>2. CASE k + 1 \notin U
    <3>1. U \in SUBSET (1..k)
      BY <2>2
    <3> QED
      BY <3>1
  <2> QED
    BY <2>1, <2>2
<1>3. S = Nat
  <2>1. S \in SUBSET Nat
    OBVIOUS
  <2> HIDE DEF S
  <2> QED
    BY <1>1, <1>2, <2>1, SetInduction
<1>4. n \in S
  BY <1>3
<1> QED
  BY <1>4

LEMMA Highest ==
    ASSUME NEW n \in Nat, NEW T \in SUBSET (1..n), T # {}
    PROVE  Max(T) \in T /\ Max(T) \in 1..n /\ \A y \in T : y <= Max(T)
<1>1. \E x \in T : \A y \in T : x >= y
  BY HighestExists
<1>2. Max(T) \in T /\ \A y \in T : Max(T) >= y
  BY <1>1, Zenon DEF Max
<1> QED
  BY <1>2

LEMMA HighestOf ==
    ASSUME NEW k \in Nat, k # 0
    PROVE  Max(1..k) = k /\ (1..k) \ {Max(1..k)} = 1..(k - 1)
<1>1. Max(1..k) \in 1..k /\ \A y \in 1..k : y <= Max(1..k)
  <2>1. 1..k \in SUBSET (1..k) /\ 1..k # {}
    <3>1. 1 \in 1..k
      OBVIOUS
    <3> QED
      BY <3>1
  <2> QED
    BY <2>1, Highest
<1>2. Max(1..k) = k
  BY <1>1
<1>3. (1..k) \ {k} = 1..(k - 1)
  OBVIOUS
<1> QED
  BY <1>2, <1>3

\* A fold takes the highest index off, down to none.
FoldsDown(f, n, a, step) ==
    \A s \in SUBSET (1..n) : f[s] = IF s = {} THEN a ELSE step[<<s, f[s \ {Max(s)}]>>]

LEMMA FoldDefined ==
    ASSUME NEW n \in Nat, NEW X, NEW a \in X, NEW step \in [(SUBSET (1..n)) \X X -> X]
    PROVE  \E f \in [SUBSET (1..n) -> X] : FoldsDown(f, n, a, step)
<1> DEFINE D == SUBSET (1..n)
           stop == {{}}
           base == [s \in D |-> a]
           next == [s \in D \ stop |-> s \ {Max(s)}]
           rank == [s \in D |-> IF s = {} THEN 0 ELSE Max(s)]
<1>1. \A s \in D : s # {} => Max(s) \in 1..n
  BY Highest
<1>2. rank \in [D -> 0..n] /\ stop \subseteq D
  BY <1>1
<1>3. next \in [D \ stop -> D] /\ base \in [D -> X] /\ X # {}
  OBVIOUS
<1>4. ASSUME NEW s \in D \ stop PROVE rank[next[s]] < rank[s]
  <2> DEFINE r == s \ {Max(s)}
  <2>1. Max(s) \in s /\ Max(s) \in 1..n /\ \A y \in s : y <= Max(s)
    BY Highest
  <2>2. next[s] = r /\ r \in D /\ rank[s] = Max(s)
    OBVIOUS
  <2>3. CASE r = {}
    BY <2>1, <2>2, <2>3
  <2>4. CASE r # {}
    <3>1. Max(r) \in r
      BY <2>2, <2>4, Highest
    <3>2. Max(r) \in s /\ Max(r) # Max(s) /\ Max(r) \in 1..n
      BY <3>1
    <3>3. rank[r] = Max(r)
      BY <2>2, <2>4
    <3>4. Max(r) <= Max(s) /\ rank[next[s]] = rank[r]
      BY <2>1, <2>2, <3>2
    <3> HIDE DEF r, D, rank, next
    <3> QED
      BY <2>1, <2>2, <3>2, <3>3, <3>4
  <2> QED
    BY <2>3, <2>4
<1>5. step \in [D \X X -> X]
  OBVIOUS
<1>6. WellRanked(D, X, stop, base, next, step, rank, n)
  <2> HIDE DEF D, stop, base, next, rank
  <2> QED
    BY <1>2, <1>3, <1>4, <1>5 DEF WellRanked, Ranked
<1>7. PICK f \in [D -> X] : Solves(f, D, stop, base, next, step)
  <2> HIDE DEF D, stop, base, next, rank
  <2> QED
    BY <1>6, RecursionDefines
<1>8. ASSUME NEW s \in D PROVE f[s] = IF s = {} THEN a ELSE step[<<s, f[s \ {Max(s)}]>>]
  <2>1. f[s] = IF s \in stop THEN base[s] ELSE step[<<s, f[next[s]]>>]
    <3> HIDE DEF D, stop, base, next, rank
    <3> QED
      BY <1>7 DEF Solves
  <2>2. base[s] = a /\ (s \notin stop => next[s] = s \ {Max(s)}) /\ (s \in stop <=> s = {})
    OBVIOUS
  <2> HIDE DEF D, stop, base, next, rank
  <2> QED
    BY <2>1, <2>2
<1> QED
  BY <1>7, <1>8 DEF FoldsDown

-----------------------------------------------------------------------------
(* The device record, and what a word makes of it. *)

Devices ==
    {d \in [wired : SUBSET (Half \X Nat \X Row), outs : SUBSET Pins, high : SUBSET Pins,
            led : BOOLEAN] :
        \A s \in Half : IsFiniteSet(Dev!Listeners(d, s))}
Progresses == Devices \X Word

LEMMA SameCount == ASSUME NEW S PROVE Dev!Cardinality(S) = Cardinality(S)
  BY DEF Dev!Cardinality, Cardinality

LEMMA WireType ==
    ASSUME NEW d \in Devices, NEW src \in Half, NEW row \in Row
    PROVE  Dev!Wire(d, src, row) \in Devices
<1> DEFINE x == <<src, Cardinality(Dev!Listeners(d, src)) + 1, row>>
           e == Dev!Wire(d, src, row)
<1>1. /\ d \in [wired : SUBSET (Half \X Nat \X Row), outs : SUBSET Pins,
                high : SUBSET Pins, led : BOOLEAN]
      /\ \A s \in Half : IsFiniteSet(Dev!Listeners(d, s))
  BY DEF Devices
<1>2. Dev!PinOf(row) \subseteq Pins
  BY DEF Dev!PinOf
<1>3. x \in Half \X Nat \X Row
  BY <1>1, FS_CardinalityType
<1>4. e = [wired |-> d.wired \cup {x}, outs |-> d.outs \cup Dev!PinOf(row),
           high |-> d.high \ Dev!PinOf(row), led |-> d.led]
  BY SameCount DEF Dev!Wire
<1> HIDE DEF x, e
<1>5. e \in [wired : SUBSET (Half \X Nat \X Row), outs : SUBSET Pins, high : SUBSET Pins,
             led : BOOLEAN]
  BY <1>1, <1>2, <1>3, <1>4
<1>6. ASSUME NEW s \in Half PROVE IsFiniteSet(Dev!Listeners(e, s))
  <2>1. Dev!Listeners(e, s) \in SUBSET (Dev!Listeners(d, s) \cup {x})
    BY <1>4 DEF Dev!Listeners
  <2>2. IsFiniteSet(Dev!Listeners(d, s) \cup {x})
    BY <1>1, FS_AddElement
  <2> QED
    BY <2>1, <2>2, FS_Subset
<1> QED
  BY <1>5, <1>6 DEF Devices, e

LEMMA SwitchType ==
    ASSUME NEW d \in Devices, NEW rows, NEW val
    PROVE  Dev!Switch(d, rows, val) \in Devices
<1> DEFINE on == UNION {Dev!PinOf(r) : r \in rows}
           e == Dev!Switch(d, rows, val)
<1>1. /\ d \in [wired : SUBSET (Half \X Nat \X Row), outs : SUBSET Pins,
                high : SUBSET Pins, led : BOOLEAN]
      /\ \A s \in Half : IsFiniteSet(Dev!Listeners(d, s))
  BY DEF Devices
<1>2. on \subseteq Pins
  BY DEF Dev!PinOf
<1>3. e = [wired |-> d.wired, outs |-> d.outs,
           high |-> IF val # 0 THEN d.high \cup on ELSE d.high \ on,
           led |-> IF \E r \in rows : r.ty = LED THEN val # 0 ELSE d.led]
  BY DEF Dev!Switch
<1> HIDE DEF on, e
<1>4. /\ (IF val # 0 THEN d.high \cup on ELSE d.high \ on) \in SUBSET Pins
      /\ (IF \E r \in rows : r.ty = LED THEN val # 0 ELSE d.led) \in BOOLEAN
  BY <1>1, <1>2
<1>5. e \in [wired : SUBSET (Half \X Nat \X Row), outs : SUBSET Pins, high : SUBSET Pins,
             led : BOOLEAN]
  BY <1>1, <1>3, <1>4
<1>6. \A s \in Half : Dev!Listeners(e, s) = Dev!Listeners(d, s)
  BY <1>3 DEF Dev!Listeners
<1> QED
  BY <1>1, <1>5, <1>6 DEF Devices, e

LEMMA AbsorbType == \A at \in Progresses, w \in Word : Absorb(at, w) \in Progresses
<1> TAKE at \in Progresses, w \in Word
<1> DEFINE d == at[1]
           first == at[2]
           op == decode_hwel(w)
           on == {t[3] : t \in Dev!Listeners(d, op.id)}
<1>1. d \in Devices /\ first \in Word /\ at = <<d, first>> /\ NoWord \in Word
  BY NoWordType DEF Progresses
<1>2. decode_hwrf(w) \in Half /\ RowOf(first) \in Row
  BY <1>1, DecodeType, RowOfType
<1>3. Dev!Wire(d, decode_hwrf(w), RowOf(first)) \in Devices
  BY <1>1, <1>2, WireType
<1>4. Dev!Switch(d, on, op.value) \in Devices
  BY <1>1, SwitchType
<1>5. Absorb(at, w) \in {<<Dev!Wire(d, decode_hwrf(w), RowOf(first)), NoWord>>, <<d, w>>,
                         <<Dev!Switch(d, on, op.value), NoWord>>, at}
  BY DEF Absorb
<1> HIDE DEF d, first, op, on
<1> QED
  BY <1>1, <1>3, <1>4, <1>5 DEF Progresses

-----------------------------------------------------------------------------
(* The two folds, of words and of messages. *)

AbsorbAll(a, ws) == FoldLeft(LAMBDA ats, w : {Absorb(at, w) : at \in ats}, {a}, ws)

\* What a fold makes of each prefix.
WordsFolded(g, a, ws) ==
    /\ g[{}] = {a} /\ AbsorbAll(a, ws) = g[1..Len(ws)]
    /\ \A k \in 1..Len(ws) : g[1..k] = {Absorb(at, ws[k]) : at \in g[1..(k - 1)]}

LEMMA AbsorbFolds ==
    ASSUME NEW a \in Progresses, NEW ws \in Seq(Word)
    PROVE  \E g : WordsFolded(g, a, ws)
<1> DEFINE n == Len(ws)
           D == SUBSET (1..n)
           X == SUBSET Progresses
           All(v, w) == {Absorb(at, w) : at \in v}
           Body(g) == [s \in SUBSET DOMAIN ws |->
                          IF s = {} THEN {a} ELSE All(g[s \ {Max(s)}], ws[Max(s)])]
           iter == CHOOSE g : g = Body(g)
           step == [q \in D \X X |-> IF q[1] = {} THEN q[2] ELSE All(q[2], ws[Max(q[1])])]
<1>1. AbsorbAll(a, ws) = iter[DOMAIN ws]
  BY DEF AbsorbAll, FoldLeft, MapThenFoldSet
<1>2. n \in Nat /\ DOMAIN ws = 1..n /\ {a} \in X /\ {} \in D
  OBVIOUS
<1>3. step \in [D \X X -> X]
  <2>1. ASSUME NEW s \in D, NEW v \in X, s # {} PROVE All(v, ws[Max(s)]) \in X
    <3>1. Max(s) \in 1..n
      BY <1>2, <2>1, Highest
    <3>2. ws[Max(s)] \in Word
      BY <3>1
    <3> QED
      BY <3>2, AbsorbType
  <2> HIDE DEF D, X, All
  <2>2. \A q \in D \X X : q[1] \in D /\ q[2] \in X
    OBVIOUS
  <2> QED
    BY <2>1, <2>2
<1>13. PICK f \in [D -> X] : FoldsDown(f, n, {a}, step)
  <2> HIDE DEF n, X, step
  <2> QED
    BY <1>2, <1>3, FoldDefined
<1>4. \A s \in D : f[s] = IF s = {} THEN {a} ELSE step[<<s, f[s \ {Max(s)}]>>]
  <2> HIDE DEF X, step
  <2> QED
    BY <1>13 DEF FoldsDown
<1>5. f = Body(f)
  <2>1. ASSUME NEW s \in D PROVE f[s] = IF s = {} THEN {a} ELSE All(f[s \ {Max(s)}], ws[Max(s)])
    <3>1. CASE s = {}
      <4> HIDE DEF All, D, X, step
      <4> QED
        BY <1>4, <3>1
    <3>2. CASE s # {}
      <4>1. s \ {Max(s)} \in D
        OBVIOUS
      <4>2. f[s \ {Max(s)}] \in X
        <5> HIDE DEF D, X
        <5> QED
          BY <4>1
      <4>3. step[<<s, f[s \ {Max(s)}]>>] = All(f[s \ {Max(s)}], ws[Max(s)])
        <5>1. \A v \in X : step[<<s, v>>] = All(v, ws[Max(s)])
          <6> HIDE DEF D, X, All
          <6> QED
            BY <3>2
        <5> HIDE DEF D, X, All, step
        <5> QED
          BY <4>2, <5>1
      <4> HIDE DEF All, D, X, step
      <4> QED
        BY <1>4, <3>2, <4>3
    <3> QED
      BY <3>1, <3>2
  <2> HIDE DEF All, X
  <2> QED
    BY <1>2, <2>1
<1>6. iter = Body(iter)
  <2> HIDE DEF Body
  <2> QED
    BY <1>5
<1> HIDE DEF iter
<1>7. \A s \in D : iter[s] = IF s = {} THEN {a} ELSE All(iter[s \ {Max(s)}], ws[Max(s)])
  <2>1. \A s \in D : Body(iter)[s] = IF s = {} THEN {a} ELSE All(iter[s \ {Max(s)}], ws[Max(s)])
    <3> HIDE DEF All
    <3> QED
      BY <1>2
  <2> HIDE DEF Body, All
  <2>2. \A h : h = Body(iter) => \A s \in D : h[s] = Body(iter)[s]
    OBVIOUS
  <2> QED
    BY <1>6, <2>1, <2>2, Zenon
<1>8. ASSUME NEW k \in 1..n PROVE iter[1..k] = All(iter[1..(k - 1)], ws[k])
  <2>1. 1..k \in D /\ 1..k # {} /\ k \in Nat /\ k # 0
    <3>1. k \in 1..k
      OBVIOUS
    <3> QED
      BY <3>1
  <2>2. Max(1..k) = k /\ (1..k) \ {Max(1..k)} = 1..(k - 1)
    BY <2>1, HighestOf
  <2> HIDE DEF All, D
  <2>3. iter[1..k] = All(iter[(1..k) \ {Max(1..k)}], ws[Max(1..k)])
    BY <1>7, <2>1
  <2> QED
    BY <2>2, <2>3, Zenon
<1>9. iter[{}] = {a}
  <2> HIDE DEF All, D
  <2> QED
    BY <1>2, <1>7
<1>10. AbsorbAll(a, ws) = iter[1..n]
  BY <1>1, <1>2, Zenon
<1> HIDE DEF All
<1>11. \A k \in 1..Len(ws) : iter[1..k] = {Absorb(at, ws[k]) : at \in iter[1..(k - 1)]}
  BY <1>8 DEF All
<1>12. WordsFolded(iter, a, ws)
  BY <1>9, <1>10, <1>11 DEF WordsFolded
<1> QED
  BY <1>12

\* The same, place by place.
Trace(t, a, ws) == t[0] = a /\ \A k \in 1..Len(ws) : t[k] = Absorb(t[k - 1], ws[k])

LEMMA TraceEnds ==
    ASSUME NEW a \in Progresses, NEW ws \in Seq(Word), NEW t, Trace(t, a, ws)
    PROVE  AbsorbAll(a, ws) = {t[Len(ws)]}
<1> DEFINE n == Len(ws)
<1>1. PICK g : WordsFolded(g, a, ws)
  BY AbsorbFolds
<1> DEFINE S == {k \in Nat : k <= n => g[1..k] = {t[k]}}
<1>2. 0 \in S
  <2>1. 1..0 = {}
    OBVIOUS
  <2> QED
    BY <1>1, <2>1 DEF WordsFolded, Trace
<1>3. ASSUME NEW k \in S PROVE k + 1 \in S
  <2> SUFFICES ASSUME k + 1 <= n PROVE g[1..(k + 1)] = {t[k + 1]}
    OBVIOUS
  <2>1. k \in Nat /\ k + 1 \in 1..n /\ (k + 1) - 1 = k /\ g[1..k] = {t[k]}
    OBVIOUS
  <2>2. g[1..(k + 1)] = {Absorb(at, ws[k + 1]) : at \in {t[k]}}
    BY <1>1, <2>1 DEF WordsFolded
  <2>3. t[k + 1] = Absorb(t[k], ws[k + 1])
    BY <2>1 DEF Trace
  <2> QED
    BY <2>2, <2>3
<1>4. S = Nat
  <2>1. S \in SUBSET Nat
    OBVIOUS
  <2> HIDE DEF S
  <2> QED
    BY <1>2, <1>3, <2>1, SetInduction
<1>5. n \in S /\ n <= n
  BY <1>4
<1> QED
  BY <1>1, <1>5 DEF WordsFolded

LEMMA TraceExists ==
    ASSUME NEW a \in Progresses, NEW ws \in Seq(Word)
    PROVE  \E t \in [0..Len(ws) -> Progresses] : Trace(t, a, ws)
<1> DEFINE n == Len(ws)
           D == 0..n
           X == Progresses
           base == [k \in D |-> a]
           next == [k \in D \ {0} |-> k - 1]
           rank == [k \in D |-> k]
           step == [q \in D \X X |-> IF q[1] = 0 THEN q[2] ELSE Absorb(q[2], ws[q[1]])]
<1>1. /\ rank \in [D -> 0..n] /\ {0} \subseteq D /\ next \in [D \ {0} -> D] /\ n \in Nat
      /\ \A k \in D \ {0} : rank[next[k]] < rank[k]
  OBVIOUS
<1>2. base \in [D -> X] /\ X # {}
  OBVIOUS
<1>3. step \in [D \X X -> X]
  <2>1. ASSUME NEW k \in D, NEW x \in X, k # 0 PROVE Absorb(x, ws[k]) \in X
    BY <2>1, AbsorbType
  <2> HIDE DEF X, D
  <2>2. \A q \in D \X X : q[1] \in D /\ q[2] \in X
    OBVIOUS
  <2> QED
    BY <2>1, <2>2
<1>4. WellRanked(D, X, {0}, base, next, step, rank, n)
  <2> HIDE DEF D, X, base, next, step, rank, n
  <2> QED
    BY <1>1, <1>2, <1>3 DEF WellRanked, Ranked
<1>5. PICK t \in [D -> X] : Solves(t, D, {0}, base, next, step)
  <2> HIDE DEF D, X, base, next, step, rank, n
  <2> QED
    BY <1>4, RecursionDefines
<1>6. t[0] = a
  <2>1. 0 \in D /\ base[0] = a
    OBVIOUS
  <2> HIDE DEF D, X, base, next, step
  <2> QED
    BY <1>5, <2>1 DEF Solves
<1>7. ASSUME NEW k \in 1..n PROVE t[k] = Absorb(t[k - 1], ws[k])
  <2>1. k \in D /\ k \notin {0} /\ next[k] = k - 1 /\ k - 1 \in D
    OBVIOUS
  <2>2. t[k - 1] \in X
    <3> HIDE DEF X, D
    <3> QED
      BY <2>1
  <2>3. step[<<k, t[k - 1]>>] = Absorb(t[k - 1], ws[k])
    <3>1. \A x \in X : step[<<k, x>>] = Absorb(x, ws[k])
      <4> HIDE DEF X, D
      <4> QED
        BY <2>1
    <3> HIDE DEF X, D, step
    <3> QED
      BY <2>2, <3>1
  <2> HIDE DEF D, X, base, next, step
  <2> QED
    BY <1>5, <2>1, <2>3 DEF Solves
<1> QED
  BY <1>5, <1>6, <1>7 DEF Trace

-----------------------------------------------------------------------------
(* What is in flight, taken in word after word. *)

Absorbed(a, ws, b) == AbsorbAll(a, ws) = {b}

LEMMA AbsorbedTotal ==
    ASSUME NEW a \in Progresses, NEW ws \in Seq(Word)
    PROVE  \E b \in Progresses : Absorbed(a, ws, b)
<1>1. PICK t \in [0..Len(ws) -> Progresses] : Trace(t, a, ws)
  BY TraceExists
<1>2. Absorbed(a, ws, t[Len(ws)])
  BY <1>1, TraceEnds DEF Absorbed
<1>3. t[Len(ws)] \in Progresses
  <2>1. Len(ws) \in 0..Len(ws)
    OBVIOUS
  <2> QED
    BY <2>1
<1> QED
  BY <1>2, <1>3

LEMMA AbsorbedNone == ASSUME NEW a \in Progresses PROVE Absorbed(a, <<>>, a)
<1> DEFINE t == [k \in 0..0 |-> a]
<1>1. Trace(t, a, <<>>) /\ t[Len(<<>>)] = a /\ <<>> \in Seq(Word)
  BY DEF Trace
<1> HIDE DEF t
<1> QED
  BY <1>1, TraceEnds DEF Absorbed

LEMMA AbsorbedOne ==
    ASSUME NEW a \in Progresses, NEW w \in Word
    PROVE  Absorbed(a, <<w>>, Absorb(a, w))
<1> DEFINE t == [k \in 0..1 |-> IF k = 0 THEN a ELSE Absorb(a, w)]
           ws == <<w>>
<1>1. Len(ws) = 1 /\ ws \in Seq(Word) /\ ws[1] = w
  OBVIOUS
<1>2. t[0] = a /\ t[1] = Absorb(a, w)
  OBVIOUS
<1> HIDE DEF t, ws
<1>3. Trace(t, a, ws)
  <2> SUFFICES ASSUME NEW k \in 1..Len(ws) PROVE t[k] = Absorb(t[k - 1], ws[k])
    BY <1>2 DEF Trace
  <2>1. k = 1 /\ k - 1 = 0
    BY <1>1
  <2> QED
    BY <1>1, <1>2, <2>1
<1>4. Absorbed(a, ws, t[1])
  BY <1>1, <1>3, TraceEnds DEF Absorbed
<1> QED
  BY <1>2, <1>4 DEF ws

LEMMA AbsorbedJoin ==
    ASSUME NEW a \in Progresses, NEW ws \in Seq(Word), NEW b \in Progresses, Absorbed(a, ws, b),
           NEW vs \in Seq(Word), NEW c, Absorbed(b, vs, c)
    PROVE  Absorbed(a, ws \o vs, c)
<1> DEFINE n == Len(ws)
           m == Len(vs)
           us == ws \o vs
<1>1. PICK t \in [0..n -> Progresses] : Trace(t, a, ws)
  BY TraceExists
<1>2. PICK s \in [0..m -> Progresses] : Trace(s, b, vs)
  BY TraceExists
<1>3. t[n] = b /\ s[m] = c
  BY <1>1, <1>2, TraceEnds DEF Absorbed
<1>4. /\ us \in Seq(Word) /\ Len(us) = n + m /\ n \in Nat /\ m \in Nat
      /\ \A i \in 1..n : us[i] = ws[i]
      /\ \A i \in 1..m : us[n + i] = vs[i]
  OBVIOUS
<1> DEFINE r == [k \in 0..(n + m) |-> IF k <= n THEN t[k] ELSE s[k - n]]
<1>5. /\ \A k \in 0..n : r[k] = t[k]
      /\ \A k \in 0..m : r[n + k] = s[k]
  <2>1. ASSUME NEW k \in 0..n PROVE r[k] = t[k]
    BY <1>4
  <2>2. ASSUME NEW k \in 0..m PROVE r[n + k] = s[k]
    <3>1. n + k \in 0..(n + m) /\ (n + k) - n = k /\ n + 0 = n /\ k \in Nat
      BY <1>4
    <3>2. CASE k = 0
      BY <1>2, <1>3, <1>4, <3>1, <3>2 DEF Trace
    <3>3. CASE k # 0
      <4>1. ~(n + k <= n)
        BY <1>4, <3>1, <3>3
      <4> QED
        BY <3>1, <4>1
    <3> QED
      BY <3>2, <3>3
  <2> QED
    BY <2>1, <2>2
<1> HIDE DEF n, m, us, r
<1>6. r[0] = a
  BY <1>1, <1>4, <1>5 DEF Trace
<1>7. ASSUME NEW k \in 1..Len(us) PROVE r[k] = Absorb(r[k - 1], us[k])
  <2>1. CASE k <= n
    <3>1. k \in 1..n /\ k \in 0..n /\ k - 1 \in 0..n
      BY <1>4, <2>1
    <3>2. t[k] = Absorb(t[k - 1], ws[k])
      BY <1>1, <3>1 DEF Trace, n
    <3> QED
      BY <1>4, <1>5, <3>1, <3>2
  <2>2. CASE k > n
    <3> DEFINE j == k - n
    <3>1. j \in 1..m /\ j \in 0..m /\ j - 1 \in 0..m /\ k = n + j /\ k - 1 = n + (j - 1)
      BY <1>4, <2>2
    <3> HIDE DEF j
    <3>2. s[j] = Absorb(s[j - 1], vs[j])
      BY <1>2, <3>1 DEF Trace, m
    <3>3. r[n + j] = s[j] /\ r[n + (j - 1)] = s[j - 1] /\ us[n + j] = vs[j]
      BY <1>4, <1>5, <3>1
    <3> QED
      BY <3>1, <3>2, <3>3
  <2> QED
    BY <1>4, <2>1, <2>2
<1>8. Trace(r, a, us)
  BY <1>6, <1>7 DEF Trace
<1>9. AbsorbAll(a, us) = {r[n + m]}
  BY <1>4, <1>8, TraceEnds
<1>10. r[n + m] = c
  BY <1>3, <1>4, <1>5
<1> QED
  BY <1>9, <1>10 DEF Absorbed, us

LEMMA AbsorbedFirst ==
    ASSUME NEW a \in Progresses, NEW w \in Word, NEW ws \in Seq(Word), NEW b,
           Absorbed(Absorb(a, w), ws, b)
    PROVE  Absorbed(a, <<w>> \o ws, b)
<1>1. Absorb(a, w) \in Progresses /\ <<w>> \in Seq(Word)
  BY AbsorbType
<1> QED
  BY <1>1, AbsorbedOne, AbsorbedJoin

LEMMA FlushedIs ==
    ASSUME NEW b, Absorbed(Progress, InFlight, b)
    PROVE  Flushed = b[1]
<1>1. Flushed = CHOOSE d \in {at[1] : at \in AbsorbAll(Progress, InFlight)} : TRUE
  BY DEF Flushed, AbsorbAll
<1>2. {at[1] : at \in AbsorbAll(Progress, InFlight)} = {b[1]}
  BY DEF Absorbed
<1> QED
  BY <1>1, <1>2

-----------------------------------------------------------------------------
(* The words of messages, one message after the other. *)

Chain(c, ss) == c[0] = <<>> /\ \A k \in 1..Len(ss) : c[k] = c[k - 1] \o ss[k]

LEMMA ChainExists ==
    ASSUME NEW ss \in Seq(Seq(Word))
    PROVE  \E c \in [0..Len(ss) -> Seq(Word)] : Chain(c, ss)
<1> DEFINE n == Len(ss)
           D == 0..n
           X == Seq(Word)
           base == [k \in D |-> <<>>]
           next == [k \in D \ {0} |-> k - 1]
           rank == [k \in D |-> k]
           step == [q \in D \X X |-> IF q[1] = 0 THEN q[2] ELSE q[2] \o ss[q[1]]]
<1>1. /\ rank \in [D -> 0..n] /\ {0} \subseteq D /\ next \in [D \ {0} -> D] /\ n \in Nat
      /\ \A k \in D \ {0} : rank[next[k]] < rank[k]
  OBVIOUS
<1>2. base \in [D -> X] /\ X # {}
  <2>1. <<>> \in X
    OBVIOUS
  <2> HIDE DEF D, X
  <2> QED
    BY <2>1
<1>3. step \in [D \X X -> X]
  <2>1. ASSUME NEW k \in D, NEW x \in X, k # 0 PROVE x \o ss[k] \in X
    <3>1. ss[k] \in Seq(Word)
      BY <2>1
    <3> QED
      BY <3>1, ConcatProperties
  <2> HIDE DEF X, D
  <2>2. \A q \in D \X X : q[1] \in D /\ q[2] \in X
    OBVIOUS
  <2> QED
    BY <2>1, <2>2
<1>4. WellRanked(D, X, {0}, base, next, step, rank, n)
  <2> HIDE DEF D, X, base, next, step, rank, n
  <2> QED
    BY <1>1, <1>2, <1>3 DEF WellRanked, Ranked
<1>5. PICK c \in [D -> X] : Solves(c, D, {0}, base, next, step)
  <2> HIDE DEF D, X, base, next, step, rank, n
  <2> QED
    BY <1>4, RecursionDefines
<1>6. c[0] = <<>>
  <2>1. 0 \in D /\ base[0] = <<>>
    OBVIOUS
  <2> HIDE DEF D, X, base, next, step
  <2> QED
    BY <1>5, <2>1 DEF Solves
<1>7. ASSUME NEW k \in 1..n PROVE c[k] = c[k - 1] \o ss[k]
  <2>1. k \in D /\ k \notin {0} /\ next[k] = k - 1 /\ k - 1 \in D
    OBVIOUS
  <2>2. c[k - 1] \in X
    <3> HIDE DEF X, D
    <3> QED
      BY <2>1
  <2>3. step[<<k, c[k - 1]>>] = c[k - 1] \o ss[k]
    <3>1. \A x \in X : step[<<k, x>>] = x \o ss[k]
      <4> HIDE DEF X, D
      <4> QED
        BY <2>1
    <3> HIDE DEF X, D, step
    <3> QED
      BY <2>2, <3>1
  <2> HIDE DEF D, X, base, next, step
  <2> QED
    BY <1>5, <2>1, <2>3 DEF Solves
<1> QED
  BY <1>5, <1>6, <1>7 DEF Chain

LEMMA FlattenIs ==
    ASSUME NEW ss \in Seq(Seq(Word)), NEW c \in [0..Len(ss) -> Seq(Word)], Chain(c, ss)
    PROVE  FlattenSeq(ss) = c[Len(ss)]
<1> DEFINE n == Len(ss)
           Body(g) == [i \in 1..Len(ss) |-> IF i = 1 THEN ss[i] ELSE g[i - 1] \o ss[i]]
           flatten == CHOOSE g : g = Body(g)
           f == [i \in 1..n |-> c[i]]
<1>1. CASE n = 0
  BY <1>1 DEF FlattenSeq, Chain
<1>2. CASE n # 0
  <2>1. FlattenSeq(ss) = flatten[n]
    BY <1>2 DEF FlattenSeq
  <2>2. n \in Nat /\ 1 <= n
    BY <1>2
  <2>3. c[1] = ss[1]
    <3>1. 1 \in 1..n /\ 1 - 1 = 0 /\ ss[1] \in Seq(Word)
      BY <2>2
    <3>2. c[1] = <<>> \o ss[1]
      BY <3>1 DEF Chain
    <3> QED
      BY <3>1, <3>2, ConcatSimplifications
  <2>4. f = Body(f)
    <3>1. ASSUME NEW i \in 1..n PROVE c[i] = IF i = 1 THEN ss[i] ELSE f[i - 1] \o ss[i]
      <4>1. CASE i = 1
        BY <2>3, <4>1
      <4>2. CASE i # 1
        <5>1. i - 1 \in 1..n
          BY <4>2
        <5>2. f[i - 1] = c[i - 1]
          BY <5>1
        <5> HIDE DEF f
        <5> QED
          BY <4>2, <5>2 DEF Chain
      <4> QED
        BY <4>1, <4>2
    <3> QED
      BY <3>1
  <2>5. flatten = Body(flatten)
    <3> HIDE DEF Body, f
    <3> QED
      BY <2>4
  <2> HIDE DEF flatten
  <2>6. \A i \in 1..n : flatten[i] = IF i = 1 THEN ss[i] ELSE flatten[i - 1] \o ss[i]
    <3>1. \A i \in 1..n : Body(flatten)[i] = IF i = 1 THEN ss[i] ELSE flatten[i - 1] \o ss[i]
      BY Zenon
    <3> HIDE DEF Body
    <3>2. \A h : h = Body(flatten) => \A i \in 1..n : h[i] = Body(flatten)[i]
      OBVIOUS
    <3> QED
      BY <2>5, <3>1, <3>2, Zenon
  <2> DEFINE S == {k \in Nat : k + 1 <= n => flatten[k + 1] = c[k + 1]}
  <2>7. 0 \in S
    BY <2>2, <2>3, <2>6
  <2>8. ASSUME NEW k \in S PROVE k + 1 \in S
    <3> SUFFICES ASSUME (k + 1) + 1 <= n PROVE flatten[(k + 1) + 1] = c[(k + 1) + 1]
      OBVIOUS
    <3>1. /\ k \in Nat /\ (k + 1) + 1 \in 1..n /\ (k + 1) + 1 # 1 /\ ((k + 1) + 1) - 1 = k + 1
          /\ k + 1 <= n
      OBVIOUS
    <3>2. flatten[k + 1] = c[k + 1]
      BY <3>1
    <3>3. flatten[(k + 1) + 1] = flatten[k + 1] \o ss[(k + 1) + 1]
      BY <2>6, <3>1
    <3>4. c[(k + 1) + 1] = c[k + 1] \o ss[(k + 1) + 1]
      BY <3>1 DEF Chain
    <3> QED
      BY <3>2, <3>3, <3>4
  <2>9. S = Nat
    <3>1. S \in SUBSET Nat
      OBVIOUS
    <3> HIDE DEF S
    <3> QED
      BY <2>7, <2>8, <3>1, SetInduction
  <2>10. n - 1 \in S /\ (n - 1) + 1 = n /\ (n - 1) + 1 <= n
    <3>1. n - 1 \in Nat /\ (n - 1) + 1 = n /\ n <= n
      BY <2>2
    <3> HIDE DEF S
    <3> QED
      BY <2>9, <3>1
  <2> QED
    BY <2>1, <2>10
<1> QED
  BY <1>1, <1>2

LEMMA FlattenFirst ==
    ASSUME NEW ss \in Seq(Seq(Word)), ss # <<>>
    PROVE  FlattenSeq(ss) = Head(ss) \o FlattenSeq(Tail(ss))
<1> DEFINE n == Len(ss)
           rest == Tail(ss)
           m == Len(rest)
<1>1. /\ n \in Nat /\ 1 <= n /\ m = n - 1 /\ m \in Nat /\ Head(ss) = ss[1]
      /\ rest \in Seq(Seq(Word)) /\ Head(ss) \in Seq(Word)
      /\ \A i \in 1..m : rest[i] = ss[i + 1]
  OBVIOUS
<1>2. PICK c \in [0..n -> Seq(Word)] : Chain(c, ss)
  BY ChainExists
<1> HIDE DEF rest
<1>3. PICK b \in [0..m -> Seq(Word)] : Chain(b, rest)
  BY <1>1, ChainExists
<1> HIDE DEF n, m
<1>4. FlattenSeq(ss) = c[n] /\ FlattenSeq(rest) = b[m]
  BY <1>1, <1>2, <1>3, FlattenIs DEF n, m
<1> DEFINE S == {k \in Nat : k <= m => c[k + 1] = Head(ss) \o b[k]}
<1>5. 0 \in S
  <2>1. 1 \in 1..n /\ 1 - 1 = 0
    BY <1>1
  <2>2. c[1] = c[1 - 1] \o ss[1] /\ c[0] = <<>>
    BY <1>2, <2>1 DEF Chain, n
  <2>3. b[0] = <<>>
    BY <1>3 DEF Chain
  <2>4. <<>> \o ss[1] = ss[1] /\ ss[1] \o <<>> = ss[1]
    BY <1>1, ConcatSimplifications
  <2> QED
    <3>1. c[1] = <<>> \o ss[1]
      BY <2>1, <2>2
    <3>2. c[1] = Head(ss) \o b[0]
      BY <1>1, <2>3, <2>4, <3>1, Zenon
    <3>3. 0 + 1 = 1
      OBVIOUS
    <3> QED
      BY <3>2, <3>3
<1>6. ASSUME NEW k \in S PROVE k + 1 \in S
  <2> SUFFICES ASSUME k + 1 <= m PROVE c[(k + 1) + 1] = Head(ss) \o b[k + 1]
    <3>1. k \in Nat /\ k + 1 \in Nat
      OBVIOUS
    <3> QED
      BY <3>1
  <2>1. /\ k \in Nat /\ k + 1 \in 1..m /\ (k + 1) + 1 \in 1..n /\ ((k + 1) + 1) - 1 = k + 1
        /\ (k + 1) - 1 = k /\ k <= m /\ k \in 0..m
    BY <1>1
  <2>2. c[k + 1] = Head(ss) \o b[k]
    BY <2>1
  <2>3. c[(k + 1) + 1] = c[k + 1] \o ss[(k + 1) + 1]
    BY <1>2, <2>1 DEF Chain, n
  <2>4. b[k + 1] = b[k] \o rest[k + 1] /\ rest[k + 1] = ss[(k + 1) + 1]
    BY <1>1, <1>3, <2>1 DEF Chain, m
  <2>5. Head(ss) \in Seq(Word) /\ b[k] \in Seq(Word) /\ rest[k + 1] \in Seq(Word)
    <3>1. rest[k + 1] \in Seq(Word)
      BY <1>1, <2>1 DEF m
    <3> QED
      BY <1>1, <2>1, <3>1
  <2>6. (Head(ss) \o b[k]) \o rest[k + 1] = Head(ss) \o (b[k] \o rest[k + 1])
    BY <2>5, WordSeqs, Zenon
  <2> QED
    BY <2>2, <2>3, <2>4, <2>6, Zenon
<1>7. S = Nat
  <2>1. S \in SUBSET Nat
    OBVIOUS
  <2> HIDE DEF S
  <2> QED
    BY <1>5, <1>6, <2>1, SetInduction
<1>8. m \in S /\ m <= m /\ m + 1 = n
  <2> HIDE DEF S
  <2> QED
    BY <1>1, <1>7
<1>9. c[n] = Head(ss) \o b[m]
  BY <1>8
<1> QED
  BY <1>4, <1>9 DEF rest

-----------------------------------------------------------------------------
(* What the abstract device makes of a message, and core 1 of its words. *)

Tidy == {m \in ConfiguredItems \cup CommandItem : TidyMessage(m)}

LEMMA FirstIsNoBlank ==
    ASSUME NEW w \in Word, decode_hwel(w).operation = SetupOp
    PROVE  w # NoWord
<1>1. decode_hwel(NoWord).operation = 0
  BY DEF decode_hwel, NoWord
<1> QED
  BY <1>1 DEF SetupOp

LEMMA SetupObeyed ==
    ASSUME TidyInputs, NEW m \in ConfiguredItems, m.kind = "setup", NEW d \in Devices
    PROVE  /\ P!Obey(d, m) = Dev!Wire(d, m.src, ItemRow(m))
           /\ P!Obey(d, m) \in Devices
           /\ Absorbed(<<d, NoWord>>, WordsOf(m), <<P!Obey(d, m), NoWord>>)
<1> DEFINE w == OpWord(SetupOp, m.ty, m.id, m.io)
           v == RefWord(m.src)
           e == Dev!Wire(d, m.src, ItemRow(m))
<1>1. /\ w \in Word /\ decode_hwel(w).operation = SetupOp /\ RowOf(w) = ItemRow(m)
  BY SetupDecoded
<1>2. v \in Word /\ decode_hwrf(v) = m.src /\ m.src \in Half
  BY SetupFields, DecodeRefWord
<1>3. WordsOf(m) = <<w, v>>
  BY DEF WordsOf, SetupWords
<1>4. P!Obey(d, m) = e
  BY DEF P!Obey, P!Wire, Dev!Wire, P!Listeners, Dev!Listeners, P!PinOf, Dev!PinOf, ItemRow,
         P!Cardinality, Dev!Cardinality
<1> HIDE DEF w, v, e
<1>5. e \in Devices
  <2>1. ItemRow(m) \in Row
    BY <1>1, RowOfType
  <2> QED
    BY <1>2, <2>1, WireType DEF e
<1>6. w # NoWord
  BY <1>1, FirstIsNoBlank
<1>7. Absorb(<<d, NoWord>>, w) = <<d, w>>
  BY <1>1 DEF Absorb, SetupOp, ActionOp
<1>8. Absorb(<<d, w>>, v) = <<e, NoWord>>
  BY <1>1, <1>2, <1>6 DEF Absorb, e
<1>9. <<d, NoWord>> \in Progresses /\ <<d, w>> \in Progresses
  BY <1>1, NoWordType DEF Progresses
<1>10. Absorbed(<<d, w>>, <<v>>, <<e, NoWord>>)
  BY <1>2, <1>8, <1>9, AbsorbedOne
<1>11. Absorbed(<<d, NoWord>>, <<w>> \o <<v>>, <<e, NoWord>>)
  <2>1. <<v>> \in Seq(Word)
    BY <1>2
  <2> QED
    BY <1>1, <1>7, <1>9, <1>10, <2>1, AbsorbedFirst
<1>12. <<w>> \o <<v>> = <<w, v>>
  <2> DEFINE s == <<w>> \o <<v>>
             t == <<w, v>>
  <2>1. <<w>> \in Seq(Word) /\ <<v>> \in Seq(Word)
    BY <1>1, <1>2
  <2>2. s \in Seq(Word) /\ Len(s) = 2 /\ s[1] = w /\ s[2] = v
    BY <2>1, ConcatProperties
  <2>3. t \in Seq(Word) /\ Len(t) = 2 /\ t[1] = w /\ t[2] = v
    BY <1>1, <1>2
  <2> HIDE DEF s, t
  <2>4. \A i \in 1..Len(s) : s[i] = t[i]
    BY <2>2, <2>3
  <2>5. s = t
    BY <2>2, <2>3, <2>4, SeqEqual
  <2> QED
    BY <2>5 DEF s, t
<1> QED
  BY <1>3, <1>4, <1>5, <1>11, <1>12 DEF e

LEMMA CommandObeyed ==
    ASSUME NEW m \in CommandItem, m.kind # "setup", m.ext = <<>>, NEW d \in Devices
    PROVE  /\ P!Obey(d, m) \in Devices
           /\ Absorbed(<<d, NoWord>>, WordsOf(m), <<P!Obey(d, m), NoWord>>)
<1> DEFINE w == OpWord(ActionOp, m.ty, m.id, m.val)
           e == Dev!Switch(d, {t[3] : t \in Dev!Listeners(d, m.id)}, m.val)
<1>1. /\ w \in Word /\ decode_hwel(w).operation = ActionOp /\ decode_hwel(w).id = m.id
      /\ decode_hwel(w).value = m.val
  <2>1. m.ty \in LED..63 /\ m.id \in Half /\ m.val \in Byte /\ ActionOp \in 0..3
    BY DEF CommandItem, ActionOp
  <2> QED
    BY <2>1, DecodeOpWord
<1>2. WordsOf(m) = <<w>>
  BY DEF WordsOf, CommandWords
<1>3. P!Obey(d, m) = e
  BY DEF P!Obey, P!Switch, Dev!Switch, P!Listeners, Dev!Listeners, P!PinOf, Dev!PinOf
<1>4. e \in Devices
  BY SwitchType
<1>5. Absorb(<<d, NoWord>>, w) = <<e, NoWord>>
  <2> HIDE DEF w
  <2> QED
    BY <1>1 DEF Absorb, ActionOp, SetupOp
<1> HIDE DEF w, e
<1>6. <<d, NoWord>> \in Progresses
  BY NoWordType DEF Progresses
<1>7. Absorbed(<<d, NoWord>>, <<w>>, <<e, NoWord>>)
  BY <1>1, <1>5, <1>6, AbsorbedOne
<1> QED
  BY <1>2, <1>3, <1>4, <1>7

LEMMA MessageObeyed ==
    ASSUME TidyInputs, NEW m \in Tidy, NEW d \in Devices
    PROVE  /\ P!Obey(d, m) \in Devices
           /\ Absorbed(<<d, NoWord>>, WordsOf(m), <<P!Obey(d, m), NoWord>>)
<1>1. CASE m.kind = "setup"
  <2>1. m \in ConfiguredItems
    BY <1>1 DEF Tidy, TidyMessage
  <2> QED
    BY <1>1, <2>1, SetupObeyed
<1>2. CASE m.kind # "setup"
  <2>1. m \in CommandItem /\ m.ext = <<>>
    BY <1>2 DEF Tidy, TidyMessage
  <2> QED
    BY <1>2, <2>1, CommandObeyed
<1> QED
  BY <1>1, <1>2

ObeysAll(d, ms) == FoldLeft(LAMBDA ds, m : {P!Obey(x, m) : x \in ds}, {d}, ms)

MessagesFolded(g, d, ms) ==
    /\ g[{}] = {d} /\ ObeysAll(d, ms) = g[1..Len(ms)]
    /\ \A k \in 1..Len(ms) : g[1..k] = {P!Obey(x, ms[k]) : x \in g[1..(k - 1)]}

LEMMA ObeyFolds ==
    ASSUME TidyInputs, NEW d \in Devices, NEW ms \in Seq(Tidy)
    PROVE  \E g : MessagesFolded(g, d, ms)
<1> DEFINE n == Len(ms)
           D == SUBSET (1..n)
           X == SUBSET Devices
           All(v, m) == {P!Obey(x, m) : x \in v}
           Body(g) == [s \in SUBSET DOMAIN ms |->
                          IF s = {} THEN {d} ELSE All(g[s \ {Max(s)}], ms[Max(s)])]
           iter == CHOOSE g : g = Body(g)
           step == [q \in D \X X |-> IF q[1] = {} THEN q[2] ELSE All(q[2], ms[Max(q[1])])]
<1>1. ObeysAll(d, ms) = iter[DOMAIN ms]
  BY DEF ObeysAll, FoldLeft, MapThenFoldSet
<1>2. n \in Nat /\ DOMAIN ms = 1..n /\ {d} \in X /\ {} \in D
  OBVIOUS
<1>3. step \in [D \X X -> X]
  <2>1. ASSUME NEW s \in D, NEW v \in X, s # {} PROVE All(v, ms[Max(s)]) \in X
    <3>1. Max(s) \in 1..n
      BY <1>2, <2>1, Highest
    <3>2. ms[Max(s)] \in Tidy
      BY <3>1
    <3> QED
      BY <3>2, MessageObeyed
  <2> HIDE DEF D, X, All
  <2>2. \A q \in D \X X : q[1] \in D /\ q[2] \in X
    OBVIOUS
  <2> QED
    BY <2>1, <2>2
<1>4. PICK f \in [D -> X] : FoldsDown(f, n, {d}, step)
  <2> HIDE DEF n, X, step
  <2> QED
    BY <1>2, <1>3, FoldDefined
<1>5. \A s \in D : f[s] = IF s = {} THEN {d} ELSE step[<<s, f[s \ {Max(s)}]>>]
  <2> HIDE DEF X, step
  <2> QED
    BY <1>4 DEF FoldsDown
<1>6. f = Body(f)
  <2>1. ASSUME NEW s \in D PROVE f[s] = IF s = {} THEN {d} ELSE All(f[s \ {Max(s)}], ms[Max(s)])
    <3>1. CASE s = {}
      <4> HIDE DEF All, D, X, step
      <4> QED
        BY <1>5, <3>1
    <3>2. CASE s # {}
      <4>1. s \ {Max(s)} \in D
        OBVIOUS
      <4>2. f[s \ {Max(s)}] \in X
        <5> HIDE DEF D, X
        <5> QED
          BY <4>1
      <4>3. step[<<s, f[s \ {Max(s)}]>>] = All(f[s \ {Max(s)}], ms[Max(s)])
        <5>1. \A v \in X : step[<<s, v>>] = All(v, ms[Max(s)])
          <6> HIDE DEF D, X, All
          <6> QED
            BY <3>2
        <5> HIDE DEF D, X, All, step
        <5> QED
          BY <4>2, <5>1
      <4> HIDE DEF All, D, X, step
      <4> QED
        BY <1>5, <3>2, <4>3
    <3> QED
      BY <3>1, <3>2
  <2> HIDE DEF All, X
  <2> QED
    BY <1>2, <2>1
<1>7. iter = Body(iter)
  <2> HIDE DEF Body
  <2> QED
    BY <1>6
<1> HIDE DEF iter
<1>8. \A s \in D : iter[s] = IF s = {} THEN {d} ELSE All(iter[s \ {Max(s)}], ms[Max(s)])
  <2>1. \A s \in D : Body(iter)[s] = IF s = {} THEN {d} ELSE All(iter[s \ {Max(s)}], ms[Max(s)])
    <3> HIDE DEF All
    <3> QED
      BY <1>2
  <2> HIDE DEF Body, All
  <2>2. \A h : h = Body(iter) => \A s \in D : h[s] = Body(iter)[s]
    OBVIOUS
  <2> QED
    BY <1>7, <2>1, <2>2, Zenon
<1>9. ASSUME NEW k \in 1..n PROVE iter[1..k] = All(iter[1..(k - 1)], ms[k])
  <2>1. 1..k \in D /\ 1..k # {} /\ k \in Nat /\ k # 0
    <3>1. k \in 1..k
      OBVIOUS
    <3> QED
      BY <3>1
  <2>2. Max(1..k) = k /\ (1..k) \ {Max(1..k)} = 1..(k - 1)
    BY <2>1, HighestOf
  <2> HIDE DEF All, D
  <2>3. iter[1..k] = All(iter[(1..k) \ {Max(1..k)}], ms[Max(1..k)])
    BY <1>8, <2>1
  <2> QED
    BY <2>2, <2>3, Zenon
<1>10. iter[{}] = {d}
  <2> HIDE DEF All, D
  <2> QED
    BY <1>2, <1>8
<1>11. ObeysAll(d, ms) = iter[1..n]
  BY <1>1, <1>2, Zenon
<1> HIDE DEF All
<1>12. \A k \in 1..Len(ms) : iter[1..k] = {P!Obey(x, ms[k]) : x \in iter[1..(k - 1)]}
  BY <1>9 DEF All
<1>13. MessagesFolded(iter, d, ms)
  BY <1>10, <1>11, <1>12 DEF MessagesFolded
<1> QED
  BY <1>13

ObeyTrace(e, d, ms) == e[0] = d /\ \A k \in 1..Len(ms) : e[k] = P!Obey(e[k - 1], ms[k])

LEMMA ObeyTraceExists ==
    ASSUME TidyInputs, NEW d \in Devices, NEW ms \in Seq(Tidy)
    PROVE  \E e \in [0..Len(ms) -> Devices] :
               ObeyTrace(e, d, ms) /\ ObeysAll(d, ms) = {e[Len(ms)]}
<1> DEFINE n == Len(ms)
<1>1. PICK g : MessagesFolded(g, d, ms)
  BY ObeyFolds
<1> DEFINE S == {k \in Nat : k <= n => \E x \in Devices : g[1..k] = {x}}
<1>2. g[1..0] = {d}
  <2>1. 1..0 = {}
    OBVIOUS
  <2> QED
    BY <1>1, <2>1 DEF MessagesFolded
<1>3. 0 \in S
  BY <1>2
<1>4. ASSUME NEW k \in S PROVE k + 1 \in S
  <2> SUFFICES ASSUME k + 1 <= n PROVE \E x \in Devices : g[1..(k + 1)] = {x}
    OBVIOUS
  <2>1. k \in Nat /\ k + 1 \in 1..n /\ (k + 1) - 1 = k /\ ms[k + 1] \in Tidy
    OBVIOUS
  <2>2. PICK x \in Devices : g[1..k] = {x}
    BY <2>1
  <2>3. g[1..(k + 1)] = {P!Obey(y, ms[k + 1]) : y \in {x}}
    BY <1>1, <2>1, <2>2 DEF MessagesFolded
  <2>4. P!Obey(x, ms[k + 1]) \in Devices
    BY <2>1, MessageObeyed
  <2>5. g[1..(k + 1)] = {P!Obey(x, ms[k + 1])}
    BY <2>3
  <2> QED
    BY <2>4, <2>5
<1>5. S = Nat
  <2>1. S \in SUBSET Nat
    OBVIOUS
  <2> HIDE DEF S
  <2> QED
    BY <1>3, <1>4, <2>1, SetInduction
<1> DEFINE e == [k \in 0..n |-> CHOOSE x \in Devices : g[1..k] = {x}]
<1>6. ASSUME NEW k \in 0..n PROVE e[k] \in Devices /\ g[1..k] = {e[k]}
  <2>1. k \in S /\ k <= n
    <3>1. k \in Nat /\ k <= n
      OBVIOUS
    <3> HIDE DEF S
    <3> QED
      BY <1>5, <3>1
  <2>2. \E x \in Devices : g[1..k] = {x}
    BY <2>1
  <2>3. e[k] = CHOOSE x \in Devices : g[1..k] = {x}
    OBVIOUS
  <2> HIDE DEF e
  <2> QED
    BY <2>2, <2>3, Zenon
<1>7. e \in [0..n -> Devices]
  <2>1. \A k \in 0..n : (CHOOSE x \in Devices : g[1..k] = {x}) \in Devices
    BY <1>6
  <2> QED
    BY <2>1
<1> HIDE DEF e
<1>8. e[0] = d
  <2>1. 0 \in 0..n
    OBVIOUS
  <2>2. {e[0]} = {d}
    BY <1>2, <1>6, <2>1
  <2> QED
    BY <2>2
<1>9. ASSUME NEW k \in 1..n PROVE e[k] = P!Obey(e[k - 1], ms[k])
  <2>1. k \in 0..n /\ k - 1 \in 0..n
    OBVIOUS
  <2>2. g[1..k] = {e[k]} /\ g[1..(k - 1)] = {e[k - 1]}
    BY <1>6, <2>1
  <2>3. g[1..k] = {P!Obey(x, ms[k]) : x \in g[1..(k - 1)]}
    BY <1>1 DEF MessagesFolded
  <2>4. {e[k]} = {P!Obey(e[k - 1], ms[k])}
    BY <2>2, <2>3
  <2> QED
    BY <2>4
<1>10. ObeysAll(d, ms) = {e[n]}
  <2>1. n \in 0..n
    OBVIOUS
  <2> QED
    BY <1>1, <1>6, <2>1 DEF MessagesFolded
<1> QED
  BY <1>7, <1>8, <1>9, <1>10 DEF ObeyTrace

\* The words of messages still to be marshalled, message by message.
WordLists(ms) == [i \in 1..Len(ms) |-> WordsOf(ms[i])]

LEMMA WordListsType ==
    ASSUME NEW ms, ms \in Seq(SetupItem \cup CommandItem)
    PROVE  WordLists(ms) \in Seq(Seq(Word)) /\ Len(WordLists(ms)) = Len(ms)
<1>1. \A i \in 1..Len(ms) : WordsOf(ms[i]) \in Seq(Word)
  <2> TAKE i \in 1..Len(ms)
  <2>1. ms[i] \in SetupItem \cup CommandItem
    OBVIOUS
  <2> QED
    BY <2>1, WordsOfType
<1>2. Len(ms) \in Nat
  OBVIOUS
<1> QED
  BY <1>1, <1>2 DEF WordLists

LEMMA TidyItems == Tidy \subseteq SetupItem \cup CommandItem
BY ConfiguredType DEF Tidy

CallbackMakes(d, ms, e) ==
    /\ ObeysAll(d, ms) = {e}
    /\ Absorbed(<<d, NoWord>>, FlattenSeq(WordLists(ms)), <<e, NoWord>>)

\* The abstract step and the words of its messages come to the same device.
LEMMA CallbackAbsorbed ==
    ASSUME TidyInputs, NEW d \in Devices, NEW ms \in Seq(Tidy)
    PROVE  \E e \in Devices : CallbackMakes(d, ms, e)
<1> DEFINE n == Len(ms)
           ss == WordLists(ms)
<1>1. n \in Nat /\ ss \in Seq(Seq(Word)) /\ Len(ss) = n
  <2>1. ms \in Seq(SetupItem \cup CommandItem)
    BY TidyItems, SeqMonotonic
  <2> QED
    BY <2>1, WordListsType
<1>2. \A k \in 1..n : ss[k] = WordsOf(ms[k]) /\ ms[k] \in Tidy
  BY DEF WordLists
<1>3. PICK e \in [0..n -> Devices] : ObeyTrace(e, d, ms) /\ ObeysAll(d, ms) = {e[n]}
  BY ObeyTraceExists
<1> HIDE DEF ss
<1>4. PICK c \in [0..n -> Seq(Word)] : Chain(c, ss)
  BY <1>1, ChainExists
<1>5. FlattenSeq(ss) = c[n]
  BY <1>1, <1>4, FlattenIs
<1> DEFINE S == {k \in Nat : k <= n => Absorbed(<<d, NoWord>>, c[k], <<e[k], NoWord>>)}
<1>6. <<d, NoWord>> \in Progresses
  BY NoWordType DEF Progresses
<1>7. 0 \in S
  <2>1. c[0] = <<>> /\ e[0] = d
    BY <1>3, <1>4 DEF Chain, ObeyTrace
  <2> QED
    BY <1>6, <2>1, AbsorbedNone
<1>8. ASSUME NEW k \in S PROVE k + 1 \in S
  <2> SUFFICES ASSUME k + 1 <= n
               PROVE  Absorbed(<<d, NoWord>>, c[k + 1], <<e[k + 1], NoWord>>)
    OBVIOUS
  <2>1. /\ k \in Nat /\ k + 1 \in 1..n /\ (k + 1) - 1 = k /\ k \in 0..n
        /\ Absorbed(<<d, NoWord>>, c[k], <<e[k], NoWord>>)
    BY <1>1
  <2>2. c[k + 1] = c[k] \o ss[k + 1]
    BY <1>1, <1>4, <2>1 DEF Chain
  <2>3. e[k + 1] = P!Obey(e[k], ms[k + 1])
    BY <1>3, <2>1 DEF ObeyTrace
  <2>4. e[k] \in Devices /\ c[k] \in Seq(Word) /\ ss[k + 1] = WordsOf(ms[k + 1])
        /\ ms[k + 1] \in Tidy /\ ss[k + 1] \in Seq(Word)
    <3>1. ss[k + 1] \in Seq(Word)
      BY <1>1, <2>1
    <3> QED
      BY <1>2, <1>3, <1>4, <2>1, <3>1
  <2>5. Absorbed(<<e[k], NoWord>>, WordsOf(ms[k + 1]), <<P!Obey(e[k], ms[k + 1]), NoWord>>)
    BY <2>4, MessageObeyed
  <2>6. Absorbed(<<e[k], NoWord>>, ss[k + 1], <<e[k + 1], NoWord>>)
    BY <2>3, <2>4, <2>5
  <2>7. <<e[k], NoWord>> \in Progresses
    BY <2>4, NoWordType DEF Progresses
  <2>8. Absorbed(<<d, NoWord>>, c[k] \o ss[k + 1], <<e[k + 1], NoWord>>)
    BY <1>6, <2>1, <2>4, <2>6, <2>7, AbsorbedJoin
  <2> QED
    BY <2>2, <2>8
<1>9. S = Nat
  <2>1. S \in SUBSET Nat
    OBVIOUS
  <2> HIDE DEF S
  <2> QED
    BY <1>7, <1>8, <2>1, SetInduction
<1>10. n \in S /\ n <= n /\ n \in 0..n
  <2>1. n <= n /\ n \in 0..n
    BY <1>1
  <2> HIDE DEF S
  <2> QED
    BY <1>1, <1>9, <2>1
<1>11. Absorbed(<<d, NoWord>>, c[n], <<e[n], NoWord>>)
  BY <1>10
<1>12. e[n] \in Devices
  BY <1>3, <1>10
<1>13. CallbackMakes(d, ms, e[n])
  BY <1>3, <1>5, <1>11 DEF CallbackMakes, ss
<1> QED
  BY <1>12, <1>13

-----------------------------------------------------------------------------
(* The LED, as the events on their way will leave it. *)

LedPlaces(s) == {i \in 1..Len(s) : i % 2 = 0 /\ s[i - 1] = 2}
LedOf(s, l) == IF LedPlaces(s) = {} THEN l ELSE s[Max(LedPlaces(s))] # 0

LEMMA LedIs == LedAfterEvents = LedOf(EventStream, led)
BY DEF LedAfterEvents, LedOf, LedPlaces

LEMMA LedIsNext == LedAfterEvents' = LedOf(EventStream', led')
BY DEF LedAfterEvents, LedOf, LedPlaces

LEMMA MaxIs ==
    ASSUME NEW n \in Nat, NEW T \in SUBSET (1..n), NEW x \in T, \A y \in T : y <= x
    PROVE  Max(T) = x
<1>1. Max(T) \in T /\ Max(T) \in 1..n /\ \A y \in T : y <= Max(T)
  BY Highest
<1>2. x \in 1..n /\ x <= Max(T) /\ Max(T) <= x
  BY <1>1
<1> QED
  BY <1>1, <1>2

LEMMA LastPlace ==
    ASSUME NEW s \in Seq(Int), LedPlaces(s) # {}
    PROVE  /\ Max(LedPlaces(s)) \in LedPlaces(s) /\ Max(LedPlaces(s)) \in 1..Len(s)
           /\ \A y \in LedPlaces(s) : y <= Max(LedPlaces(s))
<1>1. LedPlaces(s) \in SUBSET (1..Len(s)) /\ Len(s) \in Nat
  BY DEF LedPlaces
<1> QED
  BY <1>1, Highest

\* Two words behind: of the LED, or of something else.
LEMMA LedAppend ==
    ASSUME NEW s \in Seq(Int), Len(s) % 2 = 0, NEW a \in Int, NEW b \in Int, NEW l
    PROVE  LedOf(s \o <<a, b>>, l) = IF a = 2 THEN b # 0 ELSE LedOf(s, l)
<1> DEFINE n == Len(s)
           t == s \o <<a, b>>
<1>1. /\ n \in Nat /\ t \in Seq(Int) /\ Len(t) = n + 2 /\ t[n + 1] = a /\ t[n + 2] = b
      /\ \A i \in 1..n : t[i] = s[i]
  OBVIOUS
<1>2. (n + 1) % 2 = 1 /\ (n + 2) % 2 = 0 /\ (n + 2) - 1 = n + 1
  BY <1>1
<1> HIDE DEF n, t
<1>3. \A i \in 1..n : i \in LedPlaces(t) <=> i \in LedPlaces(s)
  <2> TAKE i \in 1..n
  <2>1. i \in 1..Len(t) /\ i \in 1..Len(s)
    BY <1>1 DEF n
  <2>2. CASE i % 2 = 0
    <3>1. i # 1 /\ i - 1 \in 1..n
      BY <1>1, <2>2
    <3>2. t[i - 1] = s[i - 1]
      BY <1>1, <3>1
    <3> QED
      BY <2>1, <3>2 DEF LedPlaces
  <2> QED
    BY <2>1, <2>2 DEF LedPlaces
<1>4. /\ n + 1 \notin LedPlaces(t)
      /\ n + 2 \in LedPlaces(t) <=> a = 2
  BY <1>1, <1>2 DEF LedPlaces
<1>5. /\ \A i \in LedPlaces(t) : i \in 1..n \/ i = n + 1 \/ i = n + 2
      /\ \A i \in LedPlaces(t) : i \in 1..(n + 2)
      /\ \A i \in LedPlaces(s) : i \in 1..n
  <2>1. LedPlaces(t) \subseteq 1..(n + 2)
    BY <1>1 DEF LedPlaces
  <2>2. LedPlaces(s) \subseteq 1..n
    BY DEF LedPlaces, n
  <2>3. \A i \in 1..(n + 2) : i \in 1..n \/ i = n + 1 \/ i = n + 2
    BY <1>1
  <2> QED
    BY <2>1, <2>2, <2>3
<1>6. CASE a = 2
  <2>1. \A y \in LedPlaces(t) : y <= n + 2
    BY <1>1, <1>5
  <2>2. LedPlaces(t) \in SUBSET (1..(n + 2)) /\ n + 2 \in Nat
    BY <1>1, <1>5
  <2>3. Max(LedPlaces(t)) = n + 2
    BY <1>4, <1>6, <2>1, <2>2, MaxIs
  <2>4. LedOf(t, l) = (t[n + 2] # 0)
    BY <1>4, <1>6, <2>3 DEF LedOf
  <2> QED
    BY <1>1, <1>6, <2>4 DEF t
<1>7. CASE a # 2
  <2>1. LedPlaces(t) = LedPlaces(s)
    BY <1>3, <1>4, <1>5, <1>7
  <2>2. CASE LedPlaces(s) = {}
    BY <1>7, <2>1, <2>2 DEF LedOf, t
  <2>3. CASE LedPlaces(s) # {}
    <3>1. Max(LedPlaces(s)) \in 1..n
      BY <2>3, LastPlace DEF n
    <3>2. t[Max(LedPlaces(s))] = s[Max(LedPlaces(s))]
      BY <1>1, <3>1
    <3> QED
      BY <1>7, <2>1, <2>3, <3>2 DEF LedOf, t
  <2> QED
    BY <2>2, <2>3
<1> QED
  BY <1>6, <1>7 DEF t

\* Two words less in front.
LEMMA LedDrop ==
    ASSUME NEW s \in Seq(Int), NEW t \in Seq(Int), Len(s) = Len(t) + 2,
           \A i \in 1..Len(t) : t[i] = s[i + 2], NEW l
    PROVE  LedOf(s, l) = LedOf(t, IF s[1] = 2 THEN s[2] # 0 ELSE l)
<1> DEFINE n == Len(t)
<1>1. n \in Nat /\ Len(s) = n + 2
  OBVIOUS
<1> HIDE DEF n
<1>2. \A i \in 1..n : i + 2 \in LedPlaces(s) <=> i \in LedPlaces(t)
  <2> TAKE i \in 1..n
  <2>1. i + 2 \in 1..Len(s) /\ i \in 1..Len(t) /\ (i + 2) % 2 = i % 2
        /\ (i + 2) - 1 = i + 1
    BY <1>1 DEF n
  <2>2. CASE i % 2 = 0
    <3>1. i - 1 \in 1..n /\ (i - 1) + 2 = i + 1
      <4>1. i # 1
        BY <2>2
      <4> QED
        BY <1>1, <4>1
    <3>2. t[i - 1] = s[i + 1]
      BY <3>1 DEF n
    <3> QED
      BY <2>1, <3>2 DEF LedPlaces
  <2> QED
    BY <2>1, <2>2 DEF LedPlaces
<1>3. 1 \notin LedPlaces(s) /\ (2 \in LedPlaces(s) <=> s[1] = 2)
  <2>1. 1 % 2 = 1 /\ 2 % 2 = 0 /\ 2 - 1 = 1 /\ 2 \in 1..Len(s)
    BY <1>1
  <2> QED
    BY <2>1 DEF LedPlaces
<1>4. /\ LedPlaces(s) \in SUBSET (1..(n + 2)) /\ LedPlaces(t) \in SUBSET (1..n)
  BY <1>1 DEF LedPlaces, n
<1>5. \A i \in LedPlaces(s) : i = 2 \/ (i - 2 \in 1..n /\ i - 2 \in LedPlaces(t))
  <2> TAKE i \in LedPlaces(s)
  <2>1. i \in 1..(n + 2) /\ i # 1
    BY <1>3, <1>4
  <2>2. i = 2 \/ (i - 2 \in 1..n /\ (i - 2) + 2 = i)
    BY <1>1, <2>1
  <2> QED
    BY <1>2, <2>2
<1>6. CASE LedPlaces(t) = {}
  <2>1. LedPlaces(s) = IF s[1] = 2 THEN {2} ELSE {}
    BY <1>3, <1>5, <1>6
  <2>2. CASE s[1] = 2
    <3>1. Max({2}) = 2
      <4>1. {2} \in SUBSET (1..2) /\ 2 \in Nat /\ 2 \in {2} /\ \A y \in {2} : y <= 2
        OBVIOUS
      <4> QED
        BY <4>1, MaxIs
    <3> QED
      BY <1>6, <2>1, <2>2, <3>1 DEF LedOf
  <2> QED
    BY <1>6, <2>1, <2>2 DEF LedOf
<1>7. CASE LedPlaces(t) # {}
  <2> DEFINE k == Max(LedPlaces(t))
  <2>1. k \in LedPlaces(t) /\ k \in 1..n /\ \A y \in LedPlaces(t) : y <= k
    BY <1>7, LastPlace DEF n
  <2> HIDE DEF k
  <2>2. k + 2 \in LedPlaces(s) /\ \A y \in LedPlaces(s) : y <= k + 2
    <3>1. k + 2 \in LedPlaces(s)
      BY <1>2, <2>1
    <3>2. ASSUME NEW y \in LedPlaces(s) PROVE y <= k + 2
      <4>1. y = 2 \/ (y - 2 \in 1..n /\ y - 2 <= k)
        BY <1>5, <2>1
      <4>2. y \in 1..(n + 2)
        BY <1>4
      <4> QED
        BY <1>1, <2>1, <4>1, <4>2
    <3> QED
      BY <3>1, <3>2
  <2>3. Max(LedPlaces(s)) = k + 2
    <3>1. n + 2 \in Nat
      BY <1>1
    <3> QED
      BY <1>4, <2>2, <3>1, MaxIs
  <2>4. t[k] = s[k + 2]
    BY <2>1 DEF n
  <2> QED
    BY <1>7, <2>2, <2>3, <2>4 DEF LedOf, k
<1> QED
  BY <1>6, <1>7

LEMMA EventsEven ==
    ASSUME TypeOK, EventsFramed
    PROVE  Len(EventStream) % 2 = 0
<1>1. PICK n \in 0..Len(EventStream) : Len(EventStream) = 2 * n
  BY DEF EventsFramed, Framed
<1>2. n \in Nat
  BY <1>1, StreamTypes
<1> QED
  BY <1>1, <1>2

LEMMA LedProduced ==
    ASSUME TypeOK, EventsFramed, out1 = <<>>, UNCHANGED <<tag0, fifo10, led>>,
           NEW a \in Int, NEW b \in Int, out1' = <<a, b>>
    PROVE  LedAfterEvents' = IF a = 2 THEN b # 0 ELSE LedAfterEvents
<1>1. EventStream' = EventStream \o <<a, b>>
  BY StreamTypes DEF EventStream
<1>2. LedOf(EventStream \o <<a, b>>, led) = IF a = 2 THEN b # 0 ELSE LedOf(EventStream, led)
  BY StreamTypes, EventsEven, LedAppend
<1>3. LedAfterEvents' = LedOf(EventStream \o <<a, b>>, led)
  BY <1>1, LedIsNext
<1> QED
  BY <1>2, <1>3, LedIs, Zenon

LEMMA LedKept ==
    ASSUME EventStream' = EventStream, UNCHANGED led
    PROVE  LedAfterEvents' = LedAfterEvents
BY LedIs, LedIsNext

LEMMA LedTaken ==
    ASSUME TypeOK, PopValue0
    PROVE  LedAfterEvents' = LedAfterEvents
<1> DEFINE l == IF EventStream[1] = 2 THEN EventStream[2] # 0 ELSE led
<1>1. led' = l
  BY EventsPopValue0 DEF PopValue0
<1>2. LedOf(EventStream, led) = LedOf(EventStream', l)
  <2>1. EventStream \in Seq(Int) /\ EventStream' \in Seq(Int)
    BY EventsPopValue0, StreamTypes
  <2>2. /\ Len(EventStream) = Len(EventStream') + 2
        /\ \A i \in 1..Len(EventStream') : EventStream'[i] = EventStream[i + 2]
    BY EventsPopValue0
  <2> QED
    BY <2>1, <2>2, LedDrop
<1> HIDE DEF l
<1> QED
  BY <1>1, <1>2, LedIs, LedIsNext, Zenon

-----------------------------------------------------------------------------
(* The device core 1 has now. *)

LEMMA RowsOfTable ==
    ASSUME TypeOK, NEW s \in DOMAIN table
    PROVE  /\ s \in Half /\ table[s] \in Seq(Row) /\ Len(table[s]) \in Nat
           /\ DOMAIN table[s] = 1..Len(table[s])
           /\ \A i \in 1..Len(table[s]) : table[s][i] \in Row
<1>1. s \in Half /\ table[s] \in Seq(Row)
  BY DEF TypeOK
<1> QED
  BY <1>1, LenProperties, ElementOfSeq

\* The outputs of a source, with their places.
Wires(s) == {<<s, i, find_packet(s)[i]>> : i \in 1..Len(find_packet(s))}

LEMMA FoundType ==
    ASSUME TypeOK, NEW s
    PROVE  /\ find_packet(s) \in Seq(Row) /\ Len(find_packet(s)) \in Nat
           /\ \A i \in 1..Len(find_packet(s)) : find_packet(s)[i] \in Row
<1>1. find_packet(s) \in Seq(Row)
  BY RowsOfTable DEF find_packet
<1> QED
  BY <1>1, LenProperties, ElementOfSeq

LEMMA ListenersAre ==
    ASSUME TypeOK, NEW s
    PROVE  Dev!Listeners(Present, s) = Wires(s)
<1>1. Dev!Listeners(Present, s) = {x \in Present.wired : x[1] = s}
  BY DEF Dev!Listeners
<1>2. Present.wired = UNION {{<<r, i, table[r][i]>> : i \in DOMAIN table[r]} : r \in DOMAIN table}
  BY DEF Present
<1>3. ASSUME NEW x \in Present.wired, x[1] = s PROVE x \in Wires(s)
  <2>1. PICK r \in DOMAIN table : \E i \in DOMAIN table[r] : x = <<r, i, table[r][i]>>
    BY <1>2, <1>3
  <2>2. PICK i \in DOMAIN table[r] : x = <<r, i, table[r][i]>>
    BY <2>1
  <2>3. r = s /\ find_packet(s) = table[r]
    BY <1>3, <2>2 DEF find_packet
  <2>4. i \in 1..Len(table[r])
    BY RowsOfTable
  <2> QED
    BY <2>2, <2>3, <2>4 DEF Wires
<1>4. ASSUME NEW x \in Wires(s) PROVE x \in Present.wired /\ x[1] = s
  <2>1. PICK i \in 1..Len(find_packet(s)) : x = <<s, i, find_packet(s)[i]>>
    BY DEF Wires
  <2>2. s \in DOMAIN table /\ find_packet(s) = table[s]
    <3>1. Len(<<>>) = 0
      OBVIOUS
    <3> QED
      BY <3>1 DEF find_packet
  <2>3. i \in DOMAIN table[s]
    BY <2>2, RowsOfTable
  <2> QED
    BY <1>2, <2>1, <2>2, <2>3
<1> QED
  BY <1>1, <1>3, <1>4

LEMMA WiresCount ==
    ASSUME TypeOK, NEW s
    PROVE  IsFiniteSet(Wires(s)) /\ Cardinality(Wires(s)) = Len(find_packet(s))
<1> DEFINE n == Len(find_packet(s))
           place == [i \in 1..n |-> <<s, i, find_packet(s)[i]>>]
<1>1. n \in Nat
  BY FoundType
<1>2. IsFiniteSet(1..n) /\ Cardinality(1..n) = n
  <2> HIDE DEF n
  <2>1. Cardinality(1..n) = IF 1 > n THEN 0 ELSE n - 1 + 1
    BY <1>1, FS_Interval
  <2> QED
    BY <1>1, <2>1, FS_Interval
<1>3. place \in Bijection(1..n, Wires(s))
  <2>1. place \in [1..n -> Wires(s)]
    BY DEF Wires
  <2>2. \A i, j \in 1..n : place[i] = place[j] => i = j
    OBVIOUS
  <2>3. \A x \in Wires(s) : \E i \in 1..n : place[i] = x
    BY DEF Wires
  <2> HIDE DEF place
  <2> QED
    BY <2>1, <2>2, <2>3 DEF Bijection, Injection, Surjection, IsInjective
<1>4. ExistsBijection(1..n, Wires(s))
  BY <1>3 DEF ExistsBijection
<1> QED
  BY <1>2, <1>4, FS_Bijection

LEMMA LedType == ASSUME TypeOK PROVE LedAfterEvents \in BOOLEAN
<1>1. led \in BOOLEAN
  BY DEF TypeOK
<1> QED
  BY <1>1 DEF LedAfterEvents

LEMMA PresentType == ASSUME TypeOK PROVE Present \in Devices
<1>1. Present.wired \in SUBSET (Half \X Nat \X Row)
  <2> SUFFICES ASSUME NEW x \in Present.wired PROVE x \in Half \X Nat \X Row
    OBVIOUS
  <2>1. PICK r \in DOMAIN table : \E i \in DOMAIN table[r] : x = <<r, i, table[r][i]>>
    BY DEF Present
  <2>2. PICK i \in DOMAIN table[r] : x = <<r, i, table[r][i]>>
    BY <2>1
  <2>3. r \in Half /\ i \in Nat /\ table[r][i] \in Row
    BY RowsOfTable
  <2> QED
    BY <2>2, <2>3
<1>2. Present.outs \in SUBSET Pins /\ Present.high \in SUBSET Pins /\ Present.led \in BOOLEAN
  BY LedType DEF Present
<1>3. Present = [wired |-> Present.wired, outs |-> Present.outs, high |-> Present.high,
                 led |-> Present.led]
  BY DEF Present
<1>4. \A s \in Half : IsFiniteSet(Dev!Listeners(Present, s))
  BY ListenersAre, WiresCount
<1> QED
  BY <1>1, <1>2, <1>3, <1>4 DEF Devices

LEMMA ProgressType == ASSUME TypeOK PROVE Progress \in Progresses
<1>1. op1 \in Word
  BY DEF TypeOK
<1> QED
  BY <1>1, PresentType, SwitchType, NoWordType DEF Progress, Progresses

LEMMA ProgressTypeNext == (TypeOK => Progress \in Progresses)'
BY ProgressType, PTL

LEMMA InFlightIs == InFlight = (fifo01 \o out0) \o FlattenSeq(WordLists(todo0))
BY DEF InFlight, WordLists

LEMMA InFlightIsNext == InFlight' = (fifo01' \o out0') \o FlattenSeq(WordLists(todo0'))
BY DEF InFlight, WordLists

LEMMA FlattenType ==
    ASSUME NEW ss \in Seq(Seq(Word))
    PROVE  FlattenSeq(ss) \in Seq(Word)
<1>1. PICK c \in [0..Len(ss) -> Seq(Word)] : Chain(c, ss)
  BY ChainExists
<1>2. Len(ss) \in 0..Len(ss)
  OBVIOUS
<1> QED
  BY <1>1, <1>2, FlattenIs

LEMMA InFlightTypes ==
    ASSUME TypeOK
    PROVE  /\ fifo01 \in Seq(Word) /\ out0 \in Seq(Word)
           /\ WordLists(todo0) \in Seq(Seq(Word)) /\ Len(WordLists(todo0)) = Len(todo0)
           /\ FlattenSeq(WordLists(todo0)) \in Seq(Word)
           /\ InFlight \in Seq(Word)
<1>1. fifo01 \in Seq(Word) /\ out0 \in Seq(Word) /\ todo0 \in Seq(SetupItem \cup CommandItem)
  BY DEF TypeOK
<1>2. WordLists(todo0) \in Seq(Seq(Word)) /\ Len(WordLists(todo0)) = Len(todo0)
  BY <1>1, WordListsType
<1>3. FlattenSeq(WordLists(todo0)) \in Seq(Word)
  BY <1>2, FlattenType
<1>4. fifo01 \o out0 \in Seq(Word)
  BY <1>1, ConcatProperties
<1> QED
  BY <1>1, <1>2, <1>3, <1>4, ConcatProperties, InFlightIs

LEMMA InFlightTypeNext == (TypeOK => InFlight \in Seq(Word))'
<1>1. TypeOK => InFlight \in Seq(Word)
  BY InFlightTypes
<1> QED
  BY <1>1, PTL

LEMMA FlushedIsNext ==
    ASSUME NEW b, Absorbed(Progress', InFlight', b)
    PROVE  Flushed' = b[1]
<1>1. Flushed' = CHOOSE d \in {at[1] : at \in AbsorbAll(Progress', InFlight')} : TRUE
  BY DEF Flushed, AbsorbAll, FoldLeft, MapThenFoldSet
<1>2. {at[1] : at \in AbsorbAll(Progress', InFlight')} = {b[1]}
  BY DEF Absorbed
<1> QED
  BY <1>1, <1>2

\* Nothing moved, or core 1 took in the word in front.
LEMMA StandsStill ==
    ASSUME Progress' = Progress, InFlight' = InFlight
    PROVE  Flushed' = Flushed
BY DEF Flushed, FoldLeft, MapThenFoldSet

LEMMA TakesWord ==
    ASSUME TypeOK, TypeOK', NEW w \in Word, InFlight = <<w>> \o InFlight',
           Progress' = Absorb(Progress, w)
    PROVE  Flushed' = Flushed
<1>1. Progress \in Progresses /\ Progress' \in Progresses /\ InFlight' \in Seq(Word)
  BY ProgressType, ProgressTypeNext, InFlightTypeNext
<1>2. PICK b \in Progresses : Absorbed(Progress', InFlight', b)
  BY <1>1, AbsorbedTotal
<1>3. Absorbed(Progress, <<w>> \o InFlight', b)
  BY <1>1, <1>2, AbsorbedFirst
<1>4. Absorbed(Progress, InFlight, b)
  BY <1>3
<1>5. Flushed = b[1] /\ Flushed' = b[1]
  BY <1>2, <1>4, FlushedIs, FlushedIsNext
<1> QED
  BY <1>5

-----------------------------------------------------------------------------
(* Steps that leave the flushed device as it is. *)

InLoop == pc1 # "drive" => next1 = 0
RefinementInv == RestoreInv /\ EventsFramed /\ InLoop

LEMMA PresentKept ==
    ASSUME LedAfterEvents' = LedAfterEvents, UNCHANGED <<table, pins>>
    PROVE  Present' = Present
BY DEF Present

LEMMA ProgressKept ==
    ASSUME LedAfterEvents' = LedAfterEvents, UNCHANGED <<table, pins, pc1, op1, next1>>
    PROVE  Progress' = Progress
<1>1. Present' = Present
  BY PresentKept
<1> QED
  BY <1>1 DEF Progress, Driven1, find_packet

LEMMA ProgressPlain ==
    ASSUME pc1 # "drive", pc1 # "ref"
    PROVE  Progress = <<Present, NoWord>>
BY DEF Progress

LEMMA ProgressPlainNext ==
    ASSUME pc1' # "drive", pc1' # "ref"
    PROVE  Progress' = <<Present', NoWord>>
BY DEF Progress

LEMMA InFlightKept ==
    ASSUME UNCHANGED <<fifo01, out0, todo0>>
    PROVE  InFlight' = InFlight
BY InFlightIs, InFlightIsNext

LEMMA FlightMarshal0 ==
    ASSUME TypeOK, Marshal0
    PROVE  InFlight' = InFlight
<1> DEFINE ss == WordLists(todo0)
           rest == WordLists(Tail(todo0))
           n == Len(todo0)
<1>1. /\ todo0 \in Seq(SetupItem \cup CommandItem) /\ todo0 # <<>> /\ out0 = <<>>
      /\ fifo01 \in Seq(Word)
  BY DEF TypeOK, Marshal0
<1>2. /\ n \in Nat /\ 1 <= n /\ Tail(todo0) \in Seq(SetupItem \cup CommandItem)
      /\ Len(Tail(todo0)) = n - 1 /\ Head(todo0) = todo0[1]
      /\ \A i \in 1..(n - 1) : Tail(todo0)[i] = todo0[i + 1]
  <2> HIDE DEF n
  <2>1. n \in Nat /\ n # 0
    BY <1>1, EmptySeq DEF n
  <2> QED
    BY <1>1, <2>1, TailType, HeadTailProperties DEF n
<1>3. /\ ss \in Seq(Seq(Word)) /\ Len(ss) = n /\ rest \in Seq(Seq(Word)) /\ Len(rest) = n - 1
  BY <1>1, <1>2, WordListsType
<1>4. /\ \A i \in 1..n : ss[i] = WordsOf(todo0[i])
      /\ \A i \in 1..(n - 1) : rest[i] = WordsOf(todo0[i + 1])
  BY <1>2 DEF WordLists
<1> HIDE DEF ss, rest, n
<1>5. ss # <<>> /\ Head(ss) = WordsOf(Head(todo0)) /\ Head(ss) \in Seq(Word)
  <2>1. ss # <<>> /\ Head(ss) = ss[1] /\ 1 \in 1..n /\ Head(ss) \in Seq(Word)
    BY <1>2, <1>3
  <2> QED
    BY <1>2, <1>4, <2>1
<1>6. Tail(ss) = rest
  <2>1. Tail(ss) \in Seq(Seq(Word)) /\ Len(Tail(ss)) = n - 1
        /\ \A i \in 1..(n - 1) : Tail(ss)[i] = ss[i + 1]
    BY <1>3, <1>5, TailType, HeadTailProperties
  <2>2. \A i \in 1..Len(Tail(ss)) : Tail(ss)[i] = rest[i]
    <3> TAKE i \in 1..Len(Tail(ss))
    <3>1. i \in 1..(n - 1) /\ i + 1 \in 1..n
      BY <1>2, <2>1
    <3> QED
      BY <1>4, <2>1, <3>1
  <2> QED
    BY <1>3, <2>1, <2>2, SeqEqual
<1>7. FlattenSeq(ss) = Head(ss) \o FlattenSeq(rest) /\ FlattenSeq(rest) \in Seq(Word)
  BY <1>3, <1>5, <1>6, FlattenFirst, FlattenType
<1>8. fifo01 \o <<>> = fifo01
  BY <1>1, ConcatEmptySeq
<1>9. InFlight = fifo01 \o (Head(ss) \o FlattenSeq(rest))
  BY <1>1, <1>7, <1>8, InFlightIs, Zenon DEF ss
<1>10. InFlight' = (fifo01 \o Head(ss)) \o FlattenSeq(rest)
  <2>1. fifo01' = fifo01 /\ out0' = Head(ss) /\ todo0' = Tail(todo0)
    BY <1>5 DEF Marshal0, fifos
  <2> QED
    BY <2>1, InFlightIsNext DEF rest
<1>11. (fifo01 \o Head(ss)) \o FlattenSeq(rest) = fifo01 \o (Head(ss) \o FlattenSeq(rest))
  BY <1>1, <1>5, <1>7, WordSeqs, Zenon
<1> QED
  BY <1>9, <1>10, <1>11, Zenon

LEMMA FlightPush0 ==
    ASSUME TypeOK, Push0
    PROVE  InFlight' = InFlight
<1>1. Append(fifo01, Head(out0)) \o Tail(out0) = fifo01 \o out0
  BY InFlightTypes, PushMoves DEF Push0
<1>2. fifo01' \o out0' = fifo01 \o out0 /\ todo0' = todo0
  BY <1>1 DEF Push0
<1> QED
  BY <1>2, InFlightIs, InFlightIsNext

\* Core 0 marshals, pushes and takes events in.
LEMMA FlushedCore0 ==
    ASSUME RefinementInv, Core0
    PROVE  Flushed' = Flushed
<1>1. TypeOK /\ EventsFramed
  BY DEF RefinementInv, RestoreInv, RowsInv
<1>2. UNCHANGED <<table, pins, pc1, op1, next1>>
  BY DEF Core0, Marshal0, Push0, EndPoll0, PopTag0, PopTimeout0, PopValue0, core1, hw
<1>3. LedAfterEvents' = LedAfterEvents
  <2>1. CASE PopTag0
    BY <1>1, <2>1, EventsPopTag0, LedKept DEF PopTag0, hw
  <2>2. CASE PopValue0
    BY <1>1, <2>2, LedTaken
  <2>3. CASE Marshal0 \/ Push0 \/ EndPoll0 \/ PopTimeout0
    <3>1. EventStream' = EventStream /\ UNCHANGED led
      BY <2>3 DEF Marshal0, Push0, EndPoll0, PopTimeout0, EventStream, core1, fifos, hw
    <3> QED
      BY <3>1, LedKept
  <2> QED
    BY <2>1, <2>2, <2>3 DEF Core0
<1>4. InFlight' = InFlight
  <2>1. CASE Marshal0
    BY <1>1, <2>1, FlightMarshal0
  <2>2. CASE Push0
    BY <1>1, <2>2, FlightPush0
  <2>3. CASE EndPoll0 \/ PopTag0 \/ PopTimeout0 \/ PopValue0
    BY <2>3, InFlightKept DEF EndPoll0, PopTag0, PopTimeout0, PopValue0, fifos
  <2> QED
    BY <2>1, <2>2, <2>3 DEF Core0
<1> QED
  BY <1>2, <1>3, <1>4, ProgressKept, StandsStill

\* Core 1 reports, gives a pop up, and pushes its events.
LEMMA FlushedReports ==
    ASSUME RefinementInv, Push1 \/ Uptime1 \/ CoreTemp1 \/ PopTimeout1
    PROVE  Flushed' = Flushed
<1>1. TypeOK /\ EventsFramed
  BY DEF RefinementInv, RestoreInv, RowsInv
<1>2. InFlight' = InFlight /\ UNCHANGED <<table, pins, led>>
  BY InFlightKept DEF Push1, Uptime1, CoreTemp1, PopTimeout1, core0, fifos, hw
<1>3. CASE Push1
  <2>1. LedAfterEvents' = LedAfterEvents
    BY <1>1, <1>2, <1>3, EventsPush1, LedKept
  <2>2. UNCHANGED <<pc1, op1, next1>>
    BY <1>3 DEF Push1
  <2> QED
    BY <1>2, <2>1, <2>2, ProgressKept, StandsStill
<1>4. CASE Uptime1 \/ CoreTemp1 \/ PopTimeout1
  <2>1. pc1 # "drive" /\ pc1 # "ref" /\ pc1' # "drive" /\ pc1' # "ref"
    BY <1>4 DEF Uptime1, CoreTemp1, PopTimeout1
  <2>2. UNCHANGED <<tag0, fifo10, led>>
    BY <1>4 DEF Uptime1, CoreTemp1, PopTimeout1, core0, fifos, hw
  <2>3. LedAfterEvents' = LedAfterEvents
    <3>1. CASE UNCHANGED out1
      <4>1. EventStream' = EventStream
        BY <2>2, <3>1 DEF EventStream
      <4> QED
        BY <2>2, <4>1, LedKept
    <3>2. CASE \E u \in Uptimes : Uptime1 /\ out1' = <<0, u>>
      <4>1. PICK u \in Uptimes : Uptime1 /\ out1' = <<0, u>>
        BY <3>2
      <4>2. u \in Int /\ out1 = <<>>
        BY <4>1, ReadingsAssumption DEF Uptime1
      <4> QED
        BY <1>1, <2>2, <4>1, <4>2, LedProduced
    <3>3. CASE \E t \in Temps : CoreTemp1 /\ out1' = <<1, t>>
      <4>1. PICK t \in Temps : CoreTemp1 /\ out1' = <<1, t>>
        BY <3>3
      <4>2. t \in Int /\ out1 = <<>>
        BY <4>1, ReadingsAssumption DEF CoreTemp1
      <4> QED
        BY <1>1, <2>2, <4>1, <4>2, LedProduced
    <3> QED
      BY <1>4, <3>1, <3>2, <3>3 DEF Uptime1, CoreTemp1, PopTimeout1
  <2>4. Progress' = Progress
    BY <1>2, <2>1, <2>3, PresentKept, ProgressPlain, ProgressPlainNext
  <2> QED
    BY <1>2, <2>4, StandsStill
<1> QED
  BY <1>3, <1>4

-----------------------------------------------------------------------------
(* Core 1 takes a word in, and drives the outputs of a source. *)

LEMMA FlightTaken ==
    ASSUME TypeOK, fifo01 # <<>>, fifo01' = Tail(fifo01), UNCHANGED <<out0, todo0>>
    PROVE  Head(fifo01) \in Word /\ InFlight = <<Head(fifo01)>> \o InFlight'
<1> DEFINE first == <<Head(fifo01)>>
           rest == Tail(fifo01)
           owed == FlattenSeq(WordLists(todo0))
<1>1. fifo01 \in Seq(Word) /\ out0 \in Seq(Word) /\ owed \in Seq(Word)
  BY InFlightTypes
<1>2. Head(fifo01) \in Word /\ rest \in Seq(Word) /\ first \o rest = fifo01
  BY <1>1
<1>3. first \in Seq(Word)
  BY <1>2
<1>4. InFlight = (fifo01 \o out0) \o owed /\ InFlight' = (rest \o out0) \o owed
  BY InFlightIs, InFlightIsNext
<1> HIDE DEF first, rest, owed
<1>5. (first \o rest) \o out0 = first \o (rest \o out0)
  BY <1>1, <1>2, <1>3, WordSeqs, Zenon
<1>6. rest \o out0 \in Seq(Word)
  BY <1>1, <1>2, ConcatProperties
<1>7. (first \o (rest \o out0)) \o owed = first \o ((rest \o out0) \o owed)
  <2> DEFINE middle == rest \o out0
  <2>1. first \in Seq(Word) /\ middle \in Seq(Word) /\ owed \in Seq(Word)
    BY <1>1, <1>3, <1>6
  <2> HIDE DEF middle
  <2>2. (first \o middle) \o owed = first \o (middle \o owed)
    BY <2>1, WordSeqs
  <2> QED
    BY <2>2 DEF middle
<1>8. InFlight = first \o InFlight'
  BY <1>2, <1>4, <1>5, <1>7, Zenon
<1> QED
  BY <1>2, <1>8 DEF first

LEMMA AbsorbPlain ==
    ASSUME NEW d, NEW w, NEW op, op = decode_hwel(w)
    PROVE  /\ op.operation = SetupOp => Absorb(<<d, NoWord>>, w) = <<d, w>>
           /\ op.operation = ActionOp => Absorb(<<d, NoWord>>, w) =
                <<Dev!Switch(d, {t[3] : t \in Dev!Listeners(d, op.id)}, op.value), NoWord>>
           /\ op.operation \notin {SetupOp, ActionOp} => Absorb(<<d, NoWord>>, w) = <<d, NoWord>>
<1>1. op.operation = SetupOp => Absorb(<<d, NoWord>>, w) = <<d, w>>
  BY DEF Absorb, SetupOp, ActionOp
<1>2. op.operation = ActionOp => Absorb(<<d, NoWord>>, w) =
        <<Dev!Switch(d, {t[3] : t \in Dev!Listeners(d, op.id)}, op.value), NoWord>>
  BY DEF Absorb, SetupOp, ActionOp
<1>3. op.operation \notin {SetupOp, ActionOp} => Absorb(<<d, NoWord>>, w) = <<d, NoWord>>
  BY DEF Absorb
<1> QED
  BY <1>1, <1>2, <1>3

\* The rows of a source from a place on.
RowsFrom(s, n) == {find_packet(s)[i] : i \in (n + 1)..Len(find_packet(s))}

LEMMA RowsFromAre ==
    ASSUME TypeOK, NEW s, NEW n \in Nat
    PROVE  ToSet(SubSeq(find_packet(s), n + 1, Len(find_packet(s)))) = RowsFrom(s, n)
<1> DEFINE f == find_packet(s)
           m == Len(f)
           g == SubSeq(f, n + 1, m)
<1>1. f \in Seq(Row) /\ m \in Nat /\ \A i \in 1..m : f[i] \in Row
  BY FoundType
<1>2. RowsFrom(s, n) = {f[i] : i \in (n + 1)..m}
  BY DEF RowsFrom
<1> HIDE DEF f, m
<1>3. n + 1 \in Int /\ m \in Int /\ \A i \in (n + 1)..m : f[i] \in Row
  <2>1. \A i \in (n + 1)..m : i \in 1..m
    BY <1>1
  <2> QED
    BY <1>1, <2>1
<1>4. /\ g \in Seq(Row)
      /\ Len(g) = IF n + 1 <= m THEN m - (n + 1) + 1 ELSE 0
      /\ \A i \in 1..(m - (n + 1) + 1) : g[i] = f[n + 1 + i - 1]
  BY <1>3, SubSeqProperties
<1> HIDE DEF g
<1>5. DOMAIN g = 1..Len(g)
  BY <1>4, LenProperties
<1>6. ASSUME NEW i \in DOMAIN g PROVE g[i] \in {f[j] : j \in (n + 1)..m}
  <2>1. i \in 1..(m - (n + 1) + 1) /\ n + 1 + i - 1 \in (n + 1)..m
    BY <1>1, <1>4, <1>5
  <2> QED
    BY <1>4, <2>1
<1>7. ASSUME NEW j \in (n + 1)..m PROVE \E i \in DOMAIN g : g[i] = f[j]
  <2> DEFINE i == j - n
  <2>1. /\ i \in 1..(m - (n + 1) + 1) /\ n + 1 + i - 1 = j /\ n + 1 <= m
        /\ i \in 1..Len(g)
    BY <1>1, <1>4
  <2> HIDE DEF i
  <2> QED
    BY <1>4, <1>5, <2>1
<1>8. ToSet(g) = {f[j] : j \in (n + 1)..m}
  BY <1>6, <1>7 DEF ToSet
<1> QED
  BY <1>2, <1>8 DEF f, g, m

LEMMA ProgressDrive ==
    ASSUME TypeOK, pc1 = "drive"
    PROVE  Progress = <<Dev!Switch(Present, RowsFrom(decode_hwel(op1).id, next1),
                                   decode_hwel(op1).value), NoWord>>
<1>1. next1 \in Nat
  BY DEF TypeOK
<1>2. ToSet(SubSeq(Driven1, next1 + 1, Len(Driven1))) = RowsFrom(decode_hwel(op1).id, next1)
  BY <1>1, RowsFromAre DEF Driven1
<1> QED
  BY <1>2 DEF Progress

\* The same for the next state.
LEMMA ProgressDriveNext ==
    ASSUME TypeOK', pc1' = "drive", UNCHANGED table
    PROVE  Progress' = <<Dev!Switch(Present', RowsFrom(decode_hwel(op1').id, next1'),
                                    decode_hwel(op1').value), NoWord>>
<1>1. (TypeOK /\ pc1 = "drive" =>
          Progress = <<Dev!Switch(Present, RowsFrom(decode_hwel(op1).id, next1),
                                  decode_hwel(op1).value), NoWord>>)'
  BY ProgressDrive, PTL
<1> QED
  BY <1>1 DEF RowsFrom, find_packet

LEMMA SwitchNone ==
    ASSUME NEW d \in Devices, NEW v
    PROVE  Dev!Switch(d, {}, v) = d
<1>1. d \in [wired : SUBSET (Half \X Nat \X Row), outs : SUBSET Pins, high : SUBSET Pins,
             led : BOOLEAN]
  BY DEF Devices
<1>2. Dev!Switch(d, {}, v) =
        [wired |-> d.wired, outs |-> d.outs, high |-> d.high, led |-> d.led]
  BY DEF Dev!Switch
<1> QED
  BY <1>1, <1>2

LEMMA SwitchTwice ==
    ASSUME NEW d, NEW A, NEW B, NEW v
    PROVE  Dev!Switch(Dev!Switch(d, A, v), B, v) = Dev!Switch(d, A \cup B, v)
<1> DEFINE e == Dev!Switch(d, A, v)
           PA == UNION {Dev!PinOf(r) : r \in A}
           PB == UNION {Dev!PinOf(r) : r \in B}
           PAB == UNION {Dev!PinOf(r) : r \in A \cup B}
           lit(S, l) == IF \E r \in S : r.ty = LED THEN v # 0 ELSE l
<1>1. /\ e.wired = d.wired /\ e.outs = d.outs
      /\ e.high = IF v # 0 THEN d.high \cup PA ELSE d.high \ PA
      /\ e.led = lit(A, d.led)
  BY DEF Dev!Switch
<1>2. Dev!Switch(e, B, v) =
        [wired |-> e.wired, outs |-> e.outs,
         high |-> IF v # 0 THEN e.high \cup PB ELSE e.high \ PB, led |-> lit(B, e.led)]
  BY DEF Dev!Switch
<1>3. Dev!Switch(d, A \cup B, v) =
        [wired |-> d.wired, outs |-> d.outs,
         high |-> IF v # 0 THEN d.high \cup PAB ELSE d.high \ PAB, led |-> lit(A \cup B, d.led)]
  BY DEF Dev!Switch
<1>4. PAB = PA \cup PB
  OBVIOUS
<1>5. lit(B, lit(A, d.led)) = lit(A \cup B, d.led)
  BY Zenon
<1> HIDE DEF e, PA, PB, PAB, lit
<1>6. (IF v # 0 THEN e.high \cup PB ELSE e.high \ PB) =
        IF v # 0 THEN d.high \cup PAB ELSE d.high \ PAB
  BY <1>1, <1>4
<1>7. lit(B, e.led) = lit(A \cup B, d.led)
  BY <1>1, <1>5, Zenon
<1> DEFINE high1 == IF v # 0 THEN e.high \cup PB ELSE e.high \ PB
           high2 == IF v # 0 THEN d.high \cup PAB ELSE d.high \ PAB
           led1 == lit(B, e.led)
           led2 == lit(A \cup B, d.led)
<1>8. Dev!Switch(e, B, v) = [wired |-> e.wired, outs |-> e.outs, high |-> high1, led |-> led1]
  BY <1>2
<1>9. Dev!Switch(d, A \cup B, v) =
        [wired |-> d.wired, outs |-> d.outs, high |-> high2, led |-> led2]
  BY <1>3
<1>10. high1 = high2 /\ led1 = led2
  BY <1>6, <1>7
<1> HIDE DEF high1, high2, led1, led2
<1>11. Dev!Switch(e, B, v) = Dev!Switch(d, A \cup B, v)
  BY <1>1, <1>8, <1>9, <1>10, Zenon
<1> QED
  BY <1>11 DEF e

\* One turn of the loop over the rows of a source.
LEMMA FlushedDrive1 ==
    ASSUME RefinementInv, TypeOK', Drive1
    PROVE  Flushed' = Flushed
<1> DEFINE s == decode_hwel(op1).id
           v == decode_hwel(op1).value
           n == Len(Driven1)
           row == Driven1[next1 + 1]
<1>1. TypeOK /\ EventsFramed /\ pc1 = "drive" /\ pc1' = "drive" /\ next1 \in Nat
  BY DEF RefinementInv, RestoreInv, RowsInv, Drive1, TypeOK
<1>2. /\ out1 = <<>> /\ next1 < n /\ next1' = next1 + 1
      /\ out1' = IF row.ty = LED THEN <<2, v>> ELSE <<>>
      /\ pins' = IF row.ty = GPO THEN [pins EXCEPT ![row.io].level = (v # 0)] ELSE pins
      /\ UNCHANGED <<table, led, op1, fifo01, fifo10, out0, todo0, tag0>>
  BY DEF Drive1, core0, fifos
<1>3. n \in Nat /\ v \in Int
  <2>1. op1 \in Word
    BY <1>1 DEF TypeOK
  <2>2. v \in Byte
    BY <2>1, DecodeType
  <2>3. Len(Driven1) \in Nat
    BY <1>1, FoundType DEF Driven1
  <2> QED
    BY <2>2, <2>3, ByteBounds
<1>4. RowsFrom(s, next1) = {row} \cup RowsFrom(s, next1 + 1)
  <2>1. /\ RowsFrom(s, next1) = {Driven1[i] : i \in (next1 + 1)..n}
        /\ RowsFrom(s, next1 + 1) = {Driven1[i] : i \in ((next1 + 1) + 1)..n}
    BY DEF RowsFrom, Driven1
  <2> HIDE DEF n
  <2>2. (next1 + 1)..n = {next1 + 1} \cup (((next1 + 1) + 1)..n)
    BY <1>1, <1>2, <1>3
  <2> QED
    BY <2>1, <2>2
<1> HIDE DEF s, v, n, row
<1>5. LedAfterEvents' = IF row.ty = LED THEN v # 0 ELSE LedAfterEvents
  <2>1. CASE row.ty = LED
    BY <1>1, <1>2, <1>3, <2>1, LedProduced
  <2>2. CASE row.ty # LED
    <3>1. EventStream' = EventStream
      BY <1>2, <2>2 DEF EventStream
    <3> QED
      BY <1>2, <2>2, <3>1, LedKept
  <2> QED
    BY <2>1, <2>2
<1>6. pins \in [Pins -> [dir : {"in", "out"}, level : BOOLEAN]]
  BY <1>1 DEF TypeOK
<1>7. /\ \A p \in Pins : pins'[p].dir = pins[p].dir
      /\ \A p \in Pins : pins'[p].level =
             IF row.ty = GPO /\ p = row.io THEN v # 0 ELSE pins[p].level
  BY <1>2, <1>6
<1>8. Present' = Dev!Switch(Present, {row}, v)
  <2>1. Present.high = {p \in Pins : pins[p].level}
        /\ Present'.high = {p \in Pins : pins'[p].level}
    BY DEF Present
  <2>2. Present'.high = IF v # 0 THEN Present.high \cup Dev!PinOf(row)
                                ELSE Present.high \ Dev!PinOf(row)
    <3>1. \A p \in Pins : p \in Dev!PinOf(row) <=> row.ty = GPO /\ p = row.io
      BY DEF Dev!PinOf
    <3>2. Dev!PinOf(row) \subseteq Pins
      BY DEF Dev!PinOf
    <3>3. CASE v # 0
      <4>1. \A p \in Pins : pins'[p].level <=> pins[p].level \/ p \in Dev!PinOf(row)
        BY <1>7, <3>1, <3>3
      <4>2. Present'.high = Present.high \cup Dev!PinOf(row)
        BY <2>1, <3>2, <4>1
      <4> QED
        BY <3>3, <4>2
    <3>4. CASE v = 0
      <4>1. \A p \in Pins : pins'[p].level <=> pins[p].level /\ p \notin Dev!PinOf(row)
        BY <1>7, <3>1, <3>4
      <4>2. Present'.high = Present.high \ Dev!PinOf(row)
        BY <2>1, <4>1
      <4> QED
        BY <3>4, <4>2
    <3> QED
      BY <3>3, <3>4
  <2>3. Present'.wired = Present.wired /\ Present'.outs = Present.outs
    BY <1>2, <1>7 DEF Present
  <2>4. Present'.led = IF row.ty = LED THEN v # 0 ELSE Present.led
    BY <1>5 DEF Present
  <2>5. Present' = [wired |-> Present'.wired, outs |-> Present'.outs,
                    high |-> Present'.high, led |-> Present'.led]
    BY DEF Present
  <2>6. UNION {Dev!PinOf(r) : r \in {row}} = Dev!PinOf(row)
    OBVIOUS
  <2>7. (\E r \in {row} : r.ty = LED) <=> row.ty = LED
    OBVIOUS
  <2>8. Dev!Switch(Present, {row}, v) =
          [wired |-> Present.wired, outs |-> Present.outs,
           high |-> IF v # 0 THEN Present.high \cup Dev!PinOf(row)
                    ELSE Present.high \ Dev!PinOf(row),
           led |-> IF row.ty = LED THEN v # 0 ELSE Present.led]
    BY <2>6, <2>7 DEF Dev!Switch
  <2> QED
    BY <2>2, <2>3, <2>4, <2>5, <2>8, Zenon
<1>9. Progress = <<Dev!Switch(Present, {row} \cup RowsFrom(s, next1 + 1), v), NoWord>>
  BY <1>1, <1>4, ProgressDrive DEF s, v
<1>10. Progress' = <<Dev!Switch(Present', RowsFrom(s, next1 + 1), v), NoWord>>
  BY <1>1, <1>2, ProgressDriveNext DEF s, v
<1>11. Progress' = Progress
  <2> DEFINE rest == RowsFrom(s, next1 + 1)
  <2> HIDE DEF rest
  <2>1. Dev!Switch(Dev!Switch(Present, {row}, v), rest, v) =
          Dev!Switch(Present, {row} \cup rest, v)
    BY SwitchTwice
  <2> QED
    BY <1>8, <1>9, <1>10, <2>1, Zenon DEF rest
<1> QED
  BY <1>2, <1>11, InFlightKept, StandsStill

LEMMA FlushedEndDrive1 ==
    ASSUME RefinementInv, EndDrive1
    PROVE  Flushed' = Flushed
<1> DEFINE s == decode_hwel(op1).id
           n == Len(Driven1)
<1>1. TypeOK /\ pc1 = "drive" /\ next1 \in Nat /\ next1 >= n
  BY DEF RefinementInv, RestoreInv, RowsInv, EndDrive1, TypeOK
<1>2. /\ pc1' = "coretm"
      /\ UNCHANGED <<out1, table, pins, led, fifo01, fifo10, out0, todo0, tag0>>
  BY DEF EndDrive1, core0, fifos, hw
<1>3. RowsFrom(s, next1) = {}
  <2>1. RowsFrom(s, next1) = {Driven1[i] : i \in (next1 + 1)..n}
    BY DEF RowsFrom, Driven1
  <2>2. n \in Nat
    BY <1>1, FoundType DEF Driven1
  <2> HIDE DEF n
  <2>3. (next1 + 1)..n = {}
    BY <1>1, <2>2
  <2> QED
    BY <2>1, <2>3
<1>4. Progress = <<Present, NoWord>>
  BY <1>1, <1>3, PresentType, ProgressDrive, SwitchNone
<1>5. LedAfterEvents' = LedAfterEvents
  <2>1. EventStream' = EventStream
    BY <1>2 DEF EventStream
  <2> QED
    BY <1>2, <2>1, LedKept
<1>6. Progress' = <<Present, NoWord>>
  BY <1>2, <1>5, PresentKept, ProgressPlainNext
<1> QED
  BY <1>2, <1>4, <1>6, InFlightKept, StandsStill

\* A set-up taken in whole: one more row, one more wire.
LEMMA PresentFiled ==
    ASSUME TypeOK, NEW src \in Half, NEW row \in Row,
           table' = add_packet(table, src, row), pins' = SetupPins(pins, row),
           LedAfterEvents' = LedAfterEvents
    PROVE  Present' = Dev!Wire(Present, src, row)
<1> DEFINE new == <<src, Len(find_packet(src)) + 1, row>>
           u == add_packet(table, src, row)
<1>1. Cardinality(Dev!Listeners(Present, src)) = Len(find_packet(src))
  BY ListenersAre, WiresCount
<1>2. Dev!Wire(Present, src, row) =
        [wired |-> Present.wired \cup {new}, outs |-> Present.outs \cup Dev!PinOf(row),
         high |-> Present.high \ Dev!PinOf(row), led |-> Present.led]
  BY <1>1, SameCount DEF Dev!Wire
<1>3. /\ Present.wired =
            UNION {{<<r, i, table[r][i]>> : i \in DOMAIN table[r]} : r \in DOMAIN table}
      /\ Present'.wired = UNION {{<<r, i, u[r][i]>> : i \in DOMAIN u[r]} : r \in DOMAIN u}
  BY DEF Present
<1>4. /\ DOMAIN u = DOMAIN table \cup {src}
      /\ \A r \in DOMAIN table : r # src => u[r] = table[r]
      /\ u[src] = IF src \in DOMAIN table THEN Append(table[src], row) ELSE <<row>>
  BY DEF add_packet
<1>5. /\ DOMAIN u[src] = 1..(Len(find_packet(src)) + 1)
      /\ \A i \in 1..Len(find_packet(src)) : u[src][i] = find_packet(src)[i]
      /\ u[src][Len(find_packet(src)) + 1] = row
  <2>1. CASE src \in DOMAIN table
    <3>1. table[src] \in Seq(Row) /\ find_packet(src) = table[src]
      BY <2>1, RowsOfTable DEF find_packet
    <3>2. u[src] = Append(table[src], row)
      BY <1>4, <2>1
    <3> HIDE DEF u
    <3> QED
      BY <3>1, <3>2, AppendProperties, LenProperties
  <2>2. CASE src \notin DOMAIN table
    <3>1. find_packet(src) = <<>> /\ u[src] = <<row>>
      BY <1>4, <2>2 DEF find_packet
    <3> HIDE DEF u
    <3> QED
      BY <3>1
  <2> QED
    BY <2>1, <2>2
<1>6. \A r \in DOMAIN table : DOMAIN table[r] = 1..Len(table[r]) /\ Len(table[r]) \in Nat
  BY RowsOfTable
<1>7. Len(find_packet(src)) \in Nat
  BY FoundType
<1>8. src \notin DOMAIN table => Len(find_packet(src)) = 0
  BY DEF find_packet
<1>9. src \in DOMAIN table => find_packet(src) = table[src]
  BY DEF find_packet
<1> HIDE DEF u
<1>10. ASSUME NEW x \in Present'.wired PROVE x \in Present.wired \cup {new}
  <2>1. PICK r \in DOMAIN u : \E i \in DOMAIN u[r] : x = <<r, i, u[r][i]>>
    BY <1>3
  <2>2. PICK i \in DOMAIN u[r] : x = <<r, i, u[r][i]>>
    BY <2>1
  <2>3. CASE r # src
    BY <1>3, <1>4, <2>2, <2>3
  <2>4. CASE r = src /\ i = Len(find_packet(src)) + 1
    BY <1>5, <2>2, <2>4
  <2>5. CASE r = src /\ i # Len(find_packet(src)) + 1
    <3>1. i \in 1..Len(find_packet(src))
      BY <1>5, <1>7, <2>2, <2>5
    <3>2. src \in DOMAIN table
      BY <1>8, <3>1
    <3>3. i \in DOMAIN table[src] /\ u[src][i] = table[src][i]
      BY <1>5, <1>6, <1>9, <3>1, <3>2
    <3> QED
      BY <1>3, <2>2, <2>5, <3>2, <3>3
  <2> QED
    BY <2>3, <2>4, <2>5
<1>11. new \in Present'.wired
  <2>1. src \in DOMAIN u /\ Len(find_packet(src)) + 1 \in DOMAIN u[src]
    BY <1>4, <1>5, <1>7
  <2> QED
    BY <1>3, <1>5, <2>1
<1>12. ASSUME NEW x \in Present.wired PROVE x \in Present'.wired
  <2>1. PICK r \in DOMAIN table : \E i \in DOMAIN table[r] : x = <<r, i, table[r][i]>>
    BY <1>3
  <2>2. PICK i \in DOMAIN table[r] : x = <<r, i, table[r][i]>>
    BY <2>1
  <2>3. r \in DOMAIN u /\ i \in DOMAIN u[r] /\ u[r][i] = table[r][i]
    <3>1. CASE r # src
      BY <1>4, <2>2, <3>1
    <3>2. CASE r = src
      <4>1. i \in 1..Len(find_packet(src)) /\ i \in 1..(Len(find_packet(src)) + 1)
        BY <1>6, <1>7, <1>9, <2>2, <3>2
      <4> QED
        BY <1>4, <1>5, <1>9, <3>2, <4>1
    <3> QED
      BY <3>1, <3>2
  <2> QED
    BY <1>3, <2>2, <2>3
<1>13. Present'.wired = Present.wired \cup {new}
  BY <1>10, <1>11, <1>12
<1>14. pins \in [Pins -> [dir : {"in", "out"}, level : BOOLEAN]]
  BY DEF TypeOK
<1>15. \A p \in Pins : pins'[p] = IF row.ty = GPO /\ p = row.io
                                   THEN [dir |-> "out", level |-> FALSE] ELSE pins[p]
  BY <1>14 DEF SetupPins
<1>16. /\ Present.outs = {p \in Pins : pins[p].dir = "out"}
       /\ Present'.outs = {p \in Pins : pins'[p].dir = "out"}
       /\ Present.high = {p \in Pins : pins[p].level}
       /\ Present'.high = {p \in Pins : pins'[p].level}
       /\ Present'.led = Present.led
  BY DEF Present
<1>17. Present'.outs = Present.outs \cup Dev!PinOf(row)
  BY <1>15, <1>16 DEF Dev!PinOf
<1>18. Present'.high = Present.high \ Dev!PinOf(row)
  BY <1>15, <1>16 DEF Dev!PinOf
<1>19. Present' = [wired |-> Present'.wired, outs |-> Present'.outs,
                   high |-> Present'.high, led |-> Present'.led]
  BY DEF Present
<1> QED
  BY <1>2, <1>13, <1>16, <1>17, <1>18, <1>19, Zenon

LEMMA FlushedRef1 ==
    ASSUME RefinementInv, TypeOK', Ref1
    PROVE  Flushed' = Flushed
<1> DEFINE w == Head(fifo01)
<1>1. TypeOK /\ pc1 = "ref" /\ fifo01 # <<>> /\ op1 \in Word
  BY DEF RefinementInv, RestoreInv, RowsInv, Ref1, TypeOK
<1>2. op1 # NoWord
  <2>1. decode_hwel(op1).operation = SetupOp
    BY <1>1 DEF RefinementInv, RestoreInv, RowsInv, GenuineSource
  <2> QED
    BY <1>1, <2>1, FirstIsNoBlank
<1>3. w \in Word /\ InFlight = <<w>> \o InFlight'
  BY <1>1, FlightTaken DEF Ref1, AddOutput, core0
<1> HIDE DEF w
<1>4. Progress = <<Present, op1>>
  BY <1>1 DEF Progress
<1>5. Absorb(Progress, w) = <<Dev!Wire(Present, decode_hwrf(w), RowOf(op1)), NoWord>>
  BY <1>2, <1>4 DEF Absorb
<1>6. LedAfterEvents' = LedAfterEvents
  <2>1. EventStream' = EventStream /\ UNCHANGED led
    BY DEF Ref1, AddOutput, EventStream, core0
  <2> QED
    BY <2>1, LedKept
<1>7. Present' = Dev!Wire(Present, decode_hwrf(w), RowOf(op1))
  <2>1. decode_hwrf(w) \in Half /\ RowOf(op1) \in Row
    BY <1>1, <1>3, DecodeType, RowOfType
  <2>2. /\ table' = add_packet(table, decode_hwrf(w), RowOf(op1))
        /\ pins' = SetupPins(pins, RowOf(op1))
    BY DEF Ref1, AddOutput, w
  <2> QED
    BY <1>1, <1>6, <2>1, <2>2, PresentFiled
<1>8. Progress' = <<Present', NoWord>>
  BY ProgressPlainNext DEF Ref1, AddOutput
<1> QED
  BY <1>1, <1>3, <1>5, <1>7, <1>8, TakesWord

LEMMA FlushedPop1 ==
    ASSUME RefinementInv, TypeOK', Pop1
    PROVE  Flushed' = Flushed
<1> DEFINE w == Head(fifo01)
           op == decode_hwel(w)
<1>1. /\ TypeOK /\ RowsInv /\ NoCleanUp /\ next1 = 0 /\ pc1 = "pop" /\ fifo01 # <<>>
      /\ fifo01' = Tail(fifo01)
      /\ UNCHANGED <<todo0, out0, tag0, next1, out1, fifo10, led>>
  BY DEF RefinementInv, RestoreInv, RowsInv, InLoop, Pop1, SetupOutput1, SetupOther1, Clean1,
         Action1, Ignored1, Popped, core0
<1>2. w \in Word /\ InFlight = <<w>> \o InFlight'
  BY <1>1, FlightTaken
<1>3. Progress = <<Present, NoWord>>
  BY <1>1, ProgressPlain
<1>4. LedAfterEvents' = LedAfterEvents
  <2>1. EventStream' = EventStream
    BY <1>1 DEF EventStream
  <2> QED
    BY <1>1, <2>1, LedKept
<1>5. 1 \in 1..Len(WordStream) /\ WordStream[1] = w
  BY <1>1, FirstOfStream
<1>6. Progress' = Absorb(Progress, w)
  <2>1. CASE SetupOutput1(w)
    <3>1. op.operation = SetupOp /\ pc1' = "ref" /\ op1' = w /\ UNCHANGED <<table, pins>>
      BY <2>1 DEF SetupOutput1
    <3>2. Progress' = <<Present', w>>
      BY <3>1 DEF Progress
    <3> QED
      BY <1>3, <1>4, <3>1, <3>2, AbsorbPlain, PresentKept
  <2>2. CASE SetupOther1(w)
    <3>1. op.operation = SetupOp /\ op.control_type \notin Outputs
      BY <2>2 DEF SetupOther1
    <3>2. PICK m \in ConfiguredItems : w = OpWord(SetupOp, m.ty, m.id, m.io)
      BY <1>1, <1>5, <3>1 DEF RowsInv, SetupsPaired
    <3>3. op.control_type \in Outputs
      BY <3>2, SetupDecoded, SetupFields
    <3> QED
      BY <3>1, <3>3
  <2>3. CASE Clean1(w)
    BY <1>1, <1>5, <2>3 DEF Clean1, NoCleanUp
  <2>4. CASE Action1(w)
    <3>1. op.operation = ActionOp /\ pc1' = "drive" /\ op1' = w /\ UNCHANGED <<table, pins>>
      BY <2>4 DEF Action1
    <3>2. Progress' = <<Dev!Switch(Present', RowsFrom(op.id, 0), op.value), NoWord>>
      BY <1>1, <3>1, ProgressDriveNext
    <3>3. RowsFrom(op.id, 0) = {t[3] : t \in Dev!Listeners(Present, op.id)}
      <4> DEFINE s == op.id
                 f == find_packet(s)
      <4> HIDE DEF s
      <4>1. 0 + 1 = 1
        OBVIOUS
      <4>2. RowsFrom(s, 0) = {f[i] : i \in 1..Len(f)}
        BY <4>1 DEF RowsFrom
      <4>3. Wires(s) = {<<s, i, f[i]>> : i \in 1..Len(f)}
        BY DEF Wires
      <4> HIDE DEF f
      <4>4. {t[3] : t \in Wires(s)} = {f[i] : i \in 1..Len(f)}
        <5>1. \A t \in Wires(s) : \E i \in 1..Len(f) : t[3] = f[i]
          BY <4>3
        <5>2. \A i \in 1..Len(f) : <<s, i, f[i]>> \in Wires(s) /\ <<s, i, f[i]>>[3] = f[i]
          BY <4>3
        <5>3. \A i \in 1..Len(f) : \E t \in Wires(s) : t[3] = f[i]
          BY <5>2
        <5> QED
          BY <5>1, <5>3
      <4>5. Dev!Listeners(Present, s) = Wires(s)
        BY <1>1, ListenersAre
      <4> QED
        BY <4>2, <4>4, <4>5 DEF s
    <3>4. Absorb(<<Present, NoWord>>, w) =
            <<Dev!Switch(Present, {t[3] : t \in Dev!Listeners(Present, op.id)}, op.value), NoWord>>
      BY <3>1, AbsorbPlain
    <3>5. Present' = Present
      BY <1>4, <3>1, PresentKept
    <3> QED
      BY <1>3, <3>2, <3>3, <3>4, <3>5, Zenon
  <2>5. CASE Ignored1(w)
    <3>1. op.operation \notin {SetupOp, ActionOp} /\ pc1' = "coretm" /\ UNCHANGED <<table, pins>>
      BY <2>5 DEF Ignored1
    <3>2. Progress' = <<Present', NoWord>>
      BY <3>1, ProgressPlainNext
    <3> QED
      BY <1>3, <1>4, <3>1, <3>2, AbsorbPlain, PresentKept
  <2> QED
    BY <2>1, <2>2, <2>3, <2>4, <2>5 DEF Pop1
<1> QED
  BY <1>1, <1>2, <1>6, TakesWord

\* With core 0 never late, the second word of a set-up is there.
LEMMA NoRefTimeout ==
    ASSUME RefinementInv, LateRef = FALSE
    PROVE  ~RefTimeout1
<1> SUFFICES ASSUME RefTimeout1 PROVE FALSE
  OBVIOUS
<1>1. RowsInv /\ pc1 = "ref" /\ fifo01 = <<>> /\ out0 = <<>>
  BY DEF RefinementInv, RestoreInv, RefTimeout1
<1> QED
  BY <1>1, HeldIsConfigured

LEMMA FlushedCore1 ==
    ASSUME RefinementInv, TypeOK', LateRef = FALSE, Core1
    PROVE  Flushed' = Flushed
BY FlushedReports, FlushedPop1, FlushedRef1, NoRefTimeout, FlushedDrive1, FlushedEndDrive1
   DEF Core1

-----------------------------------------------------------------------------
(* A callback is the abstract step. *)

LEMMA AbsorbOpens ==
    ASSUME NEW at \in Progresses, NEW w \in Word
    PROVE  \/ Absorb(at, w)[2] = NoWord
           \/ Absorb(at, w)[2] = w /\ decode_hwel(w).operation = SetupOp
<1> DEFINE d == at[1]
           first == at[2]
           op == decode_hwel(w)
           wired == <<Dev!Wire(d, decode_hwrf(w), RowOf(first)), NoWord>>
           switched == <<Dev!Switch(d, {t[3] : t \in Dev!Listeners(d, op.id)}, op.value), NoWord>>
<1>1. Absorb(at, w) =
        CASE first # NoWord -> wired
          [] first = NoWord /\ op.operation = SetupOp -> <<d, w>>
          [] first = NoWord /\ op.operation = ActionOp -> switched
          [] OTHER -> at
  BY DEF Absorb
<1>2. wired[2] = NoWord /\ switched[2] = NoWord
  OBVIOUS
<1>3. <<d, w>>[2] = w
  OBVIOUS
<1> HIDE DEF wired, switched, d
<1>4. CASE first # NoWord
  <2>1. Absorb(at, w) = wired
    BY <1>1, <1>4
  <2> QED
    BY <1>2, <2>1
<1>5. CASE first = NoWord /\ op.operation = SetupOp
  <2>1. Absorb(at, w) = <<d, w>>
    BY <1>1, <1>5 DEF SetupOp, ActionOp
  <2> QED
    BY <1>3, <1>5, <2>1
<1>6. CASE first = NoWord /\ op.operation = ActionOp
  <2>1. Absorb(at, w) = switched
    BY <1>1, <1>6 DEF SetupOp, ActionOp
  <2> QED
    BY <1>2, <2>1
<1>7. CASE first = NoWord /\ op.operation # SetupOp /\ op.operation # ActionOp
  <2>1. Absorb(at, w) = at
    BY <1>1, <1>7
  <2> QED
    BY <1>7, <2>1
<1> QED
  BY <1>4, <1>5, <1>6, <1>7

\* While no callback runs, the stream ends between two messages.
LEMMA StreamWhole ==
    ASSUME RowsInv, out0 = <<>>, NEW b, Absorbed(Progress, fifo01, b)
    PROVE  b[2] = NoWord
<1> DEFINE ws == fifo01
           n == Len(ws)
           h == Len(Held)
           us == WordStream
<1>1. Progress \in Progresses /\ ws \in Seq(Word) /\ n \in Nat
  BY ProgressType, WordTypes DEF RowsInv
<1>2. PICK t \in [0..n -> Progresses] : Trace(t, Progress, ws)
  BY <1>1, TraceExists
<1>3. b = t[n]
  BY <1>1, <1>2, TraceEnds DEF Absorbed
<1>4. us = Held \o ws /\ us \in Seq(Word) /\ Held \in Seq(Word)
  <2>1. Held \in Seq(Word) /\ us \in Seq(Word) /\ us = Held \o (ws \o out0)
    BY WordTypes, StreamGrouped DEF RowsInv
  <2>2. ws \o out0 = ws
    BY <1>1, ConcatEmptySeq
  <2> QED
    BY <2>1, <2>2
<1>5. /\ h \in Nat /\ Len(us) = h + n
      /\ \A k \in 1..n : us[h + k] = ws[k]
      /\ \A k \in 1..h : us[k] = Held[k]
  <2> HIDE DEF ws, us
  <2> QED
    BY <1>1, <1>4, ConcatProperties
<1>6. pc1 = "ref" => h = 1 /\ Held[1] = op1
  BY DEF Held
<1> HIDE DEF ws, n, h, us
<1> DEFINE Open(k) ==
        t[k][2] # NoWord =>
            /\ h + k \in 1..Len(us) /\ us[h + k] = t[k][2]
            /\ decode_hwel(t[k][2]).operation = SetupOp
           S == {k \in Nat : k <= n => Open(k)}
<1>7. 0 \in S
  <2> SUFFICES ASSUME t[0][2] # NoWord PROVE Open(0)
    OBVIOUS
  <2>1. t[0] = Progress
    BY <1>2 DEF Trace
  <2>2. pc1 = "ref" /\ t[0][2] = op1
    BY <2>1 DEF Progress
  <2>3. decode_hwel(op1).operation = SetupOp
    BY <2>2 DEF RowsInv, GenuineSource
  <2>4. h + 0 = 1 /\ 1 \in 1..Len(us) /\ 1 \in 1..h
    BY <1>1, <1>5, <1>6, <2>2
  <2>5. us[1] = op1
    BY <1>5, <1>6, <2>2, <2>4
  <2> QED
    BY <2>2, <2>3, <2>4, <2>5
<1>8. ASSUME NEW k \in S PROVE k + 1 \in S
  <2> SUFFICES ASSUME k + 1 <= n PROVE Open(k + 1)
    OBVIOUS
  <2>1. k \in Nat /\ k + 1 \in 1..n /\ (k + 1) - 1 = k /\ k \in 0..n
    BY <1>1
  <2>2. t[k + 1] = Absorb(t[k], ws[k + 1]) /\ t[k] \in Progresses
    BY <1>2, <2>1 DEF Trace, n
  <2>3. ws[k + 1] \in Word
    BY <1>1, <2>1 DEF n
  <2>4. \/ t[k + 1][2] = NoWord
        \/ t[k + 1][2] = ws[k + 1] /\ decode_hwel(ws[k + 1]).operation = SetupOp
    BY <2>2, <2>3, AbsorbOpens
  <2>5. h + (k + 1) \in 1..Len(us) /\ us[h + (k + 1)] = ws[k + 1]
    BY <1>1, <1>5, <2>1
  <2> QED
    BY <2>4, <2>5
<1>9. S = Nat
  <2>1. S \in SUBSET Nat
    OBVIOUS
  <2> HIDE DEF S
  <2> QED
    BY <1>7, <1>8, <2>1, SetInduction
<1>10. n \in S /\ n <= n
  <2>1. n <= n
    BY <1>1
  <2> HIDE DEF S
  <2> QED
    BY <1>1, <1>9, <2>1
<1>11. ASSUME t[n][2] # NoWord PROVE FALSE
  <2>1. h + n \in 1..Len(us) /\ decode_hwel(us[h + n]).operation = SetupOp
    BY <1>10, <1>11
  <2>2. h + n < Len(us)
    BY <2>1 DEF RowsInv, SetupsPaired, us
  <2> QED
    BY <1>1, <1>5, <2>2
<1> QED
  BY <1>3, <1>11

LEMMA NoLists == FlattenSeq(WordLists(<<>>)) = <<>>
<1>1. <<>> \in Seq(SetupItem \cup CommandItem) /\ Len(<<>>) = 0
  OBVIOUS
<1>2. WordLists(<<>>) \in Seq(Seq(Word)) /\ Len(WordLists(<<>>)) = 0
  BY <1>1, WordListsType
<1>3. WordLists(<<>>) = <<>>
  <2> HIDE DEF WordLists
  <2> QED
    BY <1>2, EmptySeq
<1> QED
  BY <1>2, <1>3 DEF FlattenSeq

LEMMA ObeyAllIs ==
    ASSUME NEW msgs, Flushed' \in ObeysAll(Flushed, msgs)
    PROVE  P!ObeyAll(msgs)
BY DEF P!ObeyAll, ObeysAll, P!FoldLeft, FoldLeft, P!MapThenFoldSet, MapThenFoldSet, P!Max, Max

LEMMA CallbackObeyed ==
    ASSUME TidyInputs, RefinementInv, NEW msgs \in Seq(Tidy), StartCallback(msgs)
    PROVE  P!ObeyAll(msgs)
<1>1. /\ TypeOK /\ RowsInv /\ todo0 = <<>> /\ out0 = <<>> /\ todo0' = msgs
      /\ UNCHANGED <<out0, tag0, fifo01, fifo10, pc1, op1, next1, out1, table, pins, led>>
  BY DEF RefinementInv, RestoreInv, RowsInv, StartCallback, Idle0, core1, fifos, hw
<1>2. fifo01 \in Seq(Word) /\ Progress \in Progresses /\ fifo01 \o <<>> = fifo01
  BY <1>1, InFlightTypes, ProgressType, ConcatEmptySeq
<1>3. InFlight = fifo01
  BY <1>1, <1>2, InFlightIs, NoLists
<1>4. InFlight' = fifo01 \o FlattenSeq(WordLists(msgs))
  BY <1>1, <1>2, InFlightIsNext
<1>5. Progress' = Progress
  <2>1. EventStream' = EventStream
    BY <1>1 DEF EventStream
  <2> QED
    BY <1>1, <2>1, LedKept, ProgressKept
<1>6. PICK b \in Progresses : Absorbed(Progress, fifo01, b)
  BY <1>2, AbsorbedTotal
<1>7. b[2] = NoWord
  BY <1>1, <1>6, StreamWhole
<1>8. b[1] \in Devices /\ b = <<b[1], NoWord>>
  BY <1>6, <1>7 DEF Progresses
<1>9. Flushed = b[1]
  BY <1>3, <1>6, FlushedIs
<1>10. PICK e \in Devices : CallbackMakes(b[1], msgs, e)
  BY <1>8, CallbackAbsorbed
<1>11. ObeysAll(b[1], msgs) = {e} /\ Absorbed(b, FlattenSeq(WordLists(msgs)), <<e, NoWord>>)
  BY <1>8, <1>10 DEF CallbackMakes
<1>12. FlattenSeq(WordLists(msgs)) \in Seq(Word)
  <2>1. msgs \in Seq(SetupItem \cup CommandItem)
    BY TidyItems, SeqMonotonic
  <2> QED
    BY <2>1, WordListsType, FlattenType
<1>13. Absorbed(Progress, fifo01 \o FlattenSeq(WordLists(msgs)), <<e, NoWord>>)
  BY <1>2, <1>6, <1>11, <1>12, AbsorbedJoin
<1>14. Absorbed(Progress', InFlight', <<e, NoWord>>)
  BY <1>4, <1>5, <1>13
<1>15. Flushed' = e
  BY <1>14, FlushedIsNext
<1> QED
  BY <1>9, <1>11, <1>15, ObeyAllIs

LEMMA ConfigIsTidy == ASSUME NEW c \in Configs PROVE c \in Seq(Tidy)
<1>1. c \in Seq(SetupItem)
  BY ConfigsAssumption
<1>2. \A i \in 1..Len(c) : c[i] \in Tidy
  <2> TAKE i \in 1..Len(c)
  <2>1. TidyMessage(c[i])
    BY ConfiguredMessages
  <2>2. c[i] \in ConfiguredItems
    <3>1. i \in DOMAIN c
      BY <1>1
    <3> QED
      BY <3>1 DEF ConfiguredItems
  <2> QED
    BY <2>1, <2>2 DEF Tidy
<1> QED
  BY <1>1, <1>2, IsASeq, LenProperties

LEMMA PacketIsTidy == ASSUME TidyInputs, NEW p \in Packets PROVE p \in Seq(Tidy)
<1>1. p \in Seq(CommandItem)
  BY PacketsAssumption
<1>2. \A i \in 1..Len(p) : p[i] \in Tidy
  <2> TAKE i \in 1..Len(p)
  <2>1. TidyMessage(p[i])
    BY CommandMessages
  <2>2. p[i] \in CommandItem
    BY <1>1
  <2> QED
    BY <2>1, <2>2 DEF Tidy
<1> QED
  BY <1>1, <1>2, IsASeq, LenProperties

LEMMA NetworkRefines ==
    ASSUME TidyInputs, RefinementInv, Network
    PROVE  P!Next
<1>1. CASE Upgrade0
  <2>1. stored \in Seq(Tidy)
    <3>1. <<>> \in Seq(Tidy)
      OBVIOUS
    <3>2. stored = <<>> \/ stored \in Configs
      BY DEF RefinementInv, RestoreInv, RowsInv, GenuineSource
    <3> QED
      BY <3>1, <3>2, ConfigIsTidy
  <2> QED
    BY <1>1, <2>1, CallbackObeyed DEF Upgrade0, P!Next, P!Connect
<1>2. CASE Save0
  <2>1. PICK c \in Configs : StartCallback(c) /\ stored' = c
    BY <1>2 DEF Save0
  <2>2. P!ObeyAll(c)
    BY <2>1, ConfigIsTidy, CallbackObeyed
  <2> QED
    BY <2>1, <2>2 DEF P!Next, P!Save
<1>3. CASE Command0
  <2>1. PICK p \in Packets : StartCallback(p) /\ UNCHANGED stored
    BY <1>3 DEF Command0
  <2>2. P!ObeyAll(p)
    BY <2>1, PacketIsTidy, CallbackObeyed
  <2> QED
    BY <2>1, <2>2 DEF P!Next, P!Command
<1> QED
  BY <1>1, <1>2, <1>3 DEF Network

LEMMA BootedIsBlank == Booted => Flushed = P!Blank
<1> SUFFICES ASSUME Booted PROVE Flushed = P!Blank
  OBVIOUS
<1>1. /\ pc1 = "uptime" /\ table = EmptyTable /\ pins = IdlePins /\ led = FALSE
      /\ fifo01 = <<>> /\ out0 = <<>> /\ todo0 = <<>> /\ EventStream = <<>>
  BY DEF Booted, EventStream
<1>2. Present = P!Blank
  <2>1. LedPlaces(<<>>) = {}
    BY DEF LedPlaces
  <2>2. LedAfterEvents = FALSE
    BY <1>1, <2>1, LedIs DEF LedOf
  <2>3. Present.wired = {}
    BY <1>1 DEF Present, EmptyTable
  <2>4. Present.outs = {} /\ Present.high = {}
    BY <1>1 DEF Present, IdlePins
  <2>5. Present = [wired |-> Present.wired, outs |-> Present.outs,
                   high |-> Present.high, led |-> LedAfterEvents]
    BY DEF Present
  <2> QED
    BY <2>2, <2>3, <2>4, <2>5 DEF P!Blank
<1>3. Present \in Devices
  <2>1. \A s \in Half : Dev!Listeners(Present, s) = {}
    BY <1>2 DEF P!Blank, Dev!Listeners
  <2> QED
    BY <1>2, <2>1, FS_EmptySet DEF P!Blank, Devices
<1>4. Progress = <<Present, NoWord>> /\ Progress \in Progresses
  BY <1>1, <1>3, ProgressPlain, NoWordType DEF Progresses
<1>5. InFlight = <<>>
  BY <1>1, InFlightIs, NoLists
<1>6. Absorbed(Progress, InFlight, Progress)
  BY <1>4, <1>5, AbsorbedNone
<1> QED
  BY <1>2, <1>4, <1>6, FlushedIs

LEMMA RebootRefines == ASSUME Reboot PROVE P!Next
<1>1. Booted'
  BY DEF Reboot, Booted
<1>2. (Booted => Flushed = P!Blank)'
  BY BootedIsBlank, PTL
<1>3. Flushed' = P!Blank
  BY <1>1, <1>2
<1> QED
  BY <1>3 DEF Reboot, P!Next, P!Restart

LEMMA LoopStep ==
    ASSUME TypeOK, InLoop, [Next]_vars
    PROVE  InLoop'
<1>1. CASE Network \/ Core0 \/ UNCHANGED vars
  BY <1>1 DEF InLoop, Network, Upgrade0, Save0, Command0, StartCallback, Core0, Marshal0, Push0,
     EndPoll0, PopTag0, PopTimeout0, PopValue0, core1, vars
<1>2. CASE Core1
  BY <1>2 DEF InLoop, Core1, Push1, Uptime1, CoreTemp1, Pop1, SetupOutput1, SetupOther1, Clean1,
     Action1, Ignored1, Popped, PopTimeout1, Ref1, RefTimeout1, AddOutput, Drive1, EndDrive1
<1>3. CASE Reboot
  BY <1>3 DEF InLoop, Reboot
<1> QED
  BY <1>1, <1>2, <1>3 DEF Next

LEMMA RefinementStep ==
    ASSUME TidyInputs, LateRef = FALSE, RefinementInv, TypeOK', [Next]_vars
    PROVE  [P!Next]_P!vars
<1>1. CASE Network
  BY <1>1, NetworkRefines
<1>2. CASE Core0
  <2>1. UNCHANGED stored
    BY <1>2 DEF Core0, Marshal0, Push0, EndPoll0, PopTag0, PopTimeout0, PopValue0
  <2> QED
    BY <1>2, <2>1, FlushedCore0 DEF P!vars
<1>3. CASE Core1
  <2>1. UNCHANGED stored
    BY <1>3 DEF Core1, Push1, Uptime1, CoreTemp1, Pop1, SetupOutput1, SetupOther1, Clean1,
       Action1, Ignored1, Popped, PopTimeout1, Ref1, RefTimeout1, AddOutput, Drive1, EndDrive1
  <2> QED
    BY <1>3, <2>1, FlushedCore1 DEF P!vars
<1>4. CASE Reboot
  BY <1>4, RebootRefines
<1>5. CASE UNCHANGED vars
  <2>1. UNCHANGED <<stored, tag0, fifo01, fifo10, out0, out1, todo0, pc1, op1, next1, table,
                    pins, led>>
    BY <1>5 DEF vars, core0, core1, fifos, hw
  <2>2. EventStream' = EventStream
    BY <2>1 DEF EventStream
  <2>3. Progress' = Progress /\ InFlight' = InFlight
    BY <2>1, <2>2, LedKept, ProgressKept, InFlightKept
  <2> QED
    BY <2>1, <2>3, StandsStill DEF P!vars
<1> QED
  BY <1>1, <1>2, <1>3, <1>4, <1>5 DEF Next

\* However the two cores interleave and whenever the power is cut, the controller
\* does what a single core without FIFOs would: with one-byte commands, source ids
\* under 16384 and a core 0 that is never later than 1 ms with a second set-up word
\* (config.c:367-416, websockets.c:271-291, hwman.c:151-277, main.c:82-110).
THEOREM PanelIsRefined == TidyInputs /\ LateRef = FALSE /\ Spec => PanelRefinement
<1> SUFFICES ASSUME TidyInputs, LateRef = FALSE PROVE Spec => PanelRefinement
  OBVIOUS
<1>1. Init => P!Init
  BY BootedIsBlank DEF Init, P!Init
<1>2. Init => EventsFramed /\ InLoop
  BY FramedInit DEF Init, Booted, InLoop
<1>3. TypeOK /\ EventsFramed /\ InLoop /\ [Next]_vars => (EventsFramed /\ InLoop)'
  BY FramedStep, LoopStep
<1>4. TypeOK' /\ RestoreInv /\ EventsFramed /\ InLoop /\ [Next]_vars => [P!Next]_P!vars
  BY RefinementStep DEF RefinementInv
<1> QED
  BY <1>1, <1>2, <1>3, <1>4, TypeCorrect, RestoreInvariant, PTL
     DEF Spec, PanelRefinement, P!Spec
=============================================================================

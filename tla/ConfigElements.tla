--------------------------- MODULE ConfigElements ---------------------------
(***************************************************************************)
(* The configuration in flash, byte by byte: the iterator over its         *)
(* messages (config_iterator.c) and the update of one message in place     *)
(* (update_config(), and update_secrets() on the other region).            *)
(*                                                                         *)
(* An image is a packet: its type, two bytes of payload length, and the    *)
(* messages.  A message is a type, a reserved byte, two bytes of element   *)
(* id, one byte of payload length, and the payload, whose first byte is    *)
(* the field number.  Offsets count from 0 as in the code, so byte k of a  *)
(* buffer b is b[k + 1].                                                   *)
(***************************************************************************)
EXTENDS Integers, Sequences

CONSTANTS
    Stores,      \* payloads of images: in flash at the start, or saved
    Updates,     \* payloads of the update packets
    Leftovers,   \* what an iterator that was not initialised may stand on
    FlashSize,   \* bytes of the region
    MaxUpdates   \* bound: update packets handled

Byte == 0..255
MaxImage == 65538  \* the longest image two length bytes can tell
Header(n) == <<10, n \div 256, n % 256>>

MaxId == 65535     \* and the largest element id

\* What a message is found by: its type, its id and its first payload byte.
Sought == [type : Byte, id : 0..MaxId, field : Byte]

ASSUME StoresAssumption ==
    Stores \subseteq {s \in Seq(Byte) : Len(s) + 3 <= FlashSize}
ASSUME UpdatesAssumption == Updates \subseteq Seq(Byte)
ASSUME LeftoversAssumption == Leftovers \subseteq Sought
ASSUME FlashSizeAssumption == FlashSize \in 3..MaxImage
ASSUME MaxUpdatesAssumption == MaxUpdates \in Nat

VARIABLES
    flash,   \* the image in flash
    before,  \* the image when the current update was called
    new,     \* payload of the current update packet
    itr,     \* iterator over the image's messages
    want,    \* what the update is compared by: its first message, as new_itr has it
    pc,      \* "idle", "scan", "done", or "fault" once a stray pointer was followed
    calls    \* updates called

vars == <<flash, before, new, itr, want, pc, calls>>

-----------------------------------------------------------------------------
(* config_iterator.c *)

config_element_iterator_init == [type |-> 0, id |-> 0, len |-> 0, pay |-> 0, pos |-> 0]

\* Mutant: only the header has to fit.
cei_has_next_HeaderFits(b, pos) == pos + 5 <= Len(b)

cei_has_next(b, pos) ==
    /\ pos + 5 <= Len(b)
    /\ pos + 5 + b[pos + 5] <= Len(b)

\* Mutant: the length of the header is left out.
cei_next_NoHeader(b, it) ==
    [type |-> b[it.pos + 1],
     id   |-> b[it.pos + 3] * 256 + b[it.pos + 4],
     len  |-> b[it.pos + 5],
     pay  |-> it.pos + 5,
     pos  |-> it.pos + b[it.pos + 5]]

\* The message at pos; pay is the offset of its payload.
cei_next(b, it) ==
    [type |-> b[it.pos + 1],
     id   |-> b[it.pos + 3] * 256 + b[it.pos + 4],
     len  |-> b[it.pos + 5],
     pay  |-> it.pos + 5,
     pos  |-> it.pos + 5 + b[it.pos + 5]]

-----------------------------------------------------------------------------
(* update_config(), update_secrets() *)

\* The header's length, and the messages behind it.
data_length == flash[2] * 256 + flash[3]
Data(image) == SubSeq(image, 4, 3 + image[2] * 256 + image[3])

NoField == [type |-> 0, id |-> 0, field |-> 0]

Init ==
    /\ \E s \in Stores : flash = Header(Len(s)) \o s
    /\ before = flash
    /\ new = <<>>
    /\ itr = config_element_iterator_init
    /\ want = NoField
    /\ pc = "idle"
    /\ calls = 0

\* No update is running, and none has followed a stray pointer.
Ready == pc \in {"idle", "done"}

\* Bound: assem_buf has no check, so an update that could outgrow it is not made.
Updatable(u) == calls < MaxUpdates /\ Len(flash) + Len(u) <= FlashSize

\* What new_itr holds for the scan.  Its pay[0] lies behind an update whose message
\* has no payload; an update without a whole message leaves it uninitialised.
FirstMessage(u, behind) ==
    IF cei_has_next(u, 0)
      THEN LET m == cei_next(u, config_element_iterator_init)
           IN  {[type |-> m.type, id |-> m.id,
                 field |-> IF m.pay < Len(u) THEN u[m.pay + 1] ELSE behind]}
      ELSE Leftovers

\* The byte behind the update in its buffer may be any.
update_config(u, behind) ==
    /\ Ready /\ Updatable(u)
    /\ calls' = calls + 1
    /\ new' = u
    /\ want' \in FirstMessage(u, behind)
    /\ itr' = config_element_iterator_init
    /\ before' = flash
    /\ pc' = "scan"
    /\ UNCHANGED flash

\* write_config(): an image takes the place of what was stored.
apply_config(s) ==
    /\ Ready
    /\ flash' = Header(Len(s)) \o s
    /\ before' = flash'
    /\ new' = <<>>
    /\ itr' = config_element_iterator_init
    /\ want' = NoField
    /\ pc' = "idle"
    /\ UNCHANGED calls

Call == \E u \in Updates, behind \in Byte : update_config(u, behind)
Save == \E s \in Stores : apply_config(s)

\* pay[0]: of a message without payload, the byte that follows it; behind the image
\* lies an uninitialised buffer.
FieldsOf(b, it) == IF it.pay < Len(b) THEN {b[it.pay + 1]} ELSE Byte

\* Mutant: the first payload bytes are not compared.
Matches_AnyField(it) == {it.type = want.type /\ it.id = want.id}

\* The outcomes of comparing a message's type, id and first payload byte with the update's.
Matches(it) ==
    IF it.type = want.type /\ it.id = want.id
      THEN {f = want.field : f \in FieldsOf(Data(flash), it)}
      ELSE {FALSE}

\* Mutant: the upper byte of the length is left out.
Sized_OneByte(image) == [image EXCEPT ![2] = 0, ![3] = Len(image) - 3]

\* The length in the header is that of the messages.
Sized(image) ==
    LET n == Len(image) - 3
    IN  [image EXCEPT ![2] = (n \div 256) % 256, ![3] = n % 256]

\* Mutant: the tail starts one byte late.
Assembled_ShortTail(it) ==
    Sized(SubSeq(flash, 1, it.pos + 3 - it.len - 5) \o new
        \o SubSeq(flash, it.pos + 5, data_length + 3))

\* The image with the message just read replaced by the packet's messages.
Assembled(it) ==
    Sized(SubSeq(flash, 1, it.pos + 3 - it.len - 5) \o new
        \o SubSeq(flash, it.pos + 4, data_length + 3))

\* One turn of the loop over the image's messages.
Skip ==
    /\ pc = "scan" /\ cei_has_next(Data(flash), itr.pos)
    /\ itr' = cei_next(Data(flash), itr)
    /\ FALSE \in Matches(itr')
    /\ UNCHANGED <<flash, before, new, want, pc, calls>>

Replace ==
    /\ pc = "scan" /\ cei_has_next(Data(flash), itr.pos)
    /\ itr' = cei_next(Data(flash), itr)
    /\ TRUE \in Matches(itr')
    /\ flash' = Assembled(itr')
    /\ pc' = "done"
    /\ UNCHANGED <<before, new, want, calls>>

\* No message matches: nothing is written.
EndOfImage ==
    /\ pc = "scan" /\ ~cei_has_next(Data(flash), itr.pos)
    /\ pc' = "done"
    /\ UNCHANGED <<flash, before, new, itr, want, calls>>

\* The pay of an iterator that was not initialised may point where nothing can be read.
Fault ==
    /\ pc = "scan" /\ cei_has_next(Data(flash), itr.pos) /\ ~cei_has_next(new, 0)
    /\ itr' = cei_next(Data(flash), itr)
    /\ itr'.type = want.type /\ itr'.id = want.id
    /\ pc' = "fault"
    /\ UNCHANGED <<flash, before, new, want, calls>>

Update == Skip \/ Replace \/ EndOfImage \/ Fault
Next == Call \/ Save \/ Update

Spec == Init /\ [][Next]_vars

\* The callback that updates runs on.
LiveSpec == Spec /\ WF_vars(Update)

-----------------------------------------------------------------------------
(* Properties. *)

\* Where the message at p ends, and whether all of it is there.
End(b, p) == p + 5 + b[p + 5]
Whole(b, p) == p + 4 < Len(b) /\ End(b, p) - 1 < Len(b)

\* The whole messages of a payload, up to the first that is cut short.
MessagesFrom(b) ==
    LET from[p \in 0..Len(b)] ==
            IF Whole(b, p) THEN <<SubSeq(b, p + 1, End(b, p))>> \o from[End(b, p)] ELSE <<>>
    IN  from
Messages(b) == MessagesFrom(b)[0]

\* The bytes at the end that are part of no whole message.
RemainderFrom(b) ==
    LET from[p \in 0..Len(b)] ==
            IF Whole(b, p) THEN from[End(b, p)] ELSE SubSeq(b, p + 1, Len(b))
    IN  from
Remainder(b) == RemainderFrom(b)[0]

\* A message's type, id and field; the field of a message without payload is none.
Key(m) == <<m[1], m[3], m[4], IF Len(m) > 5 THEN m[6] ELSE -1>>

\* An update of one field.
OneMessage(u) == u \in Seq(Byte) /\ Whole(u, 0) /\ End(u, 0) = Len(u) /\ Len(u) > 5

\* A message of the type and id of another.
SameElement(m, u) == m[1] = u[1] /\ m[3] = u[3] /\ m[4] = u[4]

\* Each message of the type and id an update is for tells a field.  Of one without
\* payload, the code compares what lies behind it.
FieldsTold ==
    \A i \in DOMAIN Messages(Data(before)) :
        SameElement(Messages(Data(before))[i], new) => Len(Messages(Data(before))[i]) > 5

TypeOK ==
    /\ flash \in Seq(Byte) /\ before \in Seq(Byte) /\ new \in Seq(Byte)
    /\ Len(flash) \in 3..FlashSize
    /\ itr.pos \in Nat /\ itr.len \in Byte /\ itr.pay \in Nat
    /\ want \in Sought
    /\ pc \in {"idle", "scan", "done", "fault"}
    /\ calls \in 0..MaxUpdates

\* The iterator never passes the end of the messages, wherever it stands in an
\* image that updates have made longer and shorter (config_iterator.c:40-72).
IteratorInside == itr.pos <= Len(Data(before)) /\ data_length + 3 = Len(flash)

\* What an update of one field leaves behind is the old sequence of messages with the
\* first one of the same type, id and field replaced, in its place, every other
\* message untouched; without such a message, the old sequence (config.c:177-198).
UpdateExact ==
    pc = "done" /\ OneMessage(new) /\ FieldsTold =>
        LET old  == Messages(Data(before))
            hits == {i \in DOMAIN old : Key(old[i]) = Key(new)}
        IN  Messages(Data(flash)) =
                IF hits = {} THEN old
                ELSE LET i == CHOOSE i \in hits : \A j \in hits : i <= j
                     IN  SubSeq(old, 1, i - 1) \o <<new>> \o SubSeq(old, i + 1, Len(old))

\* No update of one field leaves part of a message behind, or loses a byte of one:
\* what a save that was cut short left at the end of the image stays what it was
\* (config.c:185-192).
WholeMessages == OneMessage(new) => Remainder(Data(flash)) = Remainder(Data(before))

\* The loop of an update ends, on messages without payload too.
UpdateEnds == pc = "scan" ~> pc # "scan"
=============================================================================

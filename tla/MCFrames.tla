------------------------------ MODULE MCFrames ------------------------------
(* A small instance of Frames for TLC. *)
EXTENDS Frames

\* A field of the device or the network, and an element of the graph.
Field(type, field, value) == [type |-> type, field |-> field, value |-> value]
Element(type, id, payload) == <<type, 0, 0, id, Len(payload)>> \o payload
Bytes(n) == [i \in 1..n |-> 65]

Opts(o) == Field(178, 0, <<o>>)
Name(v) == Field(179, 1, v)
Ssid(v) == Field(179, 2, v)

\* The default configuration; one with a button (no payload) and an LED; one whose
\* last message was cut off; and a lone name, whose update makes a packet and an
\* image of the same length.
MCStores ==
    {FieldMessage(Opts(1)) \o FieldMessage(Name(<<76, 56>>)) \o FieldMessage(Ssid(<<76>>)),
     FieldMessage(Name(<<179>>)) \o FieldMessage(Ssid(<<>>)) \o FieldMessage(Opts(0))
         \o Element(16, 1, <<>>) \o Element(32, 2, <<0, 1>>),
     FieldMessage(Ssid(<<76>>)) \o FieldMessage(Opts(1)) \o <<179, 0, 0, 0, 9, 1, 76>>,
     FieldMessage(Name(<<>>))}

\* Shorter and longer values, with packets of 125, 126 and 255 bytes; a value that
\* looks like a message; a field nothing stores; and values whose packets tell a
\* length of 0 bytes, of a message without payload, and of one with its first 4.
MCFields ==
    {Opts(0), Name(<<>>), Name(Bytes(116)), Name(Bytes(117)), Name(Bytes(246)),
     Ssid(<<179, 0, 0, 0, 1, 1>>), Field(179, 3, <<7>>),
     Name(Bytes(250)), Name(Bytes(255)), Name(Bytes(260))}

\* The stack may hold the key of a stored message, or of none.
MCLeftovers ==
    {[type |-> 179, id |-> 0, field |-> 2], [type |-> 0, id |-> 0, field |-> 0]}

\* A small graph, and long ones: behind the lone name they make frames of 1023
\* and 1024 bytes.
Large(n) ==
    Element(32, 1, Bytes(255)) \o Element(32, 2, Bytes(255)) \o Element(32, 3, Bytes(255))
        \o Element(33, 4, Bytes(n - 785))
MCGraphs == {Element(16, 1, <<>>) \o Element(32, 2, <<0, 1>>), Large(1006), Large(1007)}

MCRequests == {1023, 1024}
\* The 20 bytes of SHA-1, and remainders of 0 and 1 byte.
MCDigests ==
    {[i \in 1..20 |-> (97 * i) % 256], [i \in 1..18 |-> 255], [i \in 1..19 |-> 256 - i]}
MCMask == <<55, 250, 33, 61>>
NoUpdates == {}
=============================================================================

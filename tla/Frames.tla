-------------------------------- MODULE Frames --------------------------------
(***************************************************************************)
(* A page and the controller over one WebSocket, byte by byte: the page    *)
(* gets the stored image when it connects (handle_websocket_req()), sends  *)
(* field updates and whole configurations, and the controller takes a      *)
(* segment of TCP per callback, decodes the first frame in it in a buffer  *)
(* of its stack, and stores or updates (handle_websocket_msg()).  What is  *)
(* stored is the image of ConfigElements.  Text, command, ping and close   *)
(* frames are left to DualCore and Sessions, update_secrets() to Settings. *)
(***************************************************************************)
EXTENDS ConfigElements, AcceptKey

CONSTANTS
    Fields,     \* fields a user edits: message type, field number, new value
    Graphs,     \* what the elements of a page may marshal to
    Requests,   \* lengths of the requests browsers open a WebSocket with
    Digests,    \* digests of the keys they send with it
    Mask,       \* the four masking bytes of the browser
    BufSize,    \* bytes of the handlers' buffers and of an outgoing frame
    MaxSends    \* bound: packets the page sends

\* Bound: packets of less than 65536 bytes, so that two bytes tell the length of a
\* frame.
ASSUME FieldsAssumption == \A f \in Fields :
    f.type \in Byte /\ f.field \in Byte /\ f.value \in Seq(Byte) /\ Len(f.value) + 9 < 65536
ASSUME GraphsAssumption == \A g \in Graphs : g \in Seq(Byte) /\ Len(g) + FlashSize < 65536
ASSUME MaskAssumption == Mask \in Seq(Byte) /\ Len(Mask) = 4
ASSUME DigestsAssumption == Digests \subseteq Seq(Byte)
ASSUME SizesAssumption ==
    /\ Requests \subseteq Nat /\ MaxSends \in Nat
    /\ BufSize \in Nat /\ BufSize <= FlashSize /\ BufSize < 65536

VARIABLES
    gfig,     \* the page's copy of the configuration, or NotYet
    net,      \* frames on their way to the controller, with what they mean
    answer,   \* the digest and the key of the answer to an upgrade
    down,     \* the configuration frame on its way to the page, or NotYet
    sends,    \* packets the page has sent
    handled,  \* what the last packet was taken for
    meant,    \* what the page meant by it
    inside,   \* no buffer of a handler has been left
    longest,  \* bytes of the longest request or segment
    saved     \* bytes of the image a page saved last, or 0

store == <<flash, before, new, itr, want, pc, calls>>
wire == <<gfig, net, answer, down, sends, handled, meant, inside, longest, saved>>

NotYet == <<-1>>
Nothing == [kind |-> 0, data |-> <<>>]
NoAnswer == [digest |-> <<>>, accept |-> <<>>]

FramesInit ==
    /\ Init
    /\ gfig = NotYet /\ net = <<>> /\ answer = NoAnswer /\ down = NotYet /\ sends = 0
    /\ handled = Nothing /\ meant = Nothing
    /\ inside = TRUE /\ longest = 0 /\ saved = 0

-----------------------------------------------------------------------------
(* Lengths, frames and packets *)

High(n) == (n \div 256) % 256
Low(n) == n % 256

\* Exclusive or of two bytes, bit by bit.
Xor(a, b) ==
    LET bit(w) == w * ((a \div w + b \div w) % 2)
    IN  bit(1) + bit(2) + bit(4) + bit(8) + bit(16) + bit(32) + bit(64) + bit(128)
XorTable == [a \in Byte |-> [m \in {Mask[i] : i \in 1..4} |-> Xor(a, m)]]

unmask_payload(p, mask) == [i \in DOMAIN p |-> XorTable[p[i]][mask[((i - 1) % 4) + 1]]]

\* What a browser makes of a packet: a masked binary frame.
ClientHeader(n) == IF n <= 125 THEN <<130, 128 + n>> ELSE <<130, 254, High(n), Low(n)>>
Masked(p) == [i \in DOMAIN p |-> XorTable[p[i]][Mask[((i - 1) % 4) + 1]]]
ClientFrame(p) == ClientHeader(Len(p)) \o (Mask \o Masked(p))

\* Mutants: a payload of 126 bytes gets the short header, or the longest form is taken
\* for all that do not have the shortest.
ServerHeader_126(n) == IF n <= 126 THEN <<130, n>> ELSE <<130, 126, High(n), Low(n)>>
ServerHeader_Eight(n) ==
    IF n <= 125 THEN <<130, n>> ELSE <<130, 127, 0, 0, 0, 0, 0, 0, High(n), Low(n)>>

ServerHeader(n) == IF n <= 125 THEN <<130, n>> ELSE <<130, 126, High(n), Low(n)>>
send_websocket_binary(p) == ServerHeader(Len(p)) \o p

\* The payload a browser finds in a frame that is not masked, once all of it is there.
PayloadStart(frame) == IF frame[2] < 126 THEN 2 ELSE 4
PayloadEnd(frame) == IF frame[2] < 126 THEN 2 + frame[2] ELSE 4 + frame[3] * 256 + frame[4]
PayloadOf(frame) ==
    IF PayloadEnd(frame) <= Len(frame)
      THEN SubSeq(frame, PayloadStart(frame) + 1, PayloadEnd(frame)) ELSE <<>>

\* An element of a Uint8Array keeps the low byte of what is put into it.
FieldMessage(f) == <<f.type, 0, 0, 0, Low(Len(f.value) + 1), f.field>> \o f.value

\* Mutant: the byte of the field number is not counted.
UpdatePacket_NoField(f) == <<11, 0, Low(5 + Len(f.value))>> \o FieldMessage(f)

\* updateNetworkFields()
UpdatePacket(f) == <<11, 0, Low(6 + Len(f.value))>> \o FieldMessage(f)

\* saveGraph()
SavePacket(data) == <<10, High(Len(data)), Low(Len(data))>> \o data

-----------------------------------------------------------------------------
(* The page *)

MaxOf(m, n) == IF m > n THEN m ELSE n

\* The upgrade request, and its answer: the key, and the stored image.
Connect ==
    /\ gfig = NotYet /\ down = NotYet /\ net = <<>> /\ inside /\ Ready
    /\ \E n \in Requests, d \in Digests :
        LET frame == send_websocket_binary(flash)
        IN  /\ inside' = (n < BufSize /\ Len(frame) <= BufSize)
            /\ down' = IF inside' THEN frame ELSE NotYet
            /\ answer' = IF inside' THEN [digest |-> d, accept |-> base64_encode(d)] ELSE NoAnswer
            /\ longest' = MaxOf(n, longest)
    /\ UNCHANGED <<store, gfig, net, sends, handled, meant, saved>>

\* onmessage: the three bytes of the packet's header are left out.
Receive ==
    /\ down # NotYet
    /\ gfig' = SubSeq(PayloadOf(down), 4, Len(PayloadOf(down)))
    /\ down' = NotYet /\ answer' = NoAnswer
    /\ UNCHANGED <<store, net, sends, handled, meant, inside, longest, saved>>

Transmit(packet, kind, data) ==
    /\ gfig # NotYet /\ inside /\ sends < MaxSends
    /\ net' = Append(net,
           [bytes |-> ClientFrame(packet), meaning |-> [kind |-> kind, data |-> data]])
    /\ sends' = sends + 1
    /\ UNCHANGED <<store, gfig, answer, down, handled, meant, inside, longest, saved>>

Edit == \E f \in Fields : Transmit(UpdatePacket(f), 11, FieldMessage(f))
SaveGraph == \E g \in Graphs : Transmit(SavePacket(gfig \o g), 10, gfig \o g)

\* The page is left, to be opened again.
Leave ==
    /\ gfig # NotYet
    /\ gfig' = NotYet
    /\ UNCHANGED <<store, net, answer, down, sends, handled, meant, inside, longest, saved>>

-----------------------------------------------------------------------------
(* handle_websocket_msg() *)

\* Bytes of the first n frames; TCP joins what is sent in quick succession.  What is
\* longer than one of its segments has more bytes than the buffer in the first.
Joined(n) ==
    LET bytes[i \in 0..n] == IF i = 0 THEN 0 ELSE bytes[i - 1] + Len(net[i].bytes)
    IN  bytes[n]

PayloadLength(b) == LET n == b[2] % 128 IN IF n = 126 THEN b[3] * 256 + b[4] ELSE n
HeaderSize(b) == 2 + (IF b[2] % 128 = 126 THEN 2 ELSE 0) + (IF b[2] >= 128 THEN 4 ELSE 0)

\* The terminators are written behind the segment and behind the payload.
Fits(b, n) == n < BufSize /\ HeaderSize(b) + PayloadLength(b) < BufSize

\* The payload, unmasked with the last four bytes of the header.
Payload(b) ==
    LET h == HeaderSize(b)
        p == SubSeq(b, h + 1, h + PayloadLength(b))
    IN  IF b[2] >= 128 THEN unmask_payload(p, SubSeq(b, h - 3, h)) ELSE p

\* What the controller takes a payload for, by the length the packet tells.
PacketEnd(p) == 3 + p[2] * 256 + p[3]
Packet(p) == [kind |-> p[1], data |-> SubSeq(p, 4, PacketEnd(p))]

\* Behind the packet lies the rest of the payload, or the terminator.
Behind(p) == IF PacketEnd(p) < Len(p) THEN p[PacketEnd(p) + 1] ELSE 0

\* The branches for a configuration and for an update.
Dispatch(packet, behind) ==
    \/ packet.kind = 10 /\ apply_config(packet.data)
    \/ packet.kind = 11 /\ update_config(packet.data, behind)

\* A segment of n frames: the first is handled, the others are lost.
Handle ==
    /\ Ready /\ inside
    /\ \E n \in 1..Len(net) :
        LET b == net[1].bytes
        IN  /\ net' = SubSeq(net, n + 1, Len(net))
            /\ longest' = MaxOf(Joined(n), longest)
            /\ inside' = Fits(b, Joined(n))
            /\ IF inside'
                 THEN /\ handled' = Packet(Payload(b))
                      /\ meant' = net[1].meaning
                      /\ Dispatch(handled', Behind(Payload(b)))
                      /\ saved' = IF handled'.kind = 10 THEN Len(flash') ELSE saved
                 ELSE UNCHANGED <<store, handled, meant, saved>>
    /\ UNCHANGED <<gfig, answer, down, sends>>

-----------------------------------------------------------------------------
FramesNext ==
    \/ Connect \/ Receive \/ Edit \/ SaveGraph \/ Leave \/ Handle
    \/ Update /\ UNCHANGED wire

FramesSpec == FramesInit /\ [][FramesNext]_<<store, wire>>

\* The callback that updates runs on.
FramesLiveSpec == FramesSpec /\ WF_<<store, wire>>(Update /\ UNCHANGED wire)

-----------------------------------------------------------------------------
(* Properties. *)

\* The length of a packet as it reaches the controller: that of an update has one byte.
LengthTold(packet) ==
    IF packet.kind = 11 THEN Len(packet.data) % 256 ELSE Len(packet.data)

\* A packet is handled byte for byte as the page meant it as far as the packet tells
\* its length, across the forms a frame tells its own, the mask, and the frames it is
\* joined to: all of a configuration and all of an update of up to 255 bytes
\* (network.js:123, graph.js:31-33, websockets.c:236-268).
HandledAsTold ==
    handled = [kind |-> meant.kind, data |-> SubSeq(meant.data, 1, LengthTold(meant))]

\* What a page takes for its configuration is the stored image, on both sides of
\* the shortest frame that needs the long header (websockets.c:107-135, 201-213).
ImageDelivered ==
    down # NotYet => SubSeq(PayloadOf(down), 4, Len(PayloadOf(down))) = Data(flash)

\* The key a browser compares with its own digest is that digest, whatever its length
\* leaves for the last characters (websockets.c:36-75).
KeyAccepted == Decoded(answer.accept) = answer.digest

\* The handlers leave their buffers only over a request or a segment that does not
\* fit, or once updates have made the stored image longer than the one a page saved:
\* no image that could be received is too long to be sent back
\* (websockets.c:110, 156, 232, 263).
BufferInside == inside \/ longest >= BufSize \/ Len(flash) > saved
=============================================================================

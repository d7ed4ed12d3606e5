---------------------------- MODULE DhcpMessages ----------------------------
(***************************************************************************)
(* The DHCP server with its messages as bytes: the options a station puts  *)
(* in a message, in an order of its own; the walk over them (opt_find());  *)
(* and the options of an answer, as a station reads them.  What Dhcp says  *)
(* of the server in terms of addresses, the server does on bytes.          *)
(* Of the fixed part of a message only the two fields that vary are kept.  *)
(***************************************************************************)
EXTENDS Dhcp, Sequences, SequencesExt

CONSTANTS
    Layouts,      \* the orders in which stations send their options
    Extra,        \* name of an option of a layout -> its bytes
    Ip,           \* address of the server: four bytes
    Mask,         \* the network mask: four bytes
    BaseIp,       \* DHCPS_BASE_IP
    LeaseSeconds  \* DEFAULT_LEASE_TIME_S as four bytes

Byte == 0..255

ASSUME LayoutsAssumption == \A l \in Layouts :
    l \in Seq({"type", "address"} \cup DOMAIN Extra) /\ {"type", "address"} \subseteq {l[i] : i \in DOMAIN l}
\* Any option but the two the server looks for, those of an answer included.
ASSUME ExtraAssumption == \A n \in DOMAIN Extra :
    /\ Extra[n] \in Seq(Byte) /\ Len(Extra[n]) >= 2 /\ Len(Extra[n]) = 2 + Extra[n][2]
    /\ Extra[n][1] \in 1..254 \ {50, 53}
ASSUME AddressesAssumption ==
    /\ Ip \in [1..4 -> Byte] /\ Mask \in [1..4 -> Byte] /\ LeaseSeconds \in [1..4 -> Byte]
    /\ BaseIp \in Nat /\ BaseIp + MaxIp <= 256

-----------------------------------------------------------------------------
(* What a station sends *)

Address(i) == <<Ip[1], Ip[2], Ip[3], BaseIp + i>>

\* The options of a message of a type, with the addresses it asks for, if any.
Options(l, type, address) ==
    LET bytes(n) == CASE n = "type" -> <<53, 1, type>>
                      [] n = "address" -> IF address = <<>> THEN <<>> ELSE <<50, 4>> \o address
                      [] OTHER -> Extra[n]
    IN  FlattenSeq([k \in DOMAIN l |-> bytes(l[k])]) \o <<255>>

\* What the server has no address for: another network, the bytes around its own addresses.
ForeignAddresses ==
    {<<(Ip[1] + 1) % 256, Ip[2], Ip[3], BaseIp>>}
        \cup {<<Ip[1], Ip[2], Ip[3], n>> : n \in {BaseIp - 1, BaseIp + MaxIp} \cap Byte}

\* Renewals, releases, requests for such an address, and a message without a type.
OtherOptions ==
    {Options(l, type, <<>>) : l \in Layouts, type \in {3, 7}}
        \cup {Options(l, 3, address) : l \in Layouts, address \in ForeignAddresses}
        \cup {<<255>>} \cup {Extra[n] \o <<255>> : n \in DOMAIN Extra}

\* The options of a message in flight.
OptionsOf(msg) ==
    CASE msg.kind = "discover" -> {Options(l, 1, <<>>) : l \in Layouts}
      [] msg.kind = "request" -> {Options(l, 3, Address(msg.slot)) : l \in Layouts}
      [] msg.kind = "other" -> OtherOptions
      [] OTHER -> {}

\* Bound: the options of a message fit its options field, behind the cookie.
ASSUME OptionsAssumption ==
    \A msg \in [kind : {"discover", "request", "other"}, slot : Slots] :
        \A opt \in OptionsOf(msg) : Len(opt) <= 308

-----------------------------------------------------------------------------
(* dhcp_server_process() *)

NotFound == -1

\* Mutant: the code is looked for in every byte.
opt_find_EveryByte(opt, cmd) ==
    LET from[i \in Nat] ==
            IF i >= 308 \/ i >= Len(opt) \/ opt[i + 1] = 255 THEN NotFound
            ELSE IF opt[i + 1] = cmd THEN i ELSE from[i + 1]
    IN  from[0]

\* The offset of the first option of a code, before the end or the 308th byte.  The
\* options of a message end with 255: the walk does not come to what lies behind them.
opt_find(opt, cmd) ==
    LET from[i \in Nat] ==
            IF i >= 308 \/ i >= Len(opt) \/ opt[i + 1] = 255 THEN NotFound
            ELSE IF opt[i + 1] = cmd THEN i ELSE from[i + 2 + opt[i + 2]]
    IN  from[0]

\* Mutant: an address beyond the table gets a place in it.
RequestedSlot_Wrapped(opt, o) == (opt[o + 6] - BaseIp) % MaxIp

\* The slot an address asks for: its last byte less the base, a byte again.
RequestedSlot(opt, o) == (opt[o + 6] - BaseIp) % 256

\* What the server takes options for.  A message shorter than its fixed part and a type,
\* one without a type and one of another type are ignored, and so is a request
\* without an address or for one that is not the server's.
Taken(opt) ==
    LET msgtype == opt_find(opt, 53)
        type == opt[msgtype + 3]
        o == opt_find(opt, 50)
    IN  IF 240 + Len(opt) < 243 \/ msgtype = NotFound THEN None
        ELSE IF type = 1 THEN Msg("discover", 0)
        ELSE IF type # 3 \/ o = NotFound THEN None
        ELSE IF SubSeq(opt, o + 3, o + 5) # SubSeq(Ip, 1, 3) THEN None
        ELSE IF RequestedSlot(opt, o) >= MaxIp THEN None
        ELSE Msg("request", RequestedSlot(opt, o))

opt_write_n(cmd, data) == <<cmd, Len(data)>> \o data

\* The answer: the address, and the options that are written over those of the message.
Answer(type, i) ==
    [yiaddr |-> Address(i),
     options |-> opt_write_n(53, <<type>>) \o opt_write_n(54, Ip) \o opt_write_n(1, Mask)
                 \o opt_write_n(3, Ip) \o opt_write_n(6, Ip) \o opt_write_n(51, LeaseSeconds)
                 \o <<255>>]

\* How a station reads it (RFC 2131, 2132).
Value(opt, code) ==
    LET from[i \in Nat] ==
            IF i >= Len(opt) \/ opt[i + 1] = 255 THEN <<>>
            ELSE IF opt[i + 1] = code THEN SubSeq(opt, i + 3, i + 2 + opt[i + 2])
            ELSE from[IF opt[i + 1] = 0 THEN i + 1 ELSE i + 2 + opt[i + 2]]
    IN  from[0]

Understood(a) ==
    LET opt == a.options
        kind == CASE Value(opt, 53) = <<2>> -> "offer"
                  [] Value(opt, 53) = <<5>> -> "ack"
                  [] OTHER -> "none"
        complete == /\ Value(opt, 54) = Ip /\ Value(opt, 1) = Mask /\ Value(opt, 3) = Ip
                    /\ Value(opt, 6) = Ip /\ Value(opt, 51) = LeaseSeconds
    IN  IF complete THEN Msg(kind, a.yiaddr[4] - BaseIp) ELSE None

-----------------------------------------------------------------------------
\* What a message may be taken for, and an answer be understood as.
Readings ==
    UNION {{[sent |-> msg, read |-> Taken(opt)] : opt \in OptionsOf(msg)} :
               msg \in [kind : {"discover", "request", "other"}, slot : Slots]}
Answers ==
    {[sent |-> Msg("offer", i), read |-> Understood(Answer(2, i))] : i \in Slots}
        \cup {[sent |-> Msg("ack", i), read |-> Understood(Answer(5, i))] : i \in Slots}

Answered(c, msg) ==
    \E a \in Answers : a.sent = msg /\ reply' = [reply EXCEPT ![c] = a.read]

\* dhcp_server_process(), with the message of a station.
Receive(c) ==
    /\ \E r \in Readings :
        /\ r.sent = request[c]
        /\ \/ /\ r.read.kind = "discover"
              /\ Clear(Cleared(c))
              /\ \/ Candidates(c) = {} /\ UNCHANGED reply
                 \/ \E i \in Slots : First(i, Candidates(c)) /\ Answered(c, Msg("offer", i))
           \/ /\ r.read.kind = "request" /\ MayHave(c, r.read.slot)
              /\ Grant(c, r.read.slot)
              /\ Answered(c, Msg("ack", r.read.slot))
    /\ UNCHANGED <<now, request, stations>>

-----------------------------------------------------------------------------
MessagesNext ==
    \/ Tick \/ Restart
    \/ \E c \in Clients : Receive(c) \/ Station(c)

MessagesSpec == Init /\ [][MessagesNext]_vars

-----------------------------------------------------------------------------
(* Properties. *)

\* Every message in flight is taken for what its station means, whatever the order of its
\* options and whatever else it sends with them, and every answer is read as it was given
\* (dhcpserver.c:146-291).
MessagesMeant ==
    \A c \in Clients :
        /\ \A r \in Readings : r.sent = request[c] =>
               r.read = IF request[c].kind = "other" THEN None ELSE request[c]
        /\ \A a \in Answers : a.sent = reply[c] => a.read = reply[c]

\* On bytes the server gives away what Dhcp, on addresses, says it may, and nothing else:
\* not for a renewal, a release or an address of another network (dhcpserver.c:193-271).
ServerRefinement == Spec
=============================================================================

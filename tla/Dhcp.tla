-------------------------------- MODULE Dhcp --------------------------------
(***************************************************************************)
(* The DHCP server of the access point (networking/dhcpserver.c) with the  *)
(* clients it serves.  The server keeps its leases in memory, with an end  *)
(* that has only the upper bits of the time, and time wraps around.        *)
(* Messages may be delayed or handled twice; one that is never handled     *)
(* before its sender starts again is lost.                                 *)
(***************************************************************************)
EXTENDS Integers, FiniteSets

CONSTANTS
    Clients,     \* stations, by their MAC address
    MaxIp,       \* DHCPS_MAX_IP
    Unit,        \* ticks an expiry cannot tell apart: what its lower bits count
    Expiries,    \* values of an expiry
    LeaseTime,   \* DEFAULT_LEASE_TIME_S in ticks
    Nobody

\* The values of cyw43_hal_ticks_ms().
Wrap == Expiries * Unit
Slots == 0..(MaxIp - 1)

ASSUME ClientsAssumption == IsFiniteSet(Clients) /\ Nobody \notin Clients
ASSUME SizesAssumption ==
    /\ MaxIp \in Nat \ {0} /\ LeaseTime \in Nat \ {0}
    /\ Unit \in Nat \ {0} /\ Expiries \in Nat \ {0} /\ Wrap % 2 = 0
    /\ 2 * (LeaseTime + Unit) <= Wrap

VARIABLES
    lease,    \* slot -> its MAC address and expiry
    now,      \* cyw43_hal_ticks_ms()
    request,  \* client -> its message on the way to the server
    reply,    \* client -> the server's answer on the way back
    bound,    \* client -> does it use an address
    addr,     \* client -> slot of the address it uses, asks for or remembers
    left,     \* client -> ticks left of the lease it was granted
    asked,    \* client -> ticks the lease it asks for would last from now on
    old       \* clients whose lease was granted before the last restart

server == <<lease, now>>
stations == <<bound, addr, left, asked, old>>
vars == <<server, request, reply, stations>>

None == [kind |-> "none", slot |-> 0]
Msg(kind, slot) == [kind |-> kind, slot |-> slot]
Free == [mac |-> Nobody, expiry |-> 0]

Init ==
    /\ lease = [i \in Slots |-> Free]
    /\ now = 0
    /\ request = [c \in Clients |-> None]
    /\ reply = [c \in Clients |-> None]
    /\ bound = [c \in Clients |-> FALSE]
    /\ addr = [c \in Clients |-> 0]
    /\ left = [c \in Clients |-> 0]
    /\ asked = [c \in Clients |-> 0]
    /\ old = {}

-----------------------------------------------------------------------------
(* dhcp_server_process() *)

\* The lower bits are all set.
End(e) == e * Unit + Unit - 1

\* Mutant: two times are compared as they are, across the wrap as well.
Expired_Unwrapped(e) == End(e) < now
\* The difference is a signed number.
Expired(e) == (End(e) - now) % Wrap >= Wrap \div 2

\* Mutant: the sum does not wrap around.
Expiry_Unwrapped == (now + LeaseTime) \div Unit
Expiry == ((now + LeaseTime) % Wrap) \div Unit

\* Mutant: the client's own lease is not looked for.
Mine_None(c) == {}
Mine(c) == {i \in Slots : lease[i].mac = c}

Usable == {i \in Slots : lease[i].mac = Nobody \/ Expired(lease[i].expiry)}
First(i, S) == i \in S /\ \A j \in S : i <= j

\* A message stays on its way until its sender sends another one: it may be
\* handled late, again (the station has sent it again), or never.

\* DHCPDISCOVER: the client's own address, or the first one free or expired.
Candidates(c) == IF Mine(c) # {} THEN Mine(c) ELSE Usable

\* The search passes slots in order and clears the first expired one it comes to.
Cleared(c) ==
    {i \in Usable : /\ First(i, Usable) /\ Expired(lease[i].expiry)
                    /\ \A j \in Mine(c) : i < j}

Clear(S) ==
    lease' = [i \in Slots |-> IF i \in S THEN [lease[i] EXCEPT !.mac = Nobody] ELSE lease[i]]

Discover(c) ==
    /\ request[c].kind = "discover"
    /\ Clear(Cleared(c))
    /\ \/ Candidates(c) = {} /\ UNCHANGED reply
       \/ \E i \in Slots : /\ First(i, Candidates(c))
                           /\ reply' = [reply EXCEPT ![c] = Msg("offer", i)]
    /\ UNCHANGED <<now, request, stations>>

MayHave(c, i) == lease[i].mac \in {c, Nobody}

Grant(c, i) == lease' = [lease EXCEPT ![i] = [mac |-> c, expiry |-> Expiry]]

\* DHCPREQUEST with a requested address; a request that cannot be met is ignored, and
\* so is every other message.
Request(c) ==
    /\ request[c].kind = "request" /\ MayHave(c, request[c].slot)
    /\ Grant(c, request[c].slot)
    /\ reply' = [reply EXCEPT ![c] = Msg("ack", request[c].slot)]
    /\ UNCHANGED <<now, request, stations>>

\* dhcp_server_init() after a restart: the table is empty, time starts again,
\* and every station has to join again, which may remember its lease.
Restart ==
    /\ lease' = [i \in Slots |-> Free]
    /\ now' = 0
    /\ request' = [c \in Clients |-> None]
    /\ reply' = [c \in Clients |-> None]
    /\ bound' = [c \in Clients |-> FALSE]
    /\ asked' = [c \in Clients |-> 0]
    /\ old' = {c \in Clients : left[c] > 0}
    /\ UNCHANGED <<addr, left>>

-----------------------------------------------------------------------------
(* Clients; a new exchange has a new id, so answers to an earlier one are  *)
(* lost.                                                                   *)

Sends(c, msg) ==
    /\ request' = [request EXCEPT ![c] = msg]
    /\ reply' = [reply EXCEPT ![c] = None]

\* A station without an address looks for one, also when it has given up waiting.
SendDiscover(c) ==
    /\ ~bound[c]
    /\ Sends(c, Msg("discover", 0))
    /\ left' = [left EXCEPT ![c] = 0]
    /\ asked' = [asked EXCEPT ![c] = 0]
    /\ addr' = [addr EXCEPT ![c] = 0]
    /\ old' = old \ {c}
    /\ UNCHANGED <<server, bound>>

\* The offered address is asked for; the lease runs from this moment.
Select(c) ==
    /\ reply[c].kind = "offer"
    /\ Sends(c, Msg("request", reply[c].slot))
    /\ addr' = [addr EXCEPT ![c] = reply[c].slot]
    /\ asked' = [asked EXCEPT ![c] = LeaseTime]
    /\ UNCHANGED <<server, bound, left, old>>

\* A station that joins again while its lease runs asks for the same address,
Rejoin(c) ==
    /\ left[c] > 0
    /\ Sends(c, Msg("request", addr[c]))
    /\ bound' = [bound EXCEPT ![c] = FALSE]
    /\ asked' = [asked EXCEPT ![c] = LeaseTime]
    /\ UNCHANGED <<server, addr, left, old>>

\* and may go on with it when nobody answers.
KeepOld(c) ==
    /\ ~bound[c] /\ left[c] > 0 /\ asked[c] > 0
    /\ bound' = [bound EXCEPT ![c] = TRUE]
    /\ UNCHANGED <<server, request, reply, addr, left, asked, old>>

Bind(c) ==
    /\ reply[c].kind = "ack"
    /\ reply' = [reply EXCEPT ![c] = None]
    /\ bound' = [bound EXCEPT ![c] = asked[c] > 0]
    /\ left' = [left EXCEPT ![c] = asked[c]]
    /\ asked' = [asked EXCEPT ![c] = 0]
    /\ old' = old \ {c}
    /\ UNCHANGED <<server, request, addr>>

Less(f) == [c \in Clients |-> IF f[c] > 0 THEN f[c] - 1 ELSE 0]

\* A renewal: a request that names no requested address.
Renew(c) ==
    /\ bound[c]
    /\ Sends(c, Msg("other", 0))
    /\ asked' = [asked EXCEPT ![c] = 0]
    /\ UNCHANGED <<server, bound, addr, left, old>>

\* A station leaves, and may be back with a request for an address of another network.
Release(c) ==
    /\ bound[c]
    /\ Sends(c, Msg("other", 0))
    /\ bound' = [bound EXCEPT ![c] = FALSE]
    /\ left' = [left EXCEPT ![c] = 0]
    /\ asked' = [asked EXCEPT ![c] = 0]
    /\ addr' = [addr EXCEPT ![c] = 0]
    /\ old' = old \ {c}
    /\ UNCHANGED server

\* A lease that has run out is given up.
Tick ==
    /\ now' = (now + 1) % Wrap
    /\ left' = Less(left) /\ asked' = Less(asked)
    /\ bound' = [c \in Clients |-> bound[c] /\ left[c] > 1]
    /\ old' = {c \in old : left[c] > 1}
    /\ UNCHANGED <<lease, request, reply, addr>>

-----------------------------------------------------------------------------
Station(c) ==
    \/ SendDiscover(c) \/ Select(c) \/ Rejoin(c) \/ KeepOld(c) \/ Bind(c)
    \/ Renew(c) \/ Release(c)

Next ==
    \/ Tick \/ Restart
    \/ \E c \in Clients : Discover(c) \/ Request(c) \/ Station(c)

Spec == Init /\ [][Next]_vars

-----------------------------------------------------------------------------
(* Properties *)

Kinds == {"none", "discover", "request", "other", "offer", "ack"}

TypeOK ==
    /\ lease \in [Slots -> [mac : Clients \cup {Nobody}, expiry : 0..(Expiries - 1)]]
    /\ now \in 0..(Wrap - 1)
    /\ request \in [Clients -> [kind : Kinds, slot : Slots]]
    /\ reply \in [Clients -> [kind : Kinds, slot : Slots]]
    /\ bound \in [Clients -> BOOLEAN]
    /\ addr \in [Clients -> Slots]
    /\ left \in [Clients -> 0..LeaseTime]
    /\ asked \in [Clients -> 0..LeaseTime]
    /\ old \subseteq Clients

\* Two stations never use one address at the same time, however long messages
\* take, across the wrapping of the time, and across restarts: a lease the server
\* no longer knows of is the only one that can meet another (dhcpserver.c:226-300).
NoAddressTwice ==
    \A c, d \in Clients \ old : bound[c] /\ bound[d] /\ addr[c] = addr[d] => c = d

\* A station never takes up two of the eight addresses.
OneLeasePerClient ==
    \A i, j \in Slots : lease[i].mac = lease[j].mac /\ lease[i].mac # Nobody => i = j
=============================================================================

----------------------------- MODULE DhcpProofs -----------------------------
(***************************************************************************)
(* However late or often messages are handled, and wherever the time       *)
(* wraps, no station holds two addresses of the server: what a station     *)
(* asks for, is offered or remembers is the only lease it can have.  And   *)
(* the bytes of every message are read as what they were written for, so   *)
(* that the server on bytes does what Dhcp says of it.                     *)
(***************************************************************************)
EXTENDS DhcpMessages, InductionTheorems, SequenceTheorems, TLAPS

\* i is the only slot that may be leased to c.
Only(c, i) == \A j \in Slots : lease[j].mac = c => j = i

\* The inductive invariant: where a slot is in a message or in a station's memory,
\* the station has no other one.
RequestsOnly == \A c \in Clients :
    request[c].kind = "request" => Only(c, request[c].slot) /\ addr[c] = request[c].slot
OffersOnly == \A c \in Clients : reply[c].kind = "offer" => Only(c, reply[c].slot)
AcksOnly == \A c \in Clients : reply[c].kind = "ack" => request[c].kind = "request"
RememberedOnly == \A c \in Clients : left[c] > 0 => Only(c, addr[c])

LeaseInv ==
    /\ TypeOK /\ OneLeasePerClient
    /\ RequestsOnly /\ OffersOnly /\ AcksOnly /\ RememberedOnly

-----------------------------------------------------------------------------
(* Types *)

LEMMA WrapType == Wrap \in Nat /\ Wrap > 0
BY SizesAssumption DEF Wrap

\* An expiry drops what it cannot tell apart, and fits its sixteen bits.
LEMMA ExpiryType == now \in 0..(Wrap - 1) => Expiry \in 0..(Expiries - 1)
<1> SUFFICES ASSUME now \in 0..(Wrap - 1) PROVE Expiry \in 0..(Expiries - 1)
  OBVIOUS
<1> DEFINE t == (now + LeaseTime) % Wrap
           q == t \div Unit
<1>1. t \in 0..(Wrap - 1)
  BY WrapType, SizesAssumption
<1>2. Unit \in Nat /\ Unit > 0 /\ Expiries \in Nat
  BY SizesAssumption
<1> HIDE DEF t
<1>3. q \in Int /\ 0 <= q /\ Unit * q <= t
  BY <1>1, <1>2, WrapType
<1> HIDE DEF q
<1>4. Unit * q < Unit * Expiries
  BY <1>1, <1>2, <1>3, WrapType DEF Wrap
<1>5. q < Expiries
  BY <1>2, <1>3, <1>4
<1> QED
  BY <1>2, <1>3, <1>5 DEF Expiry, q, t

LEMMA InitType == Init => TypeOK
<1> SUFFICES ASSUME Init PROVE TypeOK
  OBVIOUS
<1>1. 0 \in Slots /\ Slots \subseteq Int
  BY SizesAssumption DEF Slots
<1>2. 0 \in 0..(Wrap - 1) /\ 0 \in 0..(Expiries - 1) /\ 0 \in 0..LeaseTime
  BY WrapType, SizesAssumption
<1>3. None \in [kind : Kinds, slot : Slots]
  BY <1>1 DEF None, Kinds
<1>4. Free \in [mac : Clients \cup {Nobody}, expiry : 0..(Expiries - 1)]
  BY <1>2 DEF Free
<1> QED
  BY <1>1, <1>2, <1>3, <1>4 DEF Init, TypeOK

\* What the server does to its table and to a station's answer.
LEMMA ServerType ==
    ASSUME TypeOK, NEW c \in Clients, Discover(c) \/ Request(c)
    PROVE  TypeOK'
<1>1. /\ now' = now /\ request' = request /\ bound' = bound /\ addr' = addr
      /\ left' = left /\ asked' = asked /\ old' = old
  BY DEF Discover, Request, stations
<1>2. CASE Discover(c)
  <2>1. lease' \in [Slots -> [mac : Clients \cup {Nobody}, expiry : 0..(Expiries - 1)]]
    <3> DEFINE S == Cleared(c)
    <3>1. Clear(S)
      BY <1>2 DEF Discover
    <3> HIDE DEF S
    <3> QED
      BY <3>1, ZenonT(30) DEF Clear, TypeOK
  <2>2. reply' \in [Clients -> [kind : Kinds, slot : Slots]]
    <3>1. CASE reply' = reply
      BY <3>1 DEF TypeOK
    <3>2. ASSUME NEW i \in Slots, reply' = [reply EXCEPT ![c] = Msg("offer", i)]
          PROVE  reply' \in [Clients -> [kind : Kinds, slot : Slots]]
      BY <3>2 DEF TypeOK, Msg, Kinds
    <3> QED
      BY <1>2, <3>1, <3>2 DEF Discover
  <2> QED
    BY <1>1, <2>1, <2>2 DEF TypeOK
<1>3. CASE Request(c)
  <2>1. request[c].slot \in Slots
    BY DEF TypeOK
  <2>2. Expiry \in 0..(Expiries - 1)
    BY ExpiryType DEF TypeOK
  <2>3. lease' \in [Slots -> [mac : Clients \cup {Nobody}, expiry : 0..(Expiries - 1)]]
    <3> HIDE DEF Expiry
    <3> QED
      BY <1>3, <2>1, <2>2 DEF Request, Grant, TypeOK
  <2>4. reply' \in [Clients -> [kind : Kinds, slot : Slots]]
    BY <1>3, <2>1 DEF Request, Msg, TypeOK, Kinds
  <2> QED
    BY <1>1, <2>3, <2>4 DEF TypeOK
<1> QED
  BY <1>2, <1>3

LEMMA RestartType == TypeOK /\ Restart => TypeOK'
<1> SUFFICES ASSUME TypeOK, Restart PROVE TypeOK'
  OBVIOUS
<1>1. 0 \in Slots /\ 0 \in 0..(Wrap - 1) /\ 0 \in 0..(Expiries - 1) /\ 0 \in 0..LeaseTime
  BY WrapType, SizesAssumption DEF Slots
<1>2. None \in [kind : Kinds, slot : Slots]
  BY <1>1 DEF None, Kinds
<1>3. Free \in [mac : Clients \cup {Nobody}, expiry : 0..(Expiries - 1)]
  BY <1>1 DEF Free
<1> QED
  BY <1>1, <1>2, <1>3 DEF Restart, TypeOK

LEMMA TickType == TypeOK /\ Tick => TypeOK'
<1> SUFFICES ASSUME TypeOK, Tick PROVE TypeOK'
  OBVIOUS
<1>1. now' \in 0..(Wrap - 1)
  BY WrapType DEF Tick, TypeOK
<1>2. ASSUME NEW f \in [Clients -> 0..LeaseTime] PROVE Less(f) \in [Clients -> 0..LeaseTime]
  BY SizesAssumption DEF Less
<1>3. left' \in [Clients -> 0..LeaseTime] /\ asked' \in [Clients -> 0..LeaseTime]
  BY <1>2 DEF Tick, TypeOK
<1>4. bound' \in [Clients -> BOOLEAN] /\ old' \subseteq Clients
  BY DEF Tick, TypeOK
<1> QED
  BY <1>1, <1>3, <1>4 DEF Tick, TypeOK

LEMMA StationType ==
    ASSUME TypeOK, NEW c \in Clients, Station(c)
    PROVE  TypeOK'
<1>1. 0 \in Slots /\ 0 \in 0..LeaseTime /\ LeaseTime \in 0..LeaseTime
  BY SizesAssumption DEF Slots
<1>2. ASSUME NEW m \in [kind : Kinds, slot : Slots], Sends(c, m)
      PROVE  /\ request' \in [Clients -> [kind : Kinds, slot : Slots]]
             /\ reply' \in [Clients -> [kind : Kinds, slot : Slots]]
  <2>1. None \in [kind : Kinds, slot : Slots]
    BY <1>1 DEF None, Kinds
  <2> QED
    BY <1>2, <2>1 DEF Sends, TypeOK
<1>3. CASE SendDiscover(c)
  <2>1. Msg("discover", 0) \in [kind : Kinds, slot : Slots]
    BY <1>1 DEF Msg, Kinds
  <2> QED
    BY <1>1, <1>2, <1>3, <2>1 DEF SendDiscover, server, TypeOK
<1>4. CASE Select(c)
  <2>1. reply[c].slot \in Slots
    BY DEF TypeOK
  <2>2. Msg("request", reply[c].slot) \in [kind : Kinds, slot : Slots]
    BY <2>1 DEF Msg, Kinds
  <2> QED
    BY <1>1, <1>2, <1>4, <2>1, <2>2 DEF Select, server, TypeOK
<1>5. CASE Rejoin(c)
  <2>1. Msg("request", addr[c]) \in [kind : Kinds, slot : Slots]
    BY DEF Msg, Kinds, TypeOK
  <2> QED
    BY <1>1, <1>2, <1>5, <2>1 DEF Rejoin, server, TypeOK
<1>6. CASE KeepOld(c)
  BY <1>6 DEF KeepOld, server, TypeOK
<1>7. CASE Bind(c)
  <2>1. None \in [kind : Kinds, slot : Slots]
    BY <1>1 DEF None, Kinds
  <2>2. reply' \in [Clients -> [kind : Kinds, slot : Slots]] /\ bound' \in [Clients -> BOOLEAN]
    BY <1>7, <2>1 DEF Bind, TypeOK
  <2>3. left' \in [Clients -> 0..LeaseTime] /\ asked' \in [Clients -> 0..LeaseTime]
    BY <1>1, <1>7 DEF Bind, TypeOK
  <2> QED
    BY <1>7, <2>2, <2>3 DEF Bind, server, TypeOK
<1>8. CASE Renew(c)
  <2>1. Msg("other", 0) \in [kind : Kinds, slot : Slots]
    BY <1>1 DEF Msg, Kinds
  <2> QED
    BY <1>1, <1>2, <1>8, <2>1 DEF Renew, server, TypeOK
<1>9. CASE Release(c)
  <2>1. Msg("other", 0) \in [kind : Kinds, slot : Slots]
    BY <1>1 DEF Msg, Kinds
  <2> QED
    BY <1>1, <1>2, <1>9, <2>1 DEF Release, server, TypeOK
<1> QED
  BY <1>3, <1>4, <1>5, <1>6, <1>7, <1>8, <1>9 DEF Station

LEMMA NextType == TypeOK /\ [Next]_vars => TypeOK'
<1> SUFFICES ASSUME TypeOK, [Next]_vars PROVE TypeOK'
  OBVIOUS
<1>1. CASE UNCHANGED vars
  BY <1>1 DEF vars, server, stations, TypeOK
<1>2. ASSUME NEW c \in Clients, Discover(c) \/ Request(c) PROVE TypeOK'
  BY <1>2, ServerType
<1>3. ASSUME NEW c \in Clients, Station(c) PROVE TypeOK'
  BY <1>3, StationType
<1> QED
  BY <1>1, <1>2, <1>3, RestartType, TickType DEF Next

\* Every reachable state is type-correct; an expiry fits its bits though the sum it is
\* made of wraps (dhcpserver.c:229-271).
THEOREM DhcpTypeCorrect == Spec => []TypeOK
<1> QED
  BY InitType, NextType, PTL DEF Spec

-----------------------------------------------------------------------------
(* Leases *)

\* Clearing slots takes leases away and gives none.
LEMMA ClearTakes ==
    ASSUME TypeOK, NEW S, Clear(S), NEW d \in Clients, NEW j \in Slots, lease'[j].mac = d
    PROVE  lease[j].mac = d
<1>1. d # Nobody
  BY ClientsAssumption
<1> QED
  BY <1>1 DEF Clear, TypeOK

LEMMA InitLeases == Init => LeaseInv
<1> SUFFICES ASSUME Init PROVE LeaseInv
  OBVIOUS
<1>1. TypeOK
  BY InitType
<1>2. OneLeasePerClient
  BY DEF Init, OneLeasePerClient, Free
<1>3. RequestsOnly /\ OffersOnly /\ AcksOnly /\ RememberedOnly
  BY DEF Init, None, RequestsOnly, OffersOnly, AcksOnly, RememberedOnly
<1> QED
  BY <1>1, <1>2, <1>3 DEF LeaseInv

\* A discover: an offer names the station's own slot, if it has one.
LEMMA DiscoverLeases ==
    ASSUME LeaseInv, NEW c \in Clients, Discover(c)
    PROVE  OneLeasePerClient' /\ RequestsOnly' /\ OffersOnly' /\ AcksOnly' /\ RememberedOnly'
<1> DEFINE S == Cleared(c)
<1>1. TypeOK /\ Clear(S) /\ request' = request /\ left' = left /\ addr' = addr
  BY DEF LeaseInv, Discover, stations
<1> HIDE DEF S
<1>2. \A d \in Clients, j \in Slots : lease'[j].mac = d => lease[j].mac = d
  BY <1>1, ClearTakes
<1>3. \A d \in Clients, i \in Slots : Only(d, i) => Only(d, i)'
  BY <1>2 DEF Only
<1>4. OneLeasePerClient'
  <2>1. \A j \in Slots : lease'[j].mac # Nobody => lease'[j].mac \in Clients
    BY <1>1 DEF Clear, TypeOK
  <2> QED
    BY <1>2, <2>1 DEF LeaseInv, OneLeasePerClient
<1>5. RequestsOnly'
  <2>1. \A d \in Clients : request[d].slot \in Slots
    BY <1>1 DEF TypeOK
  <2> QED
    BY <1>1, <1>3, <2>1 DEF LeaseInv, RequestsOnly
<1>6. RememberedOnly'
  <2>1. \A d \in Clients : addr[d] \in Slots
    BY <1>1 DEF TypeOK
  <2> QED
    BY <1>1, <1>3, <2>1 DEF LeaseInv, RememberedOnly
<1>7. CASE reply' = reply
  <2>1. \A d \in Clients : reply[d].slot \in Slots
    BY <1>1 DEF TypeOK
  <2> QED
    BY <1>1, <1>3, <1>4, <1>5, <1>6, <1>7, <2>1 DEF LeaseInv, OffersOnly, AcksOnly
<1>8. ASSUME NEW i \in Slots, First(i, Candidates(c)), reply' = [reply EXCEPT ![c] = Msg("offer", i)]
      PROVE  OffersOnly' /\ AcksOnly'
  <2>1. Only(c, i)
    <3>1. CASE Mine(c) = {}
      BY <3>1 DEF Mine, Only
    <3>2. CASE Mine(c) # {}
      <4>1. i \in Mine(c)
        BY <1>8, <3>2 DEF First, Candidates
      <4>2. lease[i].mac = c /\ c # Nobody
        BY <4>1, ClientsAssumption DEF Mine
      <4> QED
        BY <4>2 DEF LeaseInv, OneLeasePerClient, Only
    <3> QED
      BY <3>1, <3>2
  <2>2. reply'[c].kind = "offer" /\ reply'[c].slot = i
    BY <1>1, <1>8 DEF TypeOK, Msg
  <2>3. \A d \in Clients \ {c} : reply'[d] = reply[d] /\ reply[d].slot \in Slots
    BY <1>1, <1>8 DEF TypeOK
  <2>4. OffersOnly'
    BY <1>3, <2>1, <2>2, <2>3 DEF LeaseInv, OffersOnly
  <2> QED
    BY <1>1, <2>2, <2>3, <2>4 DEF LeaseInv, AcksOnly
<1> QED
  BY <1>4, <1>5, <1>6, <1>7, <1>8 DEF Discover

\* A request: the slot it names is the only one the station can have had.
LEMMA RequestLeases ==
    ASSUME LeaseInv, NEW c \in Clients, Request(c)
    PROVE  OneLeasePerClient' /\ RequestsOnly' /\ OffersOnly' /\ AcksOnly' /\ RememberedOnly'
<1>0. PICK i \in Slots : i = request[c].slot
  BY DEF LeaseInv, TypeOK
<1>1. /\ TypeOK /\ request[c].kind = "request" /\ Only(c, i) /\ addr[c] = i
      /\ request' = request /\ left' = left /\ addr' = addr
      /\ lease[i].mac \in {c, Nobody}
      /\ reply' = [reply EXCEPT ![c] = Msg("ack", i)]
  BY <1>0 DEF LeaseInv, RequestsOnly, Request, MayHave, stations
<1>2. /\ lease'[i].mac = c
      /\ \A j \in Slots \ {i} : lease'[j] = lease[j]
  BY <1>0, <1>1 DEF Request, Grant, TypeOK
<1>3. Only(c, i)'
  BY <1>1, <1>2 DEF Only
<1>4. \A d \in Clients \ {c}, j \in Slots : Only(d, j) => Only(d, j)'
  BY <1>1, <1>2 DEF Only
<1>5. OneLeasePerClient'
  <2>1. c # Nobody
    BY ClientsAssumption
  <2> QED
    BY <1>1, <1>2, <2>1 DEF LeaseInv, OneLeasePerClient, Only
<1>6. RequestsOnly'
  <2>1. \A d \in Clients : request[d].slot \in Slots
    BY <1>1 DEF TypeOK
  <2> QED
    BY <1>0, <1>1, <1>3, <1>4, <2>1 DEF LeaseInv, RequestsOnly
<1>7. RememberedOnly'
  <2>1. \A d \in Clients : addr[d] \in Slots
    BY <1>1 DEF TypeOK
  <2> QED
    BY <1>1, <1>3, <1>4, <2>1 DEF LeaseInv, RememberedOnly
<1>8. reply'[c].kind = "ack" /\ \A d \in Clients \ {c} : reply'[d] = reply[d] /\ reply[d].slot \in Slots
  BY <1>1 DEF TypeOK, Msg
<1>9. OffersOnly' /\ AcksOnly'
  BY <1>1, <1>4, <1>8 DEF LeaseInv, OffersOnly, AcksOnly
<1> QED
  BY <1>5, <1>6, <1>7, <1>9

\* A station's step: it asks for nothing but what it was offered or remembers.
LEMMA StationLeases ==
    ASSUME LeaseInv, NEW c \in Clients, Station(c)
    PROVE  OneLeasePerClient' /\ RequestsOnly' /\ OffersOnly' /\ AcksOnly' /\ RememberedOnly'
<1>1. TypeOK
  BY DEF LeaseInv
<1>2. lease' = lease
  BY DEF Station, SendDiscover, Select, Rejoin, KeepOld, Bind, Renew, Release, server
<1>3. OneLeasePerClient'
  BY <1>2 DEF LeaseInv, OneLeasePerClient
<1>4. \A d \in Clients \ {c} :
         /\ request'[d] = request[d] /\ left'[d] = left[d] /\ addr'[d] = addr[d]
         /\ reply'[d] = reply[d]
  BY <1>1 DEF Station, SendDiscover, Select, Rejoin, KeepOld, Bind, Renew, Release, Sends, TypeOK
<1>5. \A d \in Clients, i \in Slots : Only(d, i)' <=> Only(d, i)
  BY <1>2 DEF Only
<1>6. request[c].slot \in Slots /\ reply[c].slot \in Slots /\ addr[c] \in Slots
  BY <1>1 DEF TypeOK
<1>7. SUFFICES /\ request'[c].kind = "request" =>
                     addr'[c] \in Slots /\ Only(c, addr'[c]) /\ addr'[c] = request'[c].slot
               /\ reply'[c].kind = "offer" => reply'[c].slot \in Slots /\ Only(c, reply'[c].slot)
               /\ reply'[c].kind = "ack" => request'[c].kind = "request"
               /\ left'[c] > 0 => addr'[c] \in Slots /\ Only(c, addr'[c])
  <2>1. \A d \in Clients : request[d].slot \in Slots /\ reply[d].slot \in Slots /\ addr[d] \in Slots
    BY <1>1 DEF TypeOK
  <2>2. RequestsOnly'
    BY <1>4, <1>5, <1>7, <2>1 DEF LeaseInv, RequestsOnly, Only
  <2>3. OffersOnly'
    BY <1>4, <1>5, <1>7, <2>1 DEF LeaseInv, OffersOnly, Only
  <2>4. RememberedOnly'
    BY <1>4, <1>5, <1>7, <2>1 DEF LeaseInv, RememberedOnly, Only
  <2> QED
    BY <1>3, <1>4, <1>7, <2>2, <2>3, <2>4 DEF LeaseInv, AcksOnly
<1>8. ASSUME NEW m, Sends(c, m)
      PROVE  request'[c] = m /\ reply'[c].kind = "none"
  BY <1>1, <1>8 DEF Sends, None, TypeOK
<1>9. CASE SendDiscover(c)
  BY <1>1, <1>8, <1>9 DEF SendDiscover, Msg, TypeOK
<1>10. CASE Select(c)
  <2>1. Only(c, reply[c].slot)
    BY <1>10 DEF Select, LeaseInv, OffersOnly
  <2>2. addr'[c] = reply[c].slot
    BY <1>1, <1>10 DEF Select, TypeOK
  <2> QED
    BY <1>6, <1>8, <1>10, <2>1, <2>2 DEF Select, Msg
<1>11. CASE Rejoin(c)
  <2>1. Only(c, addr[c])
    BY <1>11 DEF Rejoin, LeaseInv, RememberedOnly
  <2> QED
    BY <1>6, <1>8, <1>11, <2>1 DEF Rejoin, Msg
<1>12. CASE KeepOld(c)
  BY <1>6, <1>12 DEF KeepOld, LeaseInv, RequestsOnly, OffersOnly, AcksOnly, RememberedOnly
<1>13. CASE Bind(c)
  <2>1. request[c].kind = "request" /\ Only(c, addr[c]) /\ addr[c] = request[c].slot
    BY <1>13 DEF Bind, LeaseInv, AcksOnly, RequestsOnly
  <2>2. reply'[c].kind = "none" /\ request' = request /\ addr' = addr
    BY <1>1, <1>13 DEF Bind, None, TypeOK
  <2> QED
    BY <1>6, <2>1, <2>2
<1>14. CASE Renew(c)
  BY <1>6, <1>8, <1>14 DEF Renew, Msg, LeaseInv, RememberedOnly
<1>15. CASE Release(c)
  BY <1>1, <1>8, <1>15 DEF Release, Msg, TypeOK
<1> QED
  BY <1>9, <1>10, <1>11, <1>12, <1>13, <1>14, <1>15 DEF Station

\* A restart takes all leases, and time only takes memories.
LEMMA OtherLeases ==
    ASSUME LeaseInv, Restart \/ Tick
    PROVE  OneLeasePerClient' /\ RequestsOnly' /\ OffersOnly' /\ AcksOnly' /\ RememberedOnly'
<1>1. CASE Restart
  <2>1. \A j \in Slots : lease'[j].mac = Nobody
    BY <1>1 DEF Restart, Free
  <2>2. \A d \in Clients : request'[d].kind = "none" /\ reply'[d].kind = "none"
    BY <1>1 DEF Restart, None
  <2> QED
    BY <2>1, <2>2, ClientsAssumption
       DEF OneLeasePerClient, RequestsOnly, OffersOnly, AcksOnly, RememberedOnly, Only
<1>2. CASE Tick
  <2>1. lease' = lease /\ request' = request /\ reply' = reply /\ addr' = addr
    BY <1>2 DEF Tick
  <2>2. \A d \in Clients : left'[d] > 0 => left[d] > 0
    BY <1>2 DEF Tick, Less
  <2> QED
    BY <2>1, <2>2
       DEF LeaseInv, OneLeasePerClient, RequestsOnly, OffersOnly, AcksOnly, RememberedOnly, Only
<1> QED
  BY <1>1, <1>2

LEMMA NextLeases == LeaseInv /\ [Next]_vars => LeaseInv'
<1> SUFFICES ASSUME LeaseInv, [Next]_vars PROVE LeaseInv'
  OBVIOUS
<1>1. TypeOK'
  BY NextType DEF LeaseInv
<1>2. CASE UNCHANGED vars
  BY <1>1, <1>2 DEF vars, server, stations, LeaseInv, OneLeasePerClient,
                    RequestsOnly, OffersOnly, AcksOnly, RememberedOnly, Only
<1>3. ASSUME NEW c \in Clients, Discover(c) PROVE LeaseInv'
  BY <1>1, <1>3, DiscoverLeases DEF LeaseInv
<1>4. ASSUME NEW c \in Clients, Request(c) PROVE LeaseInv'
  BY <1>1, <1>4, RequestLeases DEF LeaseInv
<1>5. ASSUME NEW c \in Clients, Station(c) PROVE LeaseInv'
  BY <1>1, <1>5, StationLeases DEF LeaseInv
<1>6. CASE Restart \/ Tick
  BY <1>1, <1>6, OtherLeases DEF LeaseInv
<1> QED
  BY <1>2, <1>3, <1>4, <1>5, <1>6 DEF Next

\* No station holds two addresses, for every number of stations and addresses, however
\* messages are delayed and repeated, and wherever the time wraps (dhcpserver.c:215-271).
THEOREM OneLeaseStays == Spec => []OneLeasePerClient
<1>1. LeaseInv => OneLeasePerClient
  BY DEF LeaseInv
<1> QED
  BY <1>1, InitLeases, NextLeases, PTL DEF Spec

-----------------------------------------------------------------------------
(* Time *)

\* Ticks until the lease of a slot ends, as the server reckons it.
Remaining(i) == (End(lease[i].expiry) - now) % Wrap

LEMMA Modulo ==
    ASSUME NEW W \in Nat, W > 0, NEW x \in Int
    PROVE  /\ 0 <= x /\ x < W => x % W = x
           /\ 0 - W <= x /\ x < 0 => x % W = x + W
           /\ W <= x /\ x < 2 * W => x % W = x - W
<1>1. PICK q \in Int, r \in 0..(W - 1) : x = W * q + r /\ x % W = r
  <2>1. x = W * (x \div W) + (x % W) /\ x \div W \in Int /\ x % W \in 0..(W - 1)
    OBVIOUS
  <2> QED
    BY <2>1
<1>2. ASSUME 0 <= x, x < W PROVE q = 0
  BY <1>1, <1>2
<1>3. ASSUME 0 - W <= x, x < 0 PROVE q = -1
  BY <1>1, <1>3
<1>4. ASSUME W <= x, x < 2 * W PROVE q = 1
  BY <1>1, <1>4
<1> QED
  BY <1>1, <1>2, <1>3, <1>4

\* The end of a lease is a time.
LEMMA EndType == \A e \in 0..(Expiries - 1) : End(e) \in 0..(Wrap - 1)
<1> TAKE e \in 0..(Expiries - 1)
<1>1. Unit \in Nat /\ Unit > 0 /\ Expiries \in Nat /\ e + 1 <= Expiries /\ e \in Nat
  BY SizesAssumption
<1>2. (e + 1) * Unit <= Expiries * Unit /\ 0 <= e * Unit /\ e * Unit \in Int
  BY <1>1
<1>3. (e + 1) * Unit = e * Unit + Unit
  BY <1>1
<1> QED
  BY <1>1, <1>2, <1>3 DEF Wrap, End

\* A new lease lasts as long as it was promised, and not a unit more.
LEMMA GrantLasts ==
    now \in 0..(Wrap - 1) =>
        LET d == (End(Expiry) - now) % Wrap
        IN  LeaseTime <= d /\ d < LeaseTime + Unit
<1> SUFFICES ASSUME now \in 0..(Wrap - 1)
             PROVE  LET d == (End(Expiry) - now) % Wrap
                    IN  LeaseTime <= d /\ d < LeaseTime + Unit
  OBVIOUS
<1> DEFINE t == (now + LeaseTime) % Wrap
           u == t % Unit
<1>1. /\ Unit \in Nat /\ Unit > 0 /\ LeaseTime \in Nat /\ LeaseTime + Unit < Wrap
      /\ Wrap \in Nat /\ Wrap > 0
  BY WrapType, SizesAssumption
<1>2. t = now + LeaseTime \/ t = now + LeaseTime - Wrap
  BY <1>1, Modulo
<1>3. Expiry * Unit = t - u /\ u \in 0..(Unit - 1) /\ t \in Int
  <2> HIDE DEF Wrap
  <2>1. t \in Int
    BY <1>1
  <2>2. t = Unit * (t \div Unit) + (t % Unit) /\ t \div Unit \in Int /\ t % Unit \in 0..(Unit - 1)
    <3> HIDE DEF t
    <3> QED
      BY <1>1, <2>1
  <2>3. Expiry = t \div Unit
    BY DEF Expiry
  <2> HIDE DEF t
  <2>4. Unit * (t \div Unit) = (t \div Unit) * Unit
    BY <1>1, <2>2
  <2> QED
    BY <1>1, <2>1, <2>2, <2>3, <2>4
<1> DEFINE k == Unit - 1 - u
<1>4. k \in 0..(Unit - 1)
  BY <1>1, <1>3
<1>5. End(Expiry) - now = LeaseTime + k \/ End(Expiry) - now = LeaseTime + k - Wrap
  BY <1>1, <1>2, <1>3 DEF End
<1> HIDE DEF t, u, k
<1>6. (End(Expiry) - now) % Wrap = LeaseTime + k
  <2>1. (LeaseTime + k) % Wrap = LeaseTime + k /\ (LeaseTime + k - Wrap) % Wrap = LeaseTime + k
    BY <1>1, <1>4, Modulo
  <2> QED
    BY <1>5, <2>1
<1> QED
  BY <1>1, <1>4, <1>6

\* A tick takes one off what remains, across the wrap of the time.
LEMMA TickTakes ==
    ASSUME NEW e \in 0..(Wrap - 1), now \in 0..(Wrap - 1), (e - now) % Wrap > 0
    PROVE  (e - ((now + 1) % Wrap)) % Wrap = ((e - now) % Wrap) - 1
<1>1. Wrap \in Nat /\ Wrap > 0
  BY WrapType
<1> DEFINE m == (now + 1) % Wrap
<1>2. m = now + 1 \/ (m = 0 /\ now = Wrap - 1)
  BY <1>1, Modulo
<1>3. m \in 0..(Wrap - 1)
  BY <1>1
<1> HIDE DEF m
<1>4. (e - now) % Wrap = IF now <= e THEN e - now ELSE e - now + Wrap
  BY <1>1, Modulo
<1>5. (e - m) % Wrap = IF m <= e THEN e - m ELSE e - m + Wrap
  BY <1>1, <1>3, Modulo
<1>6. now # e
  BY <1>1, <1>4
<1>7. (e - m) % Wrap = ((e - now) % Wrap) - 1
  BY <1>1, <1>2, <1>3, <1>4, <1>5, <1>6
<1> QED
  BY <1>7 DEF m

-----------------------------------------------------------------------------
(* No address twice *)

\* Slot i is leased to c for at least k more ticks, and no longer than any lease.
Lasts(c, i, k) == lease[i].mac = c /\ k <= Remaining(i) /\ Remaining(i) < LeaseTime + Unit

\* The inductive invariant: the server's lease outlasts the station's, which began to
\* count when it asked.
SearchesFirst == \A c \in Clients :
    /\ request[c].kind = "discover" => left[c] = 0
    /\ reply[c].kind = "offer" => request[c].kind = "discover"
BoundLeft == \A c \in Clients : bound[c] => left[c] > 0
HeldLeft == \A c \in Clients \ old : left[c] > 0 => Lasts(c, addr[c], left[c])
HeldAsked == \A c \in Clients :
    reply[c].kind = "ack" /\ asked[c] > 0 => Lasts(c, addr[c], asked[c])

HeldInv == LeaseInv /\ SearchesFirst /\ BoundLeft /\ HeldLeft /\ HeldAsked

LEMMA RemainingType == TypeOK => \A i \in Slots : Remaining(i) \in Nat
<1> SUFFICES ASSUME TypeOK, NEW i \in Slots PROVE Remaining(i) \in Nat
  OBVIOUS
<1>1. lease[i].expiry \in 0..(Expiries - 1) /\ now \in Int
  BY DEF TypeOK
<1>2. End(lease[i].expiry) \in Int
  BY <1>1, EndType, WrapType
<1> QED
  BY <1>1, <1>2, WrapType DEF Remaining

\* A lease that lasts is not cleared, and a slot that is leased is given to nobody else.
LEMMA DiscoverKeeps ==
    ASSUME HeldInv, NEW c \in Clients, Discover(c),
           NEW d \in Clients, NEW i \in Slots, NEW k \in Nat, Lasts(d, i, k)
    PROVE  Lasts(d, i, k)'
<1>1. TypeOK /\ now' = now
  BY DEF HeldInv, LeaseInv, Discover
<1>2. ~Expired(lease[i].expiry)
  <2>1. Remaining(i) \in Nat /\ Remaining(i) < LeaseTime + Unit
    BY <1>1, RemainingType DEF Lasts
  <2>2. LeaseTime + Unit <= Wrap \div 2
    BY SizesAssumption, WrapType
  <2>3. Remaining(i) < Wrap \div 2
    BY <2>1, <2>2, SizesAssumption, WrapType
  <2> QED
    BY <2>1, <2>3, WrapType DEF Expired, Remaining
<1>3. i \notin Cleared(c)
  BY <1>2 DEF Cleared
<1>4. lease'[i] = lease[i]
  <2> DEFINE S == Cleared(c)
  <2>1. Clear(S)
    BY DEF Discover
  <2> HIDE DEF S
  <2> QED
    BY <1>3, <2>1 DEF Clear, S
<1> QED
  BY <1>1, <1>4 DEF Lasts, Remaining

LEMMA DiscoverHeld == ASSUME HeldInv, NEW c \in Clients, Discover(c) PROVE HeldInv'
<1>1. /\ TypeOK /\ request' = request /\ bound' = bound /\ addr' = addr /\ left' = left
      /\ asked' = asked /\ old' = old
  BY DEF HeldInv, LeaseInv, Discover, stations
<1>2. \A d \in Clients, i \in Slots, k \in Nat : Lasts(d, i, k) => Lasts(d, i, k)'
  BY DiscoverKeeps
<1>3. \A d \in Clients : addr[d] \in Slots /\ left[d] \in Nat /\ asked[d] \in Nat
  BY <1>1 DEF TypeOK
<1>4. LeaseInv'
  BY NextLeases DEF HeldInv, Next
<1>5. \A d \in Clients :
         reply'[d].kind = reply[d].kind \/ (reply'[d].kind = "offer" /\ request[d].kind = "discover")
  <2>1. CASE reply' = reply
    BY <2>1
  <2>2. ASSUME NEW i \in Slots, reply' = [reply EXCEPT ![c] = Msg("offer", i)]
        PROVE  \A d \in Clients :
                   \/ reply'[d].kind = reply[d].kind
                   \/ reply'[d].kind = "offer" /\ request[d].kind = "discover"
    <3>1. request[c].kind = "discover"
      BY DEF Discover
    <3>2. reply'[c] = Msg("offer", i) /\ \A d \in Clients \ {c} : reply'[d] = reply[d]
      BY <1>1, <2>2 DEF TypeOK
    <3>3. reply'[c].kind = "offer"
      BY <3>2 DEF Msg
    <3> QED
      BY <3>1, <3>2, <3>3
  <2> QED
    BY <2>1, <2>2 DEF Discover
<1>6. SearchesFirst' /\ BoundLeft'
  BY <1>1, <1>5 DEF HeldInv, SearchesFirst, BoundLeft
<1>7. HeldLeft'
  BY <1>1, <1>2, <1>3 DEF HeldInv, HeldLeft
<1>8. HeldAsked'
  BY <1>1, <1>2, <1>3, <1>5 DEF HeldInv, HeldAsked
<1> QED
  BY <1>4, <1>6, <1>7, <1>8 DEF HeldInv

\* A request that comes late is granted the whole time again.
LEMMA RequestHeld == ASSUME HeldInv, NEW c \in Clients, Request(c) PROVE HeldInv'
<1>0. PICK i \in Slots : i = request[c].slot
  BY DEF HeldInv, LeaseInv, TypeOK
<1>1. /\ TypeOK /\ request[c].kind = "request" /\ addr[c] = i
      /\ request' = request /\ bound' = bound /\ addr' = addr /\ left' = left
      /\ asked' = asked /\ old' = old /\ now' = now
      /\ lease[i].mac \in {c, Nobody}
      /\ reply' = [reply EXCEPT ![c] = Msg("ack", i)]
  BY <1>0 DEF HeldInv, LeaseInv, RequestsOnly, Request, MayHave, stations
<1>2. /\ lease'[i].mac = c /\ lease'[i].expiry = Expiry
      /\ \A j \in Slots \ {i} : lease'[j] = lease[j]
  BY <1>0, <1>1 DEF Request, Grant, TypeOK
<1>3. \A d \in Clients : addr[d] \in Slots /\ left[d] \in 0..LeaseTime /\ asked[d] \in 0..LeaseTime
  BY <1>1 DEF TypeOK
<1>4. Remaining(i)' \in Nat /\ LeaseTime <= Remaining(i)' /\ Remaining(i)' < LeaseTime + Unit
  <2>1. Remaining(i)' = (End(Expiry) - now) % Wrap
    BY <1>1, <1>2 DEF Remaining
  <2>2. now \in 0..(Wrap - 1)
    BY <1>1 DEF TypeOK
  <2>3. End(Expiry) \in Int
    BY <2>2, ExpiryType, EndType, WrapType
  <2>4. (End(Expiry) - now) % Wrap \in Nat
    BY <2>2, <2>3, WrapType
  <2> QED
    BY <2>1, <2>2, <2>4, GrantLasts
<1>5. \A k \in 0..LeaseTime : Lasts(c, i, k)'
  BY <1>2, <1>4, SizesAssumption DEF Lasts
<1>6. \A d \in Clients \ {c}, j \in Slots, k \in Nat : Lasts(d, j, k) => Lasts(d, j, k)'
  <2> SUFFICES ASSUME NEW d \in Clients \ {c}, NEW j \in Slots, NEW k \in Nat, Lasts(d, j, k)
               PROVE  Lasts(d, j, k)'
    OBVIOUS
  <2>1. j # i
    BY <1>1, ClientsAssumption DEF Lasts
  <2> QED
    BY <1>1, <1>2, <2>1 DEF Lasts, Remaining
<1>7. LeaseInv'
  BY NextLeases DEF HeldInv, Next
<1>8. reply'[c].kind = "ack" /\ \A d \in Clients \ {c} : reply'[d] = reply[d]
  BY <1>1 DEF TypeOK, Msg
<1>9. SearchesFirst' /\ BoundLeft'
  BY <1>1, <1>8 DEF HeldInv, SearchesFirst, BoundLeft
<1>10. HeldLeft'
  BY <1>1, <1>3, <1>5, <1>6 DEF HeldInv, HeldLeft
<1>11. HeldAsked'
  BY <1>1, <1>3, <1>5, <1>6, <1>8 DEF HeldInv, HeldAsked
<1> QED
  BY <1>7, <1>9, <1>10, <1>11 DEF HeldInv

\* A station begins to count a lease when it asks for it, and uses it when it is acknowledged.
LEMMA StationHeld == ASSUME HeldInv, NEW c \in Clients, Station(c) PROVE HeldInv'
<1>1. TypeOK
  BY DEF HeldInv, LeaseInv
<1>2. lease' = lease /\ now' = now
  BY DEF Station, SendDiscover, Select, Rejoin, KeepOld, Bind, Renew, Release, server
<1>3. \A d \in Clients \ {c} :
         /\ request'[d] = request[d] /\ left'[d] = left[d] /\ addr'[d] = addr[d]
         /\ reply'[d] = reply[d] /\ bound'[d] = bound[d] /\ asked'[d] = asked[d]
         /\ d \in old' <=> d \in old
  BY <1>1 DEF Station, SendDiscover, Select, Rejoin, KeepOld, Bind, Renew, Release, Sends, TypeOK
<1>4. \A d, i, k : Lasts(d, i, k)' <=> Lasts(d, i, k)
  BY <1>2 DEF Lasts, Remaining
<1>5. LeaseInv'
  BY NextLeases DEF HeldInv, Next
<1>6. SUFFICES /\ request'[c].kind = "discover" => left'[c] = 0
               /\ reply'[c].kind = "offer" => request'[c].kind = "discover"
               /\ bound'[c] => left'[c] > 0
               /\ c \notin old' /\ left'[c] > 0 => Lasts(c, addr'[c], left'[c])
               /\ reply'[c].kind = "ack" /\ asked'[c] > 0 => Lasts(c, addr'[c], asked'[c])
  <2>1. SearchesFirst' /\ BoundLeft'
    BY <1>3, <1>6 DEF HeldInv, SearchesFirst, BoundLeft
  <2>2. HeldLeft'
    BY <1>3, <1>4, <1>6 DEF HeldInv, HeldLeft
  <2>3. HeldAsked'
    BY <1>3, <1>4, <1>6 DEF HeldInv, HeldAsked
  <2> QED
    BY <1>5, <2>1, <2>2, <2>3 DEF HeldInv
<1>7. ASSUME NEW m, Sends(c, m)
      PROVE  request'[c] = m /\ reply'[c].kind = "none"
  BY <1>1, <1>7 DEF Sends, None, TypeOK
<1>8. /\ request[c].kind = "discover" => left[c] = 0
      /\ reply[c].kind = "offer" => request[c].kind = "discover"
      /\ bound[c] => left[c] > 0
      /\ c \notin old /\ left[c] > 0 => Lasts(c, addr[c], left[c])
      /\ reply[c].kind = "ack" /\ asked[c] > 0 => Lasts(c, addr[c], asked[c])
  BY DEF HeldInv, SearchesFirst, BoundLeft, HeldLeft, HeldAsked
<1>9. CASE SendDiscover(c)
  BY <1>1, <1>7, <1>9 DEF SendDiscover, Msg, TypeOK
<1>10. CASE Select(c)
  <2>1. left[c] = 0 /\ ~bound[c] /\ left' = left /\ bound' = bound
    BY <1>8, <1>10 DEF Select
  <2>2. request'[c].kind = "request" /\ reply'[c].kind = "none"
    BY <1>7, <1>10 DEF Select, Msg
  <2> QED
    BY <2>1, <2>2
<1>11. CASE Rejoin(c)
  <2>1. left' = left /\ addr' = addr /\ old' = old /\ ~bound'[c]
    BY <1>1, <1>11 DEF Rejoin, TypeOK
  <2>2. request'[c].kind = "request" /\ reply'[c].kind = "none"
    BY <1>7, <1>11 DEF Rejoin, Msg
  <2> QED
    BY <1>8, <2>1, <2>2
<1>12. CASE KeepOld(c)
  BY <1>8, <1>12 DEF KeepOld
<1>13. CASE Bind(c)
  <2>1. /\ reply'[c].kind = "none" /\ request' = request /\ addr' = addr
        /\ left'[c] = asked[c] /\ bound'[c] = (asked[c] > 0)
    BY <1>1, <1>13 DEF Bind, None, TypeOK
  <2>2. request[c].kind = "request" /\ reply[c].kind = "ack"
    BY <1>13 DEF Bind, HeldInv, LeaseInv, AcksOnly
  <2> QED
    BY <1>8, <2>1, <2>2
<1>14. CASE Renew(c)
  <2>1. left' = left /\ addr' = addr /\ old' = old /\ bound' = bound
    BY <1>14 DEF Renew
  <2>2. request'[c].kind = "other" /\ reply'[c].kind = "none"
    BY <1>7, <1>14 DEF Renew, Msg
  <2> QED
    BY <1>8, <2>1, <2>2
<1>15. CASE Release(c)
  BY <1>1, <1>7, <1>15 DEF Release, Msg, TypeOK
<1> QED
  BY <1>9, <1>10, <1>11, <1>12, <1>13, <1>14, <1>15 DEF Station

\* A tick is counted by both sides.
LEMMA TickHeld == HeldInv /\ Tick => HeldInv'
<1> SUFFICES ASSUME HeldInv, Tick PROVE HeldInv'
  OBVIOUS
<1>1. /\ TypeOK /\ lease' = lease /\ request' = request /\ reply' = reply /\ addr' = addr
      /\ now' = (now + 1) % Wrap /\ now \in 0..(Wrap - 1)
  BY DEF HeldInv, LeaseInv, Tick, TypeOK
<1>2. \A d \in Clients :
         /\ left[d] \in Nat /\ asked[d] \in Nat /\ addr[d] \in Slots
         /\ left'[d] = (IF left[d] > 0 THEN left[d] - 1 ELSE 0)
         /\ asked'[d] = (IF asked[d] > 0 THEN asked[d] - 1 ELSE 0)
         /\ bound'[d] => left[d] > 1
         /\ d \in old /\ left[d] > 1 => d \in old'
  <2> TAKE d \in Clients
  <2>1. left[d] \in Nat /\ asked[d] \in Nat /\ addr[d] \in Slots
    BY <1>1 DEF TypeOK
  <2>2. /\ left'[d] = (IF left[d] > 0 THEN left[d] - 1 ELSE 0)
        /\ asked'[d] = (IF asked[d] > 0 THEN asked[d] - 1 ELSE 0)
    BY DEF Tick, Less
  <2>3. bound'[d] => left[d] > 1
    BY DEF Tick
  <2>4. d \in old /\ left[d] > 1 => d \in old'
    BY DEF Tick
  <2> QED
    BY <2>1, <2>2, <2>3, <2>4
<1>3. ASSUME NEW d \in Clients, NEW i \in Slots, NEW k \in Nat, k > 0, Lasts(d, i, k)
      PROVE  Lasts(d, i, k - 1)'
  <2>1. Remaining(i) \in Nat /\ Remaining(i) > 0
    BY <1>1, <1>3, RemainingType DEF Lasts
  <2>2. lease[i].expiry \in 0..(Expiries - 1)
    BY <1>1 DEF TypeOK
  <2>3. PICK e \in 0..(Wrap - 1) : e = End(lease[i].expiry)
    BY <2>2, EndType
  <2>4. Remaining(i) = (e - now) % Wrap /\ Remaining(i)' = (e - ((now + 1) % Wrap)) % Wrap
    BY <1>1, <2>3 DEF Remaining
  <2>5. Remaining(i)' = Remaining(i) - 1
    BY <1>1, <2>1, <2>4, TickTakes
  <2> QED
    BY <1>1, <1>3, <2>1, <2>5, SizesAssumption DEF Lasts
<1>4. LeaseInv'
  BY NextLeases DEF HeldInv, Next
<1>5. SearchesFirst' /\ BoundLeft'
  BY <1>1, <1>2 DEF HeldInv, SearchesFirst, BoundLeft
<1>6. HeldLeft'
  <2> SUFFICES ASSUME NEW d \in Clients, d \notin old', left'[d] > 0
               PROVE  Lasts(d, addr[d], left[d])'
    BY DEF HeldLeft
  <2>1. PICK i \in Slots, k \in Nat : i = addr[d] /\ k = left[d]
    BY <1>2
  <2>2. k > 1 /\ d \notin old /\ i = addr'[d] /\ k - 1 = left'[d]
    BY <1>1, <1>2, <2>1
  <2>3. Lasts(d, i, k)
    <3>1. d \in Clients \ old /\ left[d] > 0
      BY <2>1, <2>2
    <3>2. Lasts(d, addr[d], left[d])
      BY <3>1 DEF HeldInv, HeldLeft
    <3> QED
      BY <2>1, <3>2
  <2>4. Lasts(d, i, k - 1)'
    BY <1>3, <2>2, <2>3
  <2> QED
    BY <2>2, <2>4 DEF Lasts, Remaining
<1>7. HeldAsked'
  BY <1>1, <1>2, <1>3 DEF HeldInv, HeldAsked
<1> QED
  BY <1>4, <1>5, <1>6, <1>7 DEF HeldInv

LEMMA RestartHeld == HeldInv /\ Restart => HeldInv'
<1> SUFFICES ASSUME HeldInv, Restart PROVE HeldInv'
  OBVIOUS
<1>1. LeaseInv'
  BY NextLeases DEF HeldInv, Next
<1>2. \A d \in Clients :
         /\ request'[d].kind = "none" /\ reply'[d].kind = "none" /\ ~bound'[d]
         /\ d \notin old' => ~(left'[d] > 0)
  BY DEF Restart, None
<1> QED
  BY <1>1, <1>2 DEF HeldInv, SearchesFirst, BoundLeft, HeldLeft, HeldAsked

LEMMA NextHeld == HeldInv /\ [Next]_vars => HeldInv'
<1> SUFFICES ASSUME HeldInv, [Next]_vars PROVE HeldInv'
  OBVIOUS
<1>1. CASE UNCHANGED vars
  <2>1. LeaseInv'
    BY <1>1, NextLeases DEF HeldInv
  <2> QED
    BY <1>1, <2>1 DEF vars, server, stations, HeldInv, SearchesFirst, BoundLeft, HeldLeft, HeldAsked,
                      Lasts, Remaining
<1>2. ASSUME NEW c \in Clients, Discover(c) PROVE HeldInv'
  BY <1>2, DiscoverHeld
<1>3. ASSUME NEW c \in Clients, Request(c) PROVE HeldInv'
  BY <1>3, RequestHeld
<1>4. ASSUME NEW c \in Clients, Station(c) PROVE HeldInv'
  BY <1>4, StationHeld
<1> QED
  BY <1>1, <1>2, <1>3, <1>4, TickHeld, RestartHeld DEF Next

LEMMA InitHeld == Init => HeldInv
<1> SUFFICES ASSUME Init PROVE HeldInv
  OBVIOUS
<1>1. LeaseInv
  BY InitLeases
<1> QED
  BY <1>1 DEF Init, None, HeldInv, SearchesFirst, BoundLeft, HeldLeft, HeldAsked

\* Two stations never use one address that was granted since the server started, for every
\* number of stations and addresses and every width of the time (dhcpserver.c:226-300).
THEOREM NoAddressTwiceStays == Spec => []NoAddressTwice
<1>1. HeldInv => NoAddressTwice
  BY DEF HeldInv, BoundLeft, HeldLeft, Lasts, NoAddressTwice
<1> QED
  BY <1>1, InitHeld, NextHeld, PTL DEF Spec

-----------------------------------------------------------------------------
(* The walk over the options of a message *)

\* An option, or nothing in the place of one.
Piece(x) ==
    x \in Seq(Byte) /\ (x = <<>> \/ (2 <= Len(x) /\ Len(x) = 2 + x[2] /\ x[1] \in 1..254))

\* The first n of the pieces s, one after the other: the k-th ends at at[k].
Ends(n, at, s) ==
    /\ n \in Nat /\ at \in [0..n -> Nat] /\ at[0] = 0
    /\ \A k \in 1..n : Piece(s[k]) /\ at[k] = at[k - 1] + Len(s[k])

\* The options opt are these pieces and the end.
Pieces(opt, n, at, s) ==
    /\ Ends(n, at, s)
    /\ opt \in Seq(Byte) /\ Len(opt) = at[n] + 1 /\ opt[at[n] + 1] = 255
    /\ \A k \in 1..n : \A j \in 1..Len(s[k]) : opt[at[k - 1] + j] = s[k][j]

\* A walk g goes on over what has not the code.
Steps(g, opt, code) ==
    \A i \in Nat : i < Len(opt) /\ opt[i + 1] # 255 /\ opt[i + 1] # 0 /\ opt[i + 1] # code
        => g[i] = g[i + 2 + opt[i + 2]]

Coded(x, code) == x # <<>> /\ x[1] = code

\* The pieces of the code are all x.
AllOf(n, s, code, x) ==
    (\E j \in 1..n : Coded(s[j], code)) /\ \A j \in 1..n : Coded(s[j], code) => s[j] = x

LEMMA EndsInside ==
    ASSUME NEW n, NEW at, NEW s, Ends(n, at, s)
    PROVE  \A k \in 0..n : at[k] \in Nat /\ at[k] <= at[n]
<1>1. n \in Nat /\ at \in [0..n -> Nat]
  BY DEF Ends
<1>2. \A k \in 1..n : at[k] = at[k - 1] + Len(s[k]) /\ Len(s[k]) \in Nat
  BY DEF Ends, Piece
<1> DEFINE S == {j \in Nat : j <= n => at[n - j] <= at[n]}
<1>3. 0 \in S
  BY <1>1
<1>4. ASSUME NEW j \in S PROVE j + 1 \in S
  <2> SUFFICES ASSUME j + 1 <= n PROVE at[n - (j + 1)] <= at[n]
    OBVIOUS
  <2>1. j \in Nat /\ n - j \in 1..n /\ (n - j) - 1 = n - (j + 1) /\ n - (j + 1) \in 0..n
    BY <1>1
  <2>2. at[n - j] = at[n - (j + 1)] + Len(s[n - j]) /\ Len(s[n - j]) \in Nat
    BY <1>2, <2>1
  <2>3. at[n - j] <= at[n] /\ at[n - (j + 1)] \in Nat /\ at[n] \in Nat
    BY <1>1, <2>1
  <2> QED
    BY <2>2, <2>3
<1>5. S = Nat
  <2>1. S \in SUBSET Nat
    OBVIOUS
  <2> HIDE DEF S
  <2> QED
    BY <1>3, <1>4, <2>1, SetInduction
<1>6. ASSUME NEW k \in 0..n PROVE at[k] \in Nat /\ at[k] <= at[n]
  <2>1. n - k \in S /\ n - k <= n /\ n - (n - k) = k
    <3>1. n - k \in Nat
      BY <1>1
    <3> HIDE DEF S
    <3> QED
      BY <1>1, <1>5, <3>1
  <2> QED
    BY <1>1, <2>1
<1> QED
  BY <1>6

\* A walk ends at the first piece of the code it looks for, or behind them all.
LEMMA WalkEnds ==
    ASSUME NEW opt, NEW n, NEW at, NEW s, NEW g, NEW code,
           Pieces(opt, n, at, s), Steps(g, opt, code)
    PROVE  \/ g[0] = g[at[n]] /\ \A j \in 1..n : ~Coded(s[j], code)
           \/ \E j \in 1..n : Coded(s[j], code) /\ g[0] = g[at[j - 1]]
<1>1. /\ n \in Nat /\ at \in [0..n -> Nat] /\ at[0] = 0
      /\ Len(opt) = at[n] + 1
  BY DEF Pieces, Ends
<1>0. \A k \in 0..n : at[k] \in Nat /\ at[k] <= at[n]
  BY EndsInside DEF Pieces
<1> DEFINE Passed(k) == g[0] = g[at[k]] /\ \A j \in 1..k : ~Coded(s[j], code)
           Hit(j) == Coded(s[j], code) /\ g[0] = g[at[j - 1]]
           S == {k \in Nat : k <= n => Passed(k) \/ \E j \in 1..n : Hit(j)}
<1>2. 0 \in S
  BY <1>1
<1>3. ASSUME NEW k \in S PROVE k + 1 \in S
  <2> SUFFICES ASSUME k + 1 <= n PROVE Passed(k + 1) \/ \E j \in 1..n : Hit(j)
    OBVIOUS
  <2>1. k \in Nat /\ k \in 0..n /\ k + 1 \in 1..n /\ (k + 1) - 1 = k /\ k + 1 \in 0..n
    BY <1>1
  <2>2. CASE \E j \in 1..n : Hit(j)
    BY <2>2
  <2>3. CASE Passed(k)
    <3>1. CASE Coded(s[k + 1], code)
      <4>1. Hit(k + 1)
        BY <2>1, <2>3, <3>1
      <4> QED
        BY <2>1, <4>1
    <3>2. CASE ~Coded(s[k + 1], code)
      <4>1. \A j \in 1..k + 1 : ~Coded(s[j], code)
        <5>1. \A j \in 1..k + 1 : j \in 1..k \/ j = k + 1
          BY <2>1
        <5> QED
          BY <2>3, <3>2, <5>1
      <4>2. g[at[k + 1]] = g[at[k]]
        <5>1. Piece(s[k + 1]) /\ at[k + 1] = at[k] + Len(s[k + 1])
          BY <2>1 DEF Pieces, Ends
        <5>2. \A j \in 1..Len(s[k + 1]) : opt[at[k] + j] = s[k + 1][j]
          <6>1. \A j \in 1..Len(s[k + 1]) : opt[at[(k + 1) - 1] + j] = s[k + 1][j]
            BY <2>1, Zenon DEF Pieces, Ends
          <6> QED
            BY <2>1, <6>1
        <5>3. at[k] \in Nat /\ at[k + 1] \in Nat /\ at[k + 1] <= at[n] /\ at[n] \in Nat
          BY <1>0, <1>1, <2>1
        <5>4. CASE s[k + 1] = <<>>
          BY <5>1, <5>3, <5>4
        <5>5. CASE s[k + 1] # <<>>
          <6> DEFINE x == s[k + 1]
                     a == at[k]
          <6>1. x \in Seq(Byte) /\ 2 <= Len(x) /\ Len(x) = 2 + x[2] /\ x[1] \in 1..254 /\ Len(x) \in Nat
            BY <5>1, <5>5 DEF Piece
          <6>2. x[1] # code
            BY <3>2, <5>5 DEF Coded
          <6>3. opt[a + 1] = x[1] /\ opt[a + 2] = x[2]
            <7>1. 1 \in 1..Len(x) /\ 2 \in 1..Len(x)
              BY <6>1
            <7> QED
              BY <5>2, <7>1
          <6>4. a < Len(opt)
            BY <1>1, <5>1, <5>3, <6>1
          <6>5. x[1] # 255 /\ x[1] # 0 /\ x[2] \in Int
            <7>1. 2 \in 1..Len(x)
              BY <6>1
            <7>2. x[2] \in Byte
              BY <6>1, <7>1, ElementOfSeq
            <7>3. x[2] \in Int
              BY <7>2 DEF Byte
            <7>4. x[1] # 255 /\ x[1] # 0
              <8>1. \A v \in 1..254 : v # 255 /\ v # 0
                OBVIOUS
              <8> QED
                BY <6>1, <8>1
            <7> QED
              BY <7>3, <7>4
          <6> HIDE DEF a, x
          <6>6. a \in Nat /\ at[k + 1] = a + Len(x) /\ a = at[k]
            BY <5>1, <5>3 DEF a, x
          <6>7. g[a] = g[a + 2 + opt[a + 2]]
            BY <6>2, <6>3, <6>4, <6>5, <6>6 DEF Steps
          <6>8. a + 2 + opt[a + 2] = a + Len(x)
            BY <6>1, <6>3, <6>5, <6>6
          <6> QED
            BY <6>6, <6>7, <6>8
        <5> QED
          BY <5>4, <5>5
      <4> QED
        BY <2>3, <4>1, <4>2
    <3> QED
      BY <3>1, <3>2
  <2> HIDE DEF Passed, Hit
  <2> QED
    BY <2>1, <2>2, <2>3
<1>4. S = Nat
  <2>1. S \in SUBSET Nat
    OBVIOUS
  <2> HIDE DEF S
  <2> QED
    BY <1>2, <1>3, <2>1, SetInduction
<1>5. Passed(n) \/ \E j \in 1..n : Hit(j)
  <2> HIDE DEF Passed, Hit
  <2>1. n \in S
    <3> HIDE DEF S
    <3> QED
      BY <1>1, <1>4
  <2> QED
    BY <1>1, <2>1
<1> QED
  BY <1>5

\* Where a walk stands, the length of an option follows.
LEMMA OptionInside ==
    ASSUME NEW opt \in Seq(Byte), 1 <= Len(opt), opt[Len(opt)] = 255
    PROVE  \A i \in Nat : i < Len(opt) /\ opt[i + 1] # 255
               => i + 1 < Len(opt) /\ opt[i + 2] \in Byte /\ opt[i + 2] \in Nat
<1> TAKE i \in Nat
<1> HAVE i < Len(opt) /\ opt[i + 1] # 255
<1>1. Len(opt) \in Nat
  OBVIOUS
<1>2. i + 1 # Len(opt)
  OBVIOUS
<1>3. i + 2 \in 1..Len(opt) /\ i + 1 < Len(opt)
  BY <1>1, <1>2
<1>4. opt[i + 2] \in Byte
  BY <1>3, ElementOfSeq
<1>5. \A x \in Byte : x \in Nat
  BY DEF Byte
<1>6. opt[i + 2] \in Nat
  BY <1>4, <1>5
<1> QED
  BY <1>3, <1>4, <1>6

\* opt_find() passes the options one after the other.
LEMMA FindWalks ==
    ASSUME NEW opt \in Seq(Byte), 1 <= Len(opt), opt[Len(opt)] = 255, Len(opt) <= 308, NEW cmd
    PROVE  \E g :
               /\ opt_find(opt, cmd) = g[0]
               /\ \A i \in Nat :
                      g[i] = IF i >= 308 \/ i >= Len(opt) \/ opt[i + 1] = 255 THEN NotFound
                             ELSE IF opt[i + 1] = cmd THEN i ELSE g[i + 2 + opt[i + 2]]
<1> DEFINE Body(g) == [i \in Nat |->
               IF i >= 308 \/ i >= Len(opt) \/ opt[i + 1] = 255 THEN NotFound
               ELSE IF opt[i + 1] = cmd THEN i ELSE g[i + 2 + opt[i + 2]]]
           from == CHOOSE g : g = Body(g)
           ends(i) == i >= 308 \/ i >= Len(opt) \/ opt[i + 1] = 255
           stop == {i \in Nat : ends(i) \/ opt[i + 1] = cmd}
           base == [i \in Nat |-> IF ends(i) THEN NotFound ELSE i]
           next == [i \in Nat \ stop |-> i + 2 + opt[i + 2]]
           step == [q \in Nat \X Int |-> q[2]]
           n == Len(opt)
           rank == [i \in Nat |-> IF i >= n THEN 0 ELSE n - i]
<1>1. opt_find(opt, cmd) = from[0]
  BY DEF opt_find
<1>2. n \in Nat
  OBVIOUS
<1>3. \A i \in Nat \ stop : i < n /\ opt[i + 1] # 255 /\ opt[i + 2] \in Nat
  BY OptionInside
<1>4. WellRanked(Nat, Int, stop, base, next, step, rank, n)
  <2>1. base \in [Nat -> Int]
    BY DEF NotFound
  <2>2. next \in [Nat \ stop -> Nat]
    <3> HIDE DEF stop
    <3> QED
      BY <1>3
  <2>3. rank \in [Nat -> 0..n]
    <3> HIDE DEF n
    <3> QED
      BY <1>2
  <2>4. \A p \in Nat \ stop : rank[next[p]] < rank[p]
    <3> TAKE p \in Nat \ stop
    <3>1. p < n /\ opt[p + 2] \in Nat /\ next[p] = p + 2 + opt[p + 2]
      BY <1>3
    <3>2. rank[p] = n - p
      <4> HIDE DEF n, stop, next
      <4> QED
        BY <1>2, <3>1
    <3>3. p < next[p] /\ next[p] \in Nat
      <4> HIDE DEF n, stop, next
      <4> QED
        BY <3>1
    <3>4. rank[next[p]] = 0 \/ rank[next[p]] = n - next[p]
      <4> HIDE DEF next, n
      <4> QED
        BY <3>3
    <3> HIDE DEF n, rank, next, stop
    <3> QED
      BY <1>2, <3>1, <3>2, <3>3, <3>4
  <2>5. stop \subseteq Nat /\ step \in [Nat \X Int -> Int] /\ Int # {}
    OBVIOUS
  <2> HIDE DEF stop, base, next, step, rank, n
  <2> QED
    BY <1>2, <2>1, <2>2, <2>3, <2>4, <2>5 DEF WellRanked, Ranked
<1>5. PICK f \in [Nat -> Int] : Solves(f, Nat, stop, base, next, step)
  <2> HIDE DEF stop, base, next, step, rank, n
  <2> QED
    BY <1>4, RecursionDefines
<1>6. ASSUME NEW i \in Nat
      PROVE  f[i] = IF i >= 308 \/ i >= Len(opt) \/ opt[i + 1] = 255 THEN NotFound
                    ELSE IF opt[i + 1] = cmd THEN i ELSE f[i + 2 + opt[i + 2]]
  <2>1. CASE i \in stop
    <3>1. f[i] = base[i]
      <4> HIDE DEF stop, base, next, step
      <4> QED
        BY <1>5, <2>1 DEF Solves
    <3> QED
      BY <2>1, <3>1
  <2>2. CASE i \notin stop
    <3>1. f[i] = step[<<i, f[next[i]]>>]
      <4> HIDE DEF stop, base, next, step
      <4> QED
        BY <1>5, <2>2 DEF Solves
    <3>2. next[i] = i + 2 + opt[i + 2] /\ next[i] \in Nat
      <4>1. i \in Nat \ stop
        BY <2>2
      <4>2. opt[i + 2] \in Nat
        <5> HIDE DEF stop
        <5> QED
          BY <1>3, <4>1
      <4>3. next[i] = i + 2 + opt[i + 2]
        BY <4>1, Zenon
      <4> DEFINE d == opt[i + 2]
      <4>4. d \in Nat /\ i \in Nat
        BY <4>2
      <4> HIDE DEF d
      <4>5. i + 2 + d \in Nat
        BY <4>4
      <4> USE DEF d
      <4> HIDE DEF next
      <4> QED
        BY <4>3, <4>5, Zenon
    <3>3. f[next[i]] \in Int
      <4> HIDE DEF next
      <4> QED
        BY <3>2
    <3>4. \A x \in Int : step[<<i, x>>] = x
      OBVIOUS
    <3>5. step[<<i, f[next[i]]>>] = f[next[i]]
      <4> HIDE DEF next, step
      <4> QED
        BY <3>3, <3>4, Zenon
    <3>6. f[i] = f[i + 2 + opt[i + 2]]
      <4> HIDE DEF next, step
      <4> QED
        BY <3>1, <3>2, <3>5, Zenon
    <3> QED
      BY <2>2, <3>6
  <2> QED
    BY <2>1, <2>2
<1>7. f = [i \in Nat |-> IF i >= 308 \/ i >= Len(opt) \/ opt[i + 1] = 255 THEN NotFound
                         ELSE IF opt[i + 1] = cmd THEN i ELSE f[i + 2 + opt[i + 2]]]
  <2> HIDE DEF stop, base, next, step, rank, n
  <2> QED
    BY <1>6
<1>8. from = Body(from)
  <2>1. f = Body(f)
    BY <1>7
  <2> HIDE DEF Body
  <2> QED
    BY <2>1
<1> HIDE DEF from
<1>9. \A i \in Nat :
          from[i] = IF i >= 308 \/ i >= Len(opt) \/ opt[i + 1] = 255 THEN NotFound
                    ELSE IF opt[i + 1] = cmd THEN i ELSE from[i + 2 + opt[i + 2]]
  <2>1. \A i \in Nat :
            Body(from)[i] = IF i >= 308 \/ i >= Len(opt) \/ opt[i + 1] = 255 THEN NotFound
                            ELSE IF opt[i + 1] = cmd THEN i ELSE from[i + 2 + opt[i + 2]]
    BY Zenon
  <2> HIDE DEF Body
  <2>2. \A h : h = Body(from) => \A i \in Nat : h[i] = Body(from)[i]
    OBVIOUS
  <2>3. \A i \in Nat : from[i] = Body(from)[i]
    BY <1>8, <2>2, Zenon
  <2> QED
    BY <2>1, <2>3
<1> QED
  BY <1>1, <1>9

\* It finds the first option of the code, if there is one.
FindIs(opt, n, at, s, cmd) ==
    \/ opt_find(opt, cmd) = NotFound /\ \A j \in 1..n : ~Coded(s[j], cmd)
    \/ \E j \in 1..n : Coded(s[j], cmd) /\ opt_find(opt, cmd) = at[j - 1]

LEMMA Found ==
    ASSUME NEW opt, NEW n, NEW at, NEW s, NEW cmd \in 1..254,
           Pieces(opt, n, at, s), Len(opt) <= 308
    PROVE  FindIs(opt, n, at, s, cmd)
<1>1. /\ n \in Nat /\ at \in [0..n -> Nat] /\ opt \in Seq(Byte) /\ Len(opt) = at[n] + 1
      /\ opt[at[n] + 1] = 255
  BY DEF Pieces, Ends
<1>2. at[n] \in Nat /\ 1 <= Len(opt) /\ opt[Len(opt)] = 255
  BY <1>1
<1>3. PICK g :
          /\ opt_find(opt, cmd) = g[0]
          /\ \A i \in Nat :
                 g[i] = IF i >= 308 \/ i >= Len(opt) \/ opt[i + 1] = 255 THEN NotFound
                        ELSE IF opt[i + 1] = cmd THEN i ELSE g[i + 2 + opt[i + 2]]
  BY <1>1, <1>2, FindWalks
<1>4. Steps(g, opt, cmd)
  <2>1. ASSUME NEW i \in Nat, i < Len(opt), opt[i + 1] # 255, opt[i + 1] # cmd
        PROVE  g[i] = g[i + 2 + opt[i + 2]]
    <3>1. ~(i >= 308) /\ ~(i >= Len(opt))
      BY <1>1, <1>2, <2>1
    <3> QED
      BY <1>3, <2>1, <3>1
  <2> QED
    BY <2>1 DEF Steps
<1>5. \/ g[0] = g[at[n]] /\ \A j \in 1..n : ~Coded(s[j], cmd)
      \/ \E j \in 1..n : Coded(s[j], cmd) /\ g[0] = g[at[j - 1]]
  BY <1>4, WalkEnds
<1>6. g[at[n]] = NotFound
  BY <1>1, <1>2, <1>3
<1>7. ASSUME NEW j \in 1..n, Coded(s[j], cmd) PROVE g[at[j - 1]] = at[j - 1]
  <2>1. j - 1 \in 0..n /\ at[j - 1] \in Nat /\ at[j] \in Nat /\ at[j] <= at[n]
    <3>1. j - 1 \in 0..n /\ j \in 0..n
      BY <1>1
    <3>2. \A k \in 0..n : at[k] \in Nat /\ at[k] <= at[n]
      BY EndsInside DEF Pieces
    <3> QED
      BY <3>1, <3>2
  <2>2. Piece(s[j]) /\ at[j] = at[j - 1] + Len(s[j]) /\ \A i \in 1..Len(s[j]) : opt[at[j - 1] + i] = s[j][i]
    <3>1. Piece(s[j]) /\ at[j] = at[j - 1] + Len(s[j])
      BY DEF Pieces, Ends
    <3>2. \A k \in 1..n : \A i \in 1..Len(s[k]) : opt[at[k - 1] + i] = s[k][i]
      BY DEF Pieces, Ends
    <3>3. \A i \in 1..Len(s[j]) : opt[at[j - 1] + i] = s[j][i]
      BY <1>7, <3>2, Zenon
    <3> QED
      BY <3>1, <3>3
  <2>3. 2 <= Len(s[j]) /\ Len(s[j]) \in Nat
    BY <1>7, <2>2 DEF Piece, Coded
  <2>4. opt[at[j - 1] + 1] = cmd
    <3>1. 1 \in 1..Len(s[j])
      BY <2>3
    <3> QED
      BY <1>7, <2>2, <3>1 DEF Coded
  <2>5. at[j - 1] < Len(opt) /\ ~(at[j - 1] >= 308) /\ ~(at[j - 1] >= Len(opt)) /\ cmd # 255
    <3>1. at[j - 1] + 2 <= at[n] /\ at[n] + 1 <= 308
      BY <1>1, <1>2, <2>1, <2>2, <2>3
    <3>2. Len(opt) = at[n] + 1
      BY <1>1
    <3>3. cmd # 255
      OBVIOUS
    <3>4. PICK a \in Nat, b \in Nat : a = at[j - 1] /\ b = at[n]
      BY <1>2, <2>1
    <3> QED
      BY <3>1, <3>2, <3>3, <3>4
  <2> QED
    BY <1>3, <2>1, <2>4, <2>5
<1> QED
  BY <1>3, <1>5, <1>6, <1>7 DEF FindIs

\* A part of a message.
LEMMA PartOf ==
    ASSUME NEW s \in Seq(Byte), NEW m \in Nat, NEW d \in Nat, m + d <= Len(s)
    PROVE  /\ SubSeq(s, m + 1, m + d) \in Seq(Byte) /\ Len(SubSeq(s, m + 1, m + d)) = d
           /\ \A i \in 1..d : SubSeq(s, m + 1, m + d)[i] = s[m + i]
<1>1. \A i \in m + 1..m + d : s[i] \in Byte
  <2> TAKE i \in m + 1..m + d
  <2>1. i \in 1..Len(s)
    OBVIOUS
  <2> QED
    BY <2>1, ElementOfSeq
<1>2. m + 1 \in Int /\ m + d \in Int
  OBVIOUS
<1> DEFINE u == SubSeq(s, m + 1, m + d)
<1>3. /\ u \in Seq(Byte) /\ Len(u) = IF m + 1 <= m + d THEN m + d - (m + 1) + 1 ELSE 0
      /\ \A i \in 1..m + d - (m + 1) + 1 : u[i] = s[m + 1 + i - 1]
  BY <1>1, <1>2, SubSeqProperties
<1> HIDE DEF u
<1>4. m + d - (m + 1) + 1 = d /\ Len(u) = d
  BY <1>3
<1>5. \A i \in 1..d : u[i] = s[m + i]
  <2> TAKE i \in 1..d
  <2>1. m + 1 + i - 1 = m + i
    OBVIOUS
  <2> QED
    BY <1>3, <1>4, <2>1
<1> QED
  BY <1>3, <1>4, <1>5 DEF u

\* How a station reads an option: the same walk.
ReadBy(g, opt, cmd) ==
    \A i \in Nat :
        g[i] = IF i >= Len(opt) \/ opt[i + 1] = 255 THEN <<>>
               ELSE IF opt[i + 1] = cmd THEN SubSeq(opt, i + 3, i + 2 + opt[i + 2])
               ELSE g[IF opt[i + 1] = 0 THEN i + 1 ELSE i + 2 + opt[i + 2]]

LEMMA ValueWalks ==
    ASSUME NEW opt \in Seq(Byte), 1 <= Len(opt), opt[Len(opt)] = 255, NEW cmd
    PROVE  \E g : Value(opt, cmd) = g[0] /\ ReadBy(g, opt, cmd)
<1> DEFINE Body(g) == [i \in Nat |->
               IF i >= Len(opt) \/ opt[i + 1] = 255 THEN <<>>
               ELSE IF opt[i + 1] = cmd THEN SubSeq(opt, i + 3, i + 2 + opt[i + 2])
               ELSE g[IF opt[i + 1] = 0 THEN i + 1 ELSE i + 2 + opt[i + 2]]]
           from == CHOOSE g : g = Body(g)
           val(i) == SubSeq(opt, i + 3, i + 2 + opt[i + 2])
           to(i) == IF opt[i + 1] = 0 THEN i + 1 ELSE i + 2 + opt[i + 2]
           X == {<<>>} \cup {val(i) : i \in Nat}
           ends(i) == i >= Len(opt) \/ opt[i + 1] = 255
           stop == {i \in Nat : ends(i) \/ opt[i + 1] = cmd}
           base == [i \in Nat |-> IF ends(i) THEN <<>> ELSE val(i)]
           next == [i \in Nat \ stop |-> to(i)]
           step == [q \in Nat \X X |-> q[2]]
           n == Len(opt)
           rank == [i \in Nat |-> IF i >= n THEN 0 ELSE n - i]
<1>1. Value(opt, cmd) = from[0]
  BY DEF Value
<1>2. n \in Nat
  OBVIOUS
<1>3. \A i \in Nat \ stop : i < n /\ opt[i + 1] # 255 /\ opt[i + 2] \in Nat
  BY OptionInside
<1>0. \A i \in Nat \ stop : to(i) \in Nat /\ i < to(i)
  <2> TAKE i \in Nat \ stop
  <2>1. opt[i + 2] \in Nat /\ i \in Nat
    BY <1>3
  <2> HIDE DEF stop
  <2> QED
    BY <2>1
<1> HIDE DEF to
<1>4. WellRanked(Nat, X, stop, base, next, step, rank, n)
  <2>1. base \in [Nat -> X]
    <3> HIDE DEF val, ends
    <3> QED
      OBVIOUS
  <2>2. next \in [Nat \ stop -> Nat]
    <3> HIDE DEF stop
    <3> QED
      BY <1>0
  <2>3. rank \in [Nat -> 0..n]
    <3> HIDE DEF n
    <3> QED
      BY <1>2
  <2>4. \A p \in Nat \ stop : rank[next[p]] < rank[p]
    <3> TAKE p \in Nat \ stop
    <3>1. p \in Nat /\ p < n /\ next[p] = to(p) /\ to(p) \in Nat /\ p < to(p)
      BY <1>0, <1>3
    <3>2. rank[p] = n - p
      <4> HIDE DEF n, stop, next
      <4> QED
        BY <1>2, <3>1
    <3>3. p < next[p] /\ next[p] \in Nat
      <4> HIDE DEF n, stop, next
      <4> QED
        BY <3>1
    <3>4. rank[next[p]] = 0 \/ rank[next[p]] = n - next[p]
      <4> HIDE DEF next, n
      <4> QED
        BY <3>3
    <3> HIDE DEF n, rank, next, stop
    <3> QED
      BY <1>2, <3>1, <3>2, <3>3, <3>4
  <2>5. stop \subseteq Nat /\ step \in [Nat \X X -> X] /\ X # {}
    <3> HIDE DEF val
    <3> QED
      OBVIOUS
  <2> HIDE DEF stop, base, next, step, rank, n, X
  <2> QED
    BY <1>2, <2>1, <2>2, <2>3, <2>4, <2>5 DEF WellRanked, Ranked
<1>5. PICK f \in [Nat -> X] : Solves(f, Nat, stop, base, next, step)
  <2> HIDE DEF stop, base, next, step, rank, n, X
  <2> QED
    BY <1>4, RecursionDefines
<1>6. ASSUME NEW i \in Nat
      PROVE  f[i] = IF i >= Len(opt) \/ opt[i + 1] = 255 THEN <<>>
                    ELSE IF opt[i + 1] = cmd THEN val(i) ELSE f[to(i)]
  <2>1. CASE i \in stop
    <3>1. f[i] = base[i]
      <4> HIDE DEF stop, base, next, step
      <4> QED
        BY <1>5, <2>1 DEF Solves
    <3> HIDE DEF val
    <3> QED
      BY <2>1, <3>1
  <2>2. CASE i \notin stop
    <3>1. f[i] = step[<<i, f[next[i]]>>]
      <4> HIDE DEF stop, base, next, step
      <4> QED
        BY <1>5, <2>2 DEF Solves
    <3>2. next[i] = to(i) /\ next[i] \in Nat
      <4>1. i \in Nat \ stop
        BY <2>2
      <4>2. next[i] = to(i)
        BY <4>1, Zenon
      <4> HIDE DEF next, stop
      <4> QED
        BY <1>0, <4>1, <4>2
    <3>3. f[next[i]] \in X
      <4> HIDE DEF next
      <4> QED
        BY <3>2
    <3>4. \A x \in X : step[<<i, x>>] = x
      <4> HIDE DEF X
      <4> QED
        OBVIOUS
    <3>5. step[<<i, f[next[i]]>>] = f[next[i]]
      <4> HIDE DEF next, step, X
      <4> QED
        BY <3>3, <3>4, Zenon
    <3>6. f[i] = f[to(i)]
      <4> HIDE DEF next, step
      <4> QED
        BY <3>1, <3>2, <3>5, Zenon
    <3> QED
      BY <2>2, <3>6
  <2> QED
    BY <2>1, <2>2
<1>7. f = [i \in Nat |-> IF i >= Len(opt) \/ opt[i + 1] = 255 THEN <<>>
                         ELSE IF opt[i + 1] = cmd THEN val(i) ELSE f[to(i)]]
  <2> HIDE DEF stop, base, next, step, rank, n, val, X
  <2> QED
    BY <1>6
<1>8. from = Body(from)
  <2>1. f = Body(f)
    BY <1>7 DEF to
  <2> HIDE DEF Body
  <2> QED
    BY <2>1
<1> HIDE DEF from
<1>9. ReadBy(from, opt, cmd)
  <2>1. \A i \in Nat :
            Body(from)[i] = IF i >= Len(opt) \/ opt[i + 1] = 255 THEN <<>>
                            ELSE IF opt[i + 1] = cmd THEN SubSeq(opt, i + 3, i + 2 + opt[i + 2])
                            ELSE from[IF opt[i + 1] = 0 THEN i + 1 ELSE i + 2 + opt[i + 2]]
    BY Zenon
  <2> HIDE DEF Body
  <2>2. \A h : h = Body(from) => \A i \in Nat : h[i] = Body(from)[i]
    OBVIOUS
  <2>3. \A i \in Nat : from[i] = Body(from)[i]
    BY <1>8, <2>2, Zenon
  <2> QED
    BY <2>1, <2>3 DEF ReadBy
<1> QED
  BY <1>1, <1>9

\* It gets the data of the option.
LEMMA Valued ==
    ASSUME NEW opt, NEW n, NEW at, NEW s, NEW cmd \in 1..254, NEW x,
           Pieces(opt, n, at, s), AllOf(n, s, cmd, x)
    PROVE  Value(opt, cmd) = SubSeq(x, 3, Len(x))
<1>1. /\ n \in Nat /\ at \in [0..n -> Nat] /\ opt \in Seq(Byte) /\ Len(opt) = at[n] + 1
      /\ opt[at[n] + 1] = 255
  BY DEF Pieces, Ends
<1>2. at[n] \in Nat /\ 1 <= Len(opt) /\ opt[Len(opt)] = 255
  BY <1>1
<1>3. PICK g : Value(opt, cmd) = g[0] /\ ReadBy(g, opt, cmd)
  BY <1>1, <1>2, ValueWalks
<1>4. Steps(g, opt, cmd)
  <2>1. ASSUME NEW i \in Nat, i < Len(opt), opt[i + 1] # 255, opt[i + 1] # 0, opt[i + 1] # cmd
        PROVE  g[i] = g[i + 2 + opt[i + 2]]
    <3>1. ~(i >= Len(opt))
      BY <1>1, <1>2, <2>1
    <3> QED
      BY <1>3, <2>1, <3>1 DEF ReadBy
  <2> QED
    BY <2>1 DEF Steps
<1>5. PICK j \in 1..n : Coded(s[j], cmd) /\ g[0] = g[at[j - 1]]
  BY <1>4, WalkEnds DEF AllOf
<1>6. s[j] = x
  BY <1>5 DEF AllOf
<1>7. PICK a \in Nat : a = at[j - 1] /\ at[j] = a + Len(x) /\ at[j] <= at[n]
  <2>1. j - 1 \in 0..n /\ j \in 0..n
    BY <1>1
  <2>2. \A k \in 0..n : at[k] \in Nat /\ at[k] <= at[n]
    BY EndsInside DEF Pieces
  <2>3. at[j] = at[j - 1] + Len(s[j])
    BY DEF Pieces, Ends
  <2> QED
    BY <1>6, <2>1, <2>2, <2>3
<1>8. Piece(x) /\ x # <<>> /\ x[1] = cmd
  BY <1>5, <1>6 DEF Pieces, Ends, Coded
<1>9. x \in Seq(Byte) /\ Len(x) \in Nat /\ 2 <= Len(x) /\ Len(x) = 2 + x[2]
  BY <1>8 DEF Piece
<1>10. \A i \in 1..Len(x) : opt[a + i] = x[i]
  <2>1. \A k \in 1..n : \A i \in 1..Len(s[k]) : opt[at[k - 1] + i] = s[k][i]
    BY DEF Pieces, Ends
  <2>2. \A i \in 1..Len(s[j]) : opt[at[j - 1] + i] = s[j][i]
    BY <2>1, Zenon
  <2> QED
    BY <1>6, <1>7, <2>2
<1>11. opt[a + 1] = cmd /\ opt[a + 2] = x[2]
  <2>1. 1 \in 1..Len(x) /\ 2 \in 1..Len(x)
    BY <1>9
  <2> QED
    BY <1>8, <1>10, <2>1
<1>12. PICK m \in Nat, l \in Nat : m = Len(opt) /\ l = Len(x) /\ a + l < m
  BY <1>1, <1>2, <1>7, <1>9
<1>13. PICK d \in Nat : d = x[2] /\ l = 2 + d
  <2>1. x[2] \in Byte
    BY <1>9, ElementOfSeq
  <2>2. x[2] \in Nat
    BY <2>1 DEF Byte
  <2> QED
    BY <1>9, <1>12, <2>2
<1>14. g[a] = SubSeq(opt, a + 3, a + 2 + d)
  <2>1. ~(a >= Len(opt)) /\ cmd # 255
    BY <1>12
  <2> QED
    BY <1>3, <1>11, <1>13, <2>1, ZenonT(30) DEF ReadBy
<1>15. SubSeq(opt, a + 3, a + 2 + d) = SubSeq(x, 3, l)
  <2>1. /\ SubSeq(opt, a + 3, a + 2 + d) \in Seq(Byte) /\ Len(SubSeq(opt, a + 3, a + 2 + d)) = d
        /\ \A i \in 1..d : SubSeq(opt, a + 3, a + 2 + d)[i] = opt[a + 2 + i]
    <3>1. a + 2 \in Nat /\ (a + 2) + 1 = a + 3 /\ a + 2 + d <= Len(opt)
      BY <1>12, <1>13, SMTT(30)
    <3> QED
      BY <1>1, <3>1, PartOf
  <2>2. /\ SubSeq(x, 3, l) \in Seq(Byte) /\ Len(SubSeq(x, 3, l)) = d
        /\ \A i \in 1..d : SubSeq(x, 3, l)[i] = x[2 + i]
    <3>1. 2 \in Nat /\ 2 + 1 = 3 /\ 2 + d <= Len(x)
      BY <1>12, <1>13
    <3> QED
      BY <1>9, <1>13, <3>1, PartOf
  <2>3. \A i \in 1..d : opt[a + 2 + i] = x[2 + i]
    <3> TAKE i \in 1..d
    <3>1. 2 + i \in 1..Len(x) /\ a + (2 + i) = a + 2 + i
      BY <1>12, <1>13, SMTT(30)
    <3> QED
      BY <1>10, <3>1
  <2> DEFINE u == SubSeq(opt, a + 3, a + 2 + d)
             v == SubSeq(x, 3, l)
  <2>4. u \in Seq(Byte) /\ v \in Seq(Byte) /\ Len(u) = Len(v) /\ \A i \in 1..Len(u) : u[i] = v[i]
    BY <2>1, <2>2, <2>3
  <2> HIDE DEF u, v
  <2>5. u = v
    BY <2>4, SeqEqual
  <2> QED
    BY <2>5 DEF u, v
<1> QED
  BY <1>3, <1>5, <1>7, <1>12, <1>14, <1>15

-----------------------------------------------------------------------------
(* Options, one after the other *)

\* The bytes b are the first n of the pieces s.
Laid(b, n, at, s) ==
    /\ Ends(n, at, s)
    /\ b \in Seq(Byte) /\ Len(b) = at[n]
    /\ \A k \in 1..n : \A j \in 1..Len(s[k]) : b[at[k - 1] + j] = s[k][j]

LEMMA LaidFirst ==
    ASSUME NEW s, Piece(s[1])
    PROVE  \E at : Laid(s[1], 1, at, s)
<1> DEFINE x == s[1]
           at == [k \in 0..1 |-> IF k = 0 THEN 0 ELSE Len(x)]
<1>1. x \in Seq(Byte) /\ Len(x) \in Nat
  BY DEF Piece
<1>2. at \in [0..1 -> Nat] /\ at[0] = 0 /\ at[1] = Len(x)
  <2> HIDE DEF x
  <2> QED
    BY <1>1
<1> HIDE DEF at
<1>3. \A k \in 1..1 : Piece(s[k]) /\ at[k] = at[k - 1] + Len(s[k])
  <2> TAKE k \in 1..1
  <2>1. k = 1 /\ k - 1 = 0
    OBVIOUS
  <2> QED
    BY <1>1, <1>2, <2>1
<1>4. \A k \in 1..1 : \A j \in 1..Len(s[k]) : x[at[k - 1] + j] = s[k][j]
  <2> TAKE k \in 1..1
  <2>1. k = 1 /\ k - 1 = 0
    OBVIOUS
  <2> TAKE j \in 1..Len(s[k])
  <2>2. at[k - 1] + j = j
    BY <1>2, <2>1
  <2> QED
    BY <2>1, <2>2
<1>5. Laid(x, 1, at, s)
  <2> HIDE DEF x
  <2> QED
    BY <1>1, <1>2, <1>3, <1>4 DEF Laid, Ends
<1> QED
  BY <1>5

LEMMA LaidNext ==
    ASSUME NEW b, NEW n, NEW at, NEW s, Laid(b, n, at, s), Piece(s[n + 1])
    PROVE  \E to : Laid(b \o s[n + 1], n + 1, to, s)
<1> DEFINE x == s[n + 1]
           to == [k \in 0..n + 1 |-> IF k = n + 1 THEN at[n] + Len(x) ELSE at[k]]
           o == b \o x
<1>1. x \in Seq(Byte) /\ Len(x) \in Nat
  BY DEF Piece
<1>2. n \in Nat /\ at \in [0..n -> Nat] /\ at[0] = 0 /\ b \in Seq(Byte) /\ Len(b) = at[n] /\ at[n] \in Nat
  BY DEF Laid, Ends
<1>3. /\ to \in [0..n + 1 -> Nat] /\ to[n + 1] = at[n] + Len(x)
      /\ \A k \in 0..n : to[k] = at[k] /\ at[k] \in Nat
  <2> HIDE DEF x
  <2> QED
    BY <1>1, <1>2
<1>4. /\ o \in Seq(Byte) /\ Len(o) = at[n] + Len(x)
      /\ \A i \in 1..at[n] : o[i] = b[i]
      /\ \A i \in 1..Len(x) : o[at[n] + i] = x[i]
  <2> HIDE DEF x
  <2>1. /\ o \in Seq(Byte) /\ Len(o) = Len(b) + Len(x)
        /\ \A i \in 1..Len(b) + Len(x) : o[i] = IF i <= Len(b) THEN b[i] ELSE x[i - Len(b)]
    BY <1>1, <1>2, ConcatProperties
  <2>2. ASSUME NEW i \in 1..at[n] PROVE o[i] = b[i]
    <3>1. i \in 1..Len(b) + Len(x) /\ i <= Len(b)
      BY <1>1, <1>2
    <3> QED
      BY <2>1, <3>1
  <2>3. ASSUME NEW i \in 1..Len(x) PROVE o[at[n] + i] = x[i]
    <3>1. at[n] + i \in 1..Len(b) + Len(x) /\ ~(at[n] + i <= Len(b)) /\ (at[n] + i) - Len(b) = i
      BY <1>1, <1>2
    <3> HIDE DEF o
    <3> QED
      BY <2>1, <3>1
  <2> QED
    BY <1>2, <2>1, <2>2, <2>3
<1> HIDE DEF to, o
<1>5. \A k \in 1..n : /\ at[k] \in Nat /\ at[k] = at[k - 1] + Len(s[k]) /\ at[k] <= at[n]
                     /\ k - 1 \in 0..n /\ k \in 0..n
  <2>1. \A k \in 0..n : at[k] \in Nat /\ at[k] <= at[n]
    BY EndsInside DEF Laid
  <2>2. \A k \in 1..n : at[k] = at[k - 1] + Len(s[k])
    BY DEF Laid, Ends
  <2>3. \A k \in 1..n : k - 1 \in 0..n /\ k \in 0..n
    BY <1>2
  <2> QED
    BY <2>1, <2>2, <2>3
<1>6. \A k \in 1..n + 1 : Piece(s[k]) /\ to[k] = to[k - 1] + Len(s[k])
  <2> TAKE k \in 1..n + 1
  <2>1. CASE k = n + 1
    <3>1. k - 1 = n /\ k - 1 \in 0..n
      BY <1>2, <2>1
    <3> QED
      BY <1>3, <2>1, <3>1
  <2>2. CASE k # n + 1
    <3>1. k \in 1..n
      BY <1>2, <2>2
    <3>2. Piece(s[k])
      BY <3>1 DEF Laid, Ends
    <3> QED
      BY <1>3, <1>5, <3>1, <3>2
  <2> QED
    BY <2>1, <2>2
<1>7. \A k \in 1..n + 1 : \A j \in 1..Len(s[k]) : o[to[k - 1] + j] = s[k][j]
  <2> TAKE k \in 1..n + 1
  <2> TAKE j \in 1..Len(s[k])
  <2>1. CASE k = n + 1
    <3>1. k - 1 = n /\ k - 1 \in 0..n
      BY <1>2, <2>1
    <3>2. to[k - 1] = at[n] /\ s[k] = x
      BY <1>3, <2>1, <3>1
    <3> HIDE DEF x
    <3> QED
      BY <1>4, <3>2
  <2>2. CASE k # n + 1
    <3>1. k \in 1..n
      BY <1>2, <2>2
    <3>2. \A i \in 1..Len(s[k]) : b[at[k - 1] + i] = s[k][i]
      <4>1. \A m \in 1..n : \A i \in 1..Len(s[m]) : b[at[m - 1] + i] = s[m][i]
        BY DEF Laid, Ends
      <4> QED
        BY <3>1, <4>1, Zenon
    <3>3. at[k] = at[k - 1] + Len(s[k]) /\ at[k] <= at[n] /\ to[k - 1] = at[k - 1] /\ at[k - 1] \in Nat
      BY <1>3, <1>5, <3>1
    <3>4. Len(s[k]) \in Nat
      BY <1>6 DEF Piece
    <3>5. at[k - 1] + j \in 1..at[n]
      BY <1>2, <3>3, <3>4
    <3>6. o[at[k - 1] + j] = b[at[k - 1] + j]
      BY <1>4, <3>5
    <3> QED
      BY <3>2, <3>3, <3>6
  <2> QED
    BY <2>1, <2>2
<1>8. Laid(o, n + 1, to, s)
  <2>1. n + 1 \in Nat /\ to[0] = 0 /\ Len(o) = to[n + 1]
    BY <1>2, <1>3, <1>4
  <2> HIDE DEF x
  <2> QED
    BY <1>3, <1>4, <1>6, <1>7, <2>1 DEF Laid, Ends
<1> QED
  BY <1>8 DEF o

\* The end makes them the options of a message.
LEMMA LaidEnds ==
    ASSUME NEW b, NEW n, NEW at, NEW s, Laid(b, n, at, s)
    PROVE  Pieces(b \o <<255>>, n, at, s)
<1> DEFINE opt == b \o <<255>>
<1>1. n \in Nat /\ at \in [0..n -> Nat] /\ b \in Seq(Byte) /\ Len(b) = at[n] /\ at[n] \in Nat
  BY DEF Laid, Ends
<1>2. <<255>> \in Seq(Byte)
  BY DEF Byte
<1>3. /\ opt \in Seq(Byte) /\ Len(opt) = Len(b) + 1
      /\ \A i \in 1..Len(b) + 1 : opt[i] = IF i <= Len(b) THEN b[i] ELSE <<255>>[i - Len(b)]
  <2>1. Len(<<255>>) = 1
    OBVIOUS
  <2> QED
    BY <1>1, <1>2, <2>1, ConcatProperties
<1> HIDE DEF opt
<1>4. opt[at[n] + 1] = 255
  <2>1. at[n] + 1 \in 1..Len(b) + 1 /\ ~(at[n] + 1 <= Len(b)) /\ at[n] + 1 - Len(b) = 1
    BY <1>1
  <2> QED
    BY <1>3, <2>1
<1>5. \A k \in 1..n : \A j \in 1..Len(s[k]) : opt[at[k - 1] + j] = s[k][j]
  <2> TAKE k \in 1..n
  <2> TAKE j \in 1..Len(s[k])
  <2>1. \A m \in 1..n : \A i \in 1..Len(s[m]) : b[at[m - 1] + i] = s[m][i]
    BY DEF Laid, Ends
  <2>2. b[at[k - 1] + j] = s[k][j]
    BY <2>1, Zenon
  <2>3. at[k - 1] + j \in 1..Len(b)
    <3>1. \A i \in 0..n : at[i] \in Nat /\ at[i] <= at[n]
      BY EndsInside DEF Laid
    <3>2. k \in 0..n /\ k - 1 \in 0..n
      BY <1>1
    <3>3. at[k] = at[k - 1] + Len(s[k]) /\ Len(s[k]) \in Nat
      BY DEF Laid, Ends, Piece
    <3> QED
      BY <1>1, <3>1, <3>2, <3>3
  <2> QED
    BY <1>3, <2>2, <2>3
<1>6. Pieces(opt, n, at, s)
  <2>1. Len(opt) = at[n] + 1
    BY <1>1, <1>3
  <2> QED
    BY <1>1, <1>3, <1>4, <1>5, <2>1 DEF Laid, Pieces
<1> QED
  BY <1>6 DEF opt

\* Options that are put together from pieces.
LEMMA Flattened ==
    ASSUME NEW s, NEW n \in Nat, 1 <= n, Len(s) = n, \A k \in 1..n : Piece(s[k])
    PROVE  \E at : Laid(FlattenSeq(s), n, at, s)
<1> DEFINE Body(g) == [i \in 1..Len(s) |-> IF i = 1 THEN s[i] ELSE g[i - 1] \o s[i]]
           flatten == CHOOSE g : g = Body(g)
           D == 1..n
           X == Seq(Byte)
           next == [i \in D \ {1} |-> i - 1]
           base == [i \in D |-> s[i]]
           step == [q \in D \X X |-> q[2] \o s[q[1]]]
           rank == [i \in D |-> i]
<1>1. FlattenSeq(s) = flatten[n]
  <2>1. Len(s) # 0
    OBVIOUS
  <2> QED
    BY <2>1 DEF FlattenSeq
<1>2. PICK f \in [D -> X] : Solves(f, D, {1}, base, next, step)
  <2>1. \A k \in D : s[k] \in X
    BY DEF Piece
  <2>2. /\ rank \in [D -> 0..n] /\ {1} \subseteq D /\ next \in [D \ {1} -> D]
        /\ \A p \in D \ {1} : rank[next[p]] < rank[p]
    OBVIOUS
  <2>3. base \in [D -> X] /\ X # {}
    <3> HIDE DEF D, X
    <3> QED
      BY <2>1, <2>2
  <2>4. step \in [D \X X -> X]
    <3>1. ASSUME NEW q \in D \X X PROVE q[2] \o s[q[1]] \in X
      <4>1. q[1] \in D /\ q[2] \in X
        OBVIOUS
      <4>2. s[q[1]] \in X
        BY <2>1, <4>1
      <4> HIDE DEF D
      <4> QED
        BY <4>1, <4>2, ConcatProperties
    <3> HIDE DEF D, X
    <3> QED
      BY <3>1
  <2>5. WellRanked(D, X, {1}, base, next, step, rank, n)
    <3> HIDE DEF D, X, base, next, step, rank
    <3> QED
      BY <2>2, <2>3, <2>4 DEF WellRanked, Ranked
  <2> HIDE DEF D, X, base, next, step, rank
  <2> QED
    BY <2>5, RecursionDefines
<1>3. f = Body(f)
  <2>1. ASSUME NEW i \in D PROVE f[i] = IF i = 1 THEN s[i] ELSE f[i - 1] \o s[i]
    <3>1. CASE i = 1
      <4>1. f[i] = base[i]
        <5> HIDE DEF D, base, next, step
        <5> QED
          BY <1>2, <3>1 DEF Solves
      <4> QED
        BY <3>1, <4>1
    <3>2. CASE i # 1
      <4>1. f[i] = step[<<i, f[next[i]]>>]
        <5> HIDE DEF D, base, next, step
        <5> QED
          BY <1>2, <3>2 DEF Solves
      <4>2. next[i] = i - 1 /\ i - 1 \in D
        BY <3>2
      <4>3. f[i - 1] \in X
        <5> HIDE DEF D, X
        <5> QED
          BY <1>2, <4>2
      <4>4. \A x \in X : step[<<i, x>>] = x \o s[i]
        <5> HIDE DEF D, X
        <5> QED
          OBVIOUS
      <4>5. step[<<i, f[i - 1]>>] = f[i - 1] \o s[i]
        <5> HIDE DEF D, X, step
        <5> QED
          BY <4>3, <4>4, Zenon
      <4>6. f[i] = f[i - 1] \o s[i]
        <5> HIDE DEF D, X, step, next
        <5> QED
          BY <4>1, <4>2, <4>5, Zenon
      <4> QED
        BY <3>2, <4>6
    <3> QED
      BY <3>1, <3>2
  <2> HIDE DEF X
  <2> QED
    BY <1>2, <2>1
<1>4. flatten = Body(flatten)
  <2> HIDE DEF Body
  <2> QED
    BY <1>3
<1> HIDE DEF flatten
<1>5. flatten[1] = s[1] /\ \A k \in 1..n - 1 : flatten[k + 1] = flatten[k] \o s[k + 1]
  <2>1. \A i \in 1..n : Body(flatten)[i] = IF i = 1 THEN s[i] ELSE flatten[i - 1] \o s[i]
    BY Zenon
  <2> HIDE DEF Body
  <2>2. \A h : h = Body(flatten) => \A i \in 1..n : h[i] = Body(flatten)[i]
    OBVIOUS
  <2>3. \A i \in 1..n : flatten[i] = IF i = 1 THEN s[i] ELSE flatten[i - 1] \o s[i]
    BY <1>4, <2>1, <2>2, Zenon
  <2>4. 1 \in 1..n
    OBVIOUS
  <2>5. ASSUME NEW k \in 1..n - 1 PROVE flatten[k + 1] = flatten[k] \o s[k + 1]
    <3>1. k + 1 \in 1..n /\ k + 1 # 1 /\ (k + 1) - 1 = k
      OBVIOUS
    <3> QED
      BY <2>3, <3>1
  <2> QED
    BY <2>3, <2>4, <2>5
<1> DEFINE S == {k \in Nat : k + 1 <= n => \E at : Laid(flatten[k + 1], k + 1, at, s)}
<1>6. 0 \in S
  <2>1. Piece(s[1])
    OBVIOUS
  <2>2. \E at : Laid(flatten[0 + 1], 0 + 1, at, s)
    BY <1>5, <2>1, LaidFirst
  <2> QED
    BY <2>2
<1>7. ASSUME NEW k \in S PROVE k + 1 \in S
  <2> SUFFICES ASSUME (k + 1) + 1 <= n PROVE \E at : Laid(flatten[(k + 1) + 1], (k + 1) + 1, at, s)
    OBVIOUS
  <2>1. k \in Nat /\ k + 1 \in 1..n - 1 /\ (k + 1) + 1 \in 1..n
    OBVIOUS
  <2>2. PICK at : Laid(flatten[k + 1], k + 1, at, s)
    BY <2>1
  <2>3. flatten[(k + 1) + 1] = flatten[k + 1] \o s[(k + 1) + 1] /\ Piece(s[(k + 1) + 1])
    BY <1>5, <2>1
  <2>4. \E to : Laid(flatten[k + 1] \o s[(k + 1) + 1], (k + 1) + 1, to, s)
    BY <2>2, <2>3, LaidNext
  <2> QED
    BY <2>3, <2>4
<1>8. S = Nat
  <2>1. S \in SUBSET Nat
    OBVIOUS
  <2> HIDE DEF S
  <2> QED
    BY <1>6, <1>7, <2>1, SetInduction
<1>9. n - 1 \in Nat /\ (n - 1) + 1 = n
  OBVIOUS
<1>10. n - 1 \in S
  <2> HIDE DEF S
  <2> QED
    BY <1>8, <1>9
<1>11. \E at : Laid(flatten[(n - 1) + 1], (n - 1) + 1, at, s)
  BY <1>9, <1>10
<1> QED
  BY <1>1, <1>9, <1>11

\* Where opt_find() finds an option are its bytes.
FoundAt(opt, cmd, x) ==
    \E a \in Nat : /\ opt_find(opt, cmd) = a /\ a + Len(x) < Len(opt)
                   /\ \A i \in 1..Len(x) : opt[a + i] = x[i]

LEMMA FoundBytes ==
    ASSUME NEW opt, NEW n, NEW at, NEW s, NEW cmd \in 1..254, NEW x,
           Pieces(opt, n, at, s), Len(opt) <= 308, AllOf(n, s, cmd, x)
    PROVE  FoundAt(opt, cmd, x)
<1>1. PICK j \in 1..n : Coded(s[j], cmd) /\ opt_find(opt, cmd) = at[j - 1]
  <2>1. FindIs(opt, n, at, s, cmd)
    BY Found
  <2> QED
    BY <2>1, Zenon DEF FindIs, AllOf
<1>2. s[j] = x
  BY <1>1 DEF AllOf
<1>3. /\ n \in Nat /\ Len(opt) = at[n] + 1
      /\ at[j] = at[j - 1] + Len(s[j]) /\ Len(s[j]) \in Nat
  <2>1. n \in Nat /\ Len(opt) = at[n] + 1
    BY DEF Pieces, Ends
  <2>2. \A k \in 1..n : Piece(s[k]) /\ at[k] = at[k - 1] + Len(s[k])
    BY DEF Pieces, Ends
  <2>3. Piece(s[j]) /\ at[j] = at[j - 1] + Len(s[j])
    BY <2>2, Zenon
  <2> QED
    BY <2>1, <2>3 DEF Piece
<1>4. \A k \in 0..n : at[k] \in Nat /\ at[k] <= at[n]
  BY EndsInside DEF Pieces
<1>5. j - 1 \in 0..n /\ j \in 0..n /\ n \in 0..n
  BY <1>3
<1>6. at[j - 1] \in Nat /\ at[j] <= at[n] /\ at[n] \in Nat
  BY <1>4, <1>5
<1>7. at[j - 1] + Len(x) < Len(opt)
  BY <1>2, <1>3, <1>6
<1>8. \A i \in 1..Len(x) : opt[at[j - 1] + i] = x[i]
  <2>1. \A k \in 1..n : \A i \in 1..Len(s[k]) : opt[at[k - 1] + i] = s[k][i]
    BY DEF Pieces
  <2>2. \A i \in 1..Len(s[j]) : opt[at[j - 1] + i] = s[j][i]
    BY <2>1, Zenon
  <2> QED
    BY <1>2, <2>2
<1> QED
  BY <1>1, <1>6, <1>7, <1>8 DEF FoundAt

-----------------------------------------------------------------------------
(* What the server takes a message for *)

\* The options have one type, and one address if any.
SentAs(opt, n, at, s, type, address) ==
    /\ Pieces(opt, n, at, s)
    /\ AllOf(n, s, 53, <<53, 1, type>>)
    /\ address = <<>> => \A j \in 1..n : ~Coded(s[j], 50)
    /\ address # <<>> => AllOf(n, s, 50, <<50, 4>> \o address)

AddressLike(address) == address = <<>> \/ (address \in Seq(Byte) /\ Len(address) = 4)

LEMMA AddressPiece ==
    ASSUME NEW address \in Seq(Byte), Len(address) = 4
    PROVE  /\ Piece(<<50, 4>> \o address) /\ <<50, 4>> \o address # <<>>
           /\ (<<50, 4>> \o address)[1] = 50 /\ Len(<<50, 4>> \o address) = 6
           /\ \A i \in 1..4 : (<<50, 4>> \o address)[2 + i] = address[i]
<1> DEFINE h == <<50, 4>>
           x == h \o address
<1>1. h \in Seq(Byte) /\ Len(h) = 2 /\ h[1] = 50 /\ h[2] = 4
  BY DEF Byte
<1> HIDE DEF h
<1>2. /\ x \in Seq(Byte) /\ Len(x) = 6
      /\ \A i \in 1..6 : x[i] = IF i <= 2 THEN h[i] ELSE address[i - 2]
  <2>1. /\ x \in Seq(Byte) /\ Len(x) = Len(h) + Len(address)
        /\ \A i \in 1..Len(h) + Len(address) :
               x[i] = IF i <= Len(h) THEN h[i] ELSE address[i - Len(h)]
    BY <1>1, ConcatProperties, ZenonT(30)
  <2>2. Len(h) + Len(address) = 6
    BY <1>1
  <2> HIDE DEF x
  <2> QED
    BY <1>1, <2>1, <2>2
<1> HIDE DEF x
<1>3. x[1] = 50 /\ x[2] = 4
  BY <1>1, <1>2
<1>4. \A i \in 1..4 : x[2 + i] = address[i]
  <2> TAKE i \in 1..4
  <2>1. 2 + i \in 1..6 /\ ~(2 + i <= 2) /\ (2 + i) - 2 = i
    OBVIOUS
  <2> QED
    BY <1>2, <2>1
<1>5. Piece(x)
  BY <1>2, <1>3 DEF Piece
<1>6. x # <<>>
  BY <1>2
<1> QED
  BY <1>2, <1>3, <1>4, <1>5, <1>6 DEF x, h

LEMMA OptionsSent ==
    ASSUME NEW l \in Layouts, NEW type \in Byte, NEW address, AddressLike(address)
    PROVE  \E n, at, s : SentAs(Options(l, type, address), n, at, s, type, address)
<1> DEFINE t == <<53, 1, type>>
           r == IF address = <<>> THEN <<>> ELSE <<50, 4>> \o address
           bytes(n) == CASE n = "type" -> t
                         [] n = "address" -> r
                         [] OTHER -> Extra[n]
           s == [k \in DOMAIN l |-> bytes(l[k])]
           n == Len(l)
<1>1. /\ l \in Seq({"type", "address"} \cup DOMAIN Extra) /\ n \in Nat
      /\ DOMAIN l = 1..n /\ \A k \in 1..n : l[k] \in {"type", "address"} \cup DOMAIN Extra
  BY LayoutsAssumption
<1>2. PICK jt \in 1..n, ja \in 1..n : l[jt] = "type" /\ l[ja] = "address"
  BY <1>1, LayoutsAssumption
<1>3. Options(l, type, address) = FlattenSeq(s) \o <<255>>
  BY DEF Options
<1>4. /\ Piece(t) /\ t # <<>> /\ t[1] = 53
      /\ Piece(r) /\ (r # <<>> => r[1] = 50)
      /\ (address # <<>> => r # <<>> /\ r = <<50, 4>> \o address)
      /\ (address = <<>> => r = <<>>)
  <2>1. t \in Seq(Byte) /\ Len(t) = 3 /\ t[1] = 53 /\ t[2] = 1
    BY DEF Byte
  <2>2. Piece(t) /\ t # <<>>
    <3> HIDE DEF t
    <3> QED
      BY <2>1 DEF Piece
  <2>3. Piece(<<>>)
    BY DEF Piece
  <2>4. CASE address = <<>>
    BY <2>1, <2>2, <2>3, <2>4
  <2>5. CASE address # <<>>
    <3>1. r = <<50, 4>> \o address
      BY <2>5
    <3>2. address \in Seq(Byte) /\ Len(address) = 4
      BY <2>5 DEF AddressLike
    <3> HIDE DEF r, t
    <3>3. Piece(r) /\ r # <<>> /\ r[1] = 50
      BY <3>1, <3>2, AddressPiece
    <3> QED
      BY <2>1, <2>2, <2>5, <3>1, <3>3
  <2> QED
    BY <2>4, <2>5
<1>5. \A m \in DOMAIN Extra : Piece(Extra[m]) /\ Extra[m][1] # 50 /\ Extra[m][1] # 53
  <2> TAKE m \in DOMAIN Extra
  <2>1. /\ Extra[m] \in Seq(Byte) /\ Len(Extra[m]) >= 2 /\ Len(Extra[m]) = 2 + Extra[m][2]
        /\ Extra[m][1] \in 1..254 \ {50, 53}
    BY ExtraAssumption
  <2> QED
    BY <2>1 DEF Piece
<1> HIDE DEF t, r
<1>6. \A k \in 1..n : /\ l[k] = "type" => s[k] = t
                      /\ l[k] = "address" => s[k] = r
                      /\ l[k] # "type" /\ l[k] # "address" => l[k] \in DOMAIN Extra /\ s[k] = Extra[l[k]]
  <2> HIDE DEF n
  <2> QED
    BY <1>1
<1>7. s \in [1..n -> Seq(Byte)] /\ \A k \in 1..n : Piece(s[k])
  <2>1. \A k \in 1..n : Piece(s[k])
    <3> HIDE DEF s, n
    <3> QED
      BY <1>4, <1>5, <1>6
  <2>2. \A k \in 1..n : s[k] \in Seq(Byte)
    <3> HIDE DEF s, n
    <3> QED
      BY <2>1 DEF Piece
  <2>3. s = [k \in 1..n |-> s[k]]
    <3> HIDE DEF n
    <3> QED
      BY <1>1
  <2> HIDE DEF s, n
  <2> QED
    BY <2>1, <2>2, <2>3
<1>8. Len(s) = n /\ 1 <= n
  <2> HIDE DEF s, n
  <2>1. s \in Seq(Seq(Byte)) /\ Len(s) = n
    BY <1>1, <1>7
  <2> QED
    BY <1>1, <1>2, <2>1
<1> HIDE DEF s, bytes
<1>9. PICK at : Laid(FlattenSeq(s), n, at, s)
  <2> HIDE DEF n
  <2> QED
    BY <1>1, <1>7, <1>8, Flattened
<1>10. Pieces(Options(l, type, address), n, at, s)
  BY <1>3, <1>9, LaidEnds
<1> HIDE DEF n
<1>11. Coded(s[jt], 53)
  BY <1>2, <1>4, <1>6 DEF Coded
<1>12. ASSUME NEW j \in 1..n, Coded(s[j], 53) PROVE s[j] = t
  BY <1>4, <1>5, <1>6, <1>12 DEF Coded
<1>13. ASSUME NEW j \in 1..n, Coded(s[j], 50) PROVE s[j] = r /\ r # <<>>
  BY <1>4, <1>5, <1>6, <1>13 DEF Coded
<1>14. address # <<>> => Coded(s[ja], 50)
  BY <1>2, <1>4, <1>6 DEF Coded
<1>15. SentAs(Options(l, type, address), n, at, s, type, address)
  <2>1. t = <<53, 1, type>>
    BY DEF t
  <2> QED
    BY <1>2, <1>4, <1>10, <1>11, <1>12, <1>13, <1>14, <2>1 DEF SentAs, AllOf
<1> QED
  BY <1>15

\* What the server finds in them.
AddressAt(opt, o, address) ==
    /\ o \in Nat /\ opt_find(opt, 50) = o /\ o + 6 < Len(opt)
    /\ \A i \in 1..4 : opt[o + 2 + i] = address[i]

LEMMA SentRead ==
    ASSUME NEW opt, NEW type, NEW address,
           \E n, at, s : SentAs(opt, n, at, s, type, address),
           AddressLike(address), Len(opt) <= 308
    PROVE  /\ 3 <= Len(opt) /\ Len(opt) \in Nat /\ opt \in Seq(Byte)
           /\ opt_find(opt, 53) # NotFound /\ opt[opt_find(opt, 53) + 3] = type
           /\ address = <<>> => opt_find(opt, 50) = NotFound
           /\ address # <<>> => \E o : AddressAt(opt, o, address)
<1>1. PICK n, at, s : SentAs(opt, n, at, s, type, address)
  OBVIOUS
<1>2. Pieces(opt, n, at, s)
  BY <1>1 DEF SentAs
<1>3. opt \in Seq(Byte) /\ Len(opt) \in Nat
  BY <1>2 DEF Pieces
<1> DEFINE t == <<53, 1, type>>
           r == <<50, 4>> \o address
<1>4. PICK a \in Nat : /\ opt_find(opt, 53) = a /\ a + 3 < Len(opt) /\ opt[a + 3] = type
  <2>1. 53 \in 1..254 /\ Len(t) = 3 /\ t[3] = type
    OBVIOUS
  <2>2. AllOf(n, s, 53, t)
    BY <1>1 DEF SentAs
  <2> HIDE DEF t
  <2>0. FoundAt(opt, 53, t)
    BY <1>2, <2>1, <2>2, FoundBytes
  <2>3. PICK a \in Nat : /\ opt_find(opt, 53) = a /\ a + Len(t) < Len(opt)
                         /\ \A i \in 1..Len(t) : opt[a + i] = t[i]
    BY <2>0 DEF FoundAt
  <2>4. 3 \in 1..Len(t)
    BY <2>1
  <2> QED
    BY <2>1, <2>3, <2>4
<1>5. address = <<>> => opt_find(opt, 50) = NotFound
  <2> SUFFICES ASSUME address = <<>> PROVE opt_find(opt, 50) = NotFound
    OBVIOUS
  <2>1. \A j \in 1..n : ~Coded(s[j], 50)
    BY <1>1 DEF SentAs
  <2>2. FindIs(opt, n, at, s, 50)
    <3>1. 50 \in 1..254
      OBVIOUS
    <3> QED
      BY <1>2, <3>1, Found
  <2> QED
    BY <2>1, <2>2, Zenon DEF FindIs
<1>6. ASSUME address # <<>>
      PROVE  \E o : AddressAt(opt, o, address)
  <2>1. 50 \in 1..254 /\ Len(r) = 6 /\ \A i \in 1..4 : r[2 + i] = address[i]
    <3>1. 50 \in 1..254
      OBVIOUS
    <3>2. address \in Seq(Byte) /\ Len(address) = 4
      BY <1>6 DEF AddressLike
    <3> QED
      BY <3>1, <3>2, AddressPiece
  <2>2. AllOf(n, s, 50, r)
    BY <1>1, <1>6 DEF SentAs
  <2> HIDE DEF r
  <2>0. FoundAt(opt, 50, r)
    BY <1>2, <2>1, <2>2, FoundBytes
  <2>3. PICK o \in Nat : /\ opt_find(opt, 50) = o /\ o + Len(r) < Len(opt)
                         /\ \A i \in 1..Len(r) : opt[o + i] = r[i]
    BY <2>0 DEF FoundAt
  <2>4. \A i \in 1..4 : opt[o + 2 + i] = address[i]
    <3> TAKE i \in 1..4
    <3>1. 2 + i \in 1..Len(r) /\ o + (2 + i) = o + 2 + i
      BY <2>1
    <3> QED
      BY <2>1, <2>3, <3>1
  <2> QED
    BY <2>1, <2>3, <2>4 DEF AddressAt
<1>7. 3 <= Len(opt) /\ opt_find(opt, 53) # NotFound /\ opt[opt_find(opt, 53) + 3] = type
  BY <1>3, <1>4 DEF NotFound
<1> QED
  BY <1>3, <1>5, <1>6, <1>7

\* The address is compared with the server's own network.
LEMMA Network ==
    ASSUME NEW opt \in Seq(Byte), NEW o \in Nat, o + 6 < Len(opt), NEW address,
           \A i \in 1..4 : opt[o + 2 + i] = address[i]
    PROVE  /\ SubSeq(opt, o + 3, o + 5) = SubSeq(Ip, 1, 3)
                <=> address[1] = Ip[1] /\ address[2] = Ip[2] /\ address[3] = Ip[3]
           /\ opt[o + 6] = address[4]
<1> DEFINE u == SubSeq(opt, o + 3, o + 5)
           v == SubSeq(Ip, 1, 3)
<1>1. u \in Seq(Byte) /\ Len(u) = 3 /\ \A i \in 1..3 : u[i] = opt[o + 2 + i]
  <2>1. o + 2 \in Nat /\ 3 \in Nat /\ (o + 2) + 3 <= Len(opt) /\ (o + 2) + 1 = o + 3 /\ (o + 2) + 3 = o + 5
    OBVIOUS
  <2>2. /\ SubSeq(opt, (o + 2) + 1, (o + 2) + 3) \in Seq(Byte)
        /\ Len(SubSeq(opt, (o + 2) + 1, (o + 2) + 3)) = 3
        /\ \A i \in 1..3 : SubSeq(opt, (o + 2) + 1, (o + 2) + 3)[i] = opt[o + 2 + i]
    BY <2>1, PartOf
  <2> QED
    BY <2>1, <2>2
<1>2. v \in Seq(Byte) /\ Len(v) = 3 /\ \A i \in 1..3 : v[i] = Ip[i]
  <2>1. \A i \in 1..3 : Ip[i] \in Byte
    BY AddressesAssumption
  <2>2. /\ v \in Seq(Byte) /\ Len(v) = IF 1 <= 3 THEN (3 - 1) + 1 ELSE 0
        /\ \A i \in 1..(3 - 1) + 1 : v[i] = Ip[(1 + i) - 1]
    BY <2>1, SubSeqProperties
  <2> HIDE DEF v
  <2>3. \A i \in 1..3 : v[i] = Ip[i]
    <3> TAKE i \in 1..3
    <3>1. i \in 1..(3 - 1) + 1 /\ (1 + i) - 1 = i
      OBVIOUS
    <3> QED
      BY <2>2, <3>1
  <2> QED
    BY <2>2, <2>3
<1> HIDE DEF u, v
<1>3. u[1] = address[1] /\ u[2] = address[2] /\ u[3] = address[3] /\ opt[o + 6] = address[4]
  <2>1. /\ opt[o + 2 + 1] = address[1] /\ opt[o + 2 + 2] = address[2]
        /\ opt[o + 2 + 3] = address[3] /\ opt[o + 2 + 4] = address[4]
    OBVIOUS
  <2>2. o + 2 + 4 = o + 6
    OBVIOUS
  <2> QED
    BY <1>1, <2>1, <2>2
<1>4. v[1] = Ip[1] /\ v[2] = Ip[2] /\ v[3] = Ip[3]
  BY <1>2
<1>5. ASSUME u[1] = v[1], u[2] = v[2], u[3] = v[3] PROVE u = v
  <2>1. \A i \in 1..Len(u) : u[i] = v[i]
    <3> TAKE i \in 1..Len(u)
    <3>1. i = 1 \/ i = 2 \/ i = 3
      BY <1>1
    <3> QED
      BY <1>5, <3>1
  <2>2. Len(u) = Len(v)
    BY <1>1, <1>2
  <2> QED
    BY <1>1, <1>2, <2>1, <2>2, SeqEqual
<1>6. u = v <=> address[1] = Ip[1] /\ address[2] = Ip[2] /\ address[3] = Ip[3]
  BY <1>3, <1>4, <1>5
<1> QED
  BY <1>3, <1>6 DEF u, v

\* A search for an address.
LEMMA TakenDiscover ==
    ASSUME NEW l \in Layouts, Len(Options(l, 1, <<>>)) <= 308
    PROVE  Taken(Options(l, 1, <<>>)) = Msg("discover", 0)
<1> DEFINE opt == Options(l, 1, <<>>)
<1>1. 1 \in Byte /\ AddressLike(<<>>)
  BY DEF Byte, AddressLike
<1>2. \E n, at, s : SentAs(opt, n, at, s, 1, <<>>)
  BY <1>1, OptionsSent
<1> HIDE DEF opt
<1>3. /\ 3 <= Len(opt) /\ Len(opt) \in Nat
      /\ opt_find(opt, 53) # NotFound /\ opt[opt_find(opt, 53) + 3] = 1
  BY <1>1, <1>2, SentRead DEF opt
<1>4. Taken(opt) = Msg("discover", 0)
  BY <1>3 DEF Taken
<1> QED
  BY <1>4 DEF opt

\* A renewal names no address, and a release is no request.
LEMMA TakenRenewal ==
    ASSUME NEW l \in Layouts, NEW type \in {3, 7}, Len(Options(l, type, <<>>)) <= 308
    PROVE  Taken(Options(l, type, <<>>)) = None
<1> DEFINE opt == Options(l, type, <<>>)
<1>1. type \in Byte /\ type # 1 /\ AddressLike(<<>>)
  BY DEF Byte, AddressLike
<1>2. \E n, at, s : SentAs(opt, n, at, s, type, <<>>)
  BY <1>1, OptionsSent
<1> HIDE DEF opt
<1>3. /\ 3 <= Len(opt) /\ Len(opt) \in Nat
      /\ opt_find(opt, 53) # NotFound /\ opt[opt_find(opt, 53) + 3] = type
      /\ opt_find(opt, 50) = NotFound
  BY <1>1, <1>2, SentRead DEF opt
<1>4. Taken(opt) = None
  BY <1>1, <1>3 DEF Taken
<1> QED
  BY <1>4 DEF opt

LEMMA RequestRead ==
    ASSUME NEW l \in Layouts, NEW address \in Seq(Byte), Len(address) = 4,
           Len(Options(l, 3, address)) <= 308
    PROVE  Taken(Options(l, 3, address)) =
               IF ~(address[1] = Ip[1] /\ address[2] = Ip[2] /\ address[3] = Ip[3]) THEN None
               ELSE IF (address[4] - BaseIp) % 256 >= MaxIp THEN None
               ELSE Msg("request", (address[4] - BaseIp) % 256)
<1> DEFINE opt == Options(l, 3, address)
<1>1. 3 \in Byte /\ AddressLike(address) /\ address # <<>>
  <2>1. 3 \in Byte
    BY DEF Byte
  <2>2. address # <<>>
    <3>1. Len(<<>>) # 4
      OBVIOUS
    <3> QED
      BY <3>1, Zenon
  <2> QED
    BY <2>1, <2>2 DEF AddressLike
<1>2. \E n, at, s : SentAs(opt, n, at, s, 3, address)
  BY <1>1, OptionsSent
<1> HIDE DEF opt
<1>3. /\ 3 <= Len(opt) /\ Len(opt) \in Nat /\ opt \in Seq(Byte)
      /\ opt_find(opt, 53) # NotFound /\ opt[opt_find(opt, 53) + 3] = 3
  BY <1>1, <1>2, SentRead DEF opt
<1>4. PICK p : AddressAt(opt, p, address)
  BY <1>1, <1>2, SentRead DEF opt
<1>5. PICK o \in Nat : /\ opt_find(opt, 50) = o /\ o + 6 < Len(opt)
                       /\ \A i \in 1..4 : opt[o + 2 + i] = address[i]
  BY <1>4 DEF AddressAt
<1>6. /\ SubSeq(opt, o + 3, o + 5) = SubSeq(Ip, 1, 3)
           <=> address[1] = Ip[1] /\ address[2] = Ip[2] /\ address[3] = Ip[3]
      /\ opt[o + 6] = address[4]
  BY <1>3, <1>5, Network, SMTT(30)
<1>7. RequestedSlot(opt, o) = (address[4] - BaseIp) % 256
  BY <1>6 DEF RequestedSlot
<1>8. o # NotFound /\ ~(240 + Len(opt) < 243)
  BY <1>3 DEF NotFound
<1> DEFINE slot == (address[4] - BaseIp) % 256
<1>9. Taken(opt) = IF SubSeq(opt, o + 3, o + 5) # SubSeq(Ip, 1, 3) THEN None
                   ELSE IF slot >= MaxIp THEN None ELSE Msg("request", slot)
  <2>1. opt[opt_find(opt, 53) + 3] # 1
    BY <1>3
  <2>2. Taken(opt) = IF SubSeq(opt, o + 3, o + 5) # SubSeq(Ip, 1, 3) THEN None
                     ELSE IF RequestedSlot(opt, o) >= MaxIp THEN None
                     ELSE Msg("request", RequestedSlot(opt, o))
    <3> DEFINE k == opt_find(opt, 50)
               network(j) == SubSeq(opt, j + 3, j + 5) # SubSeq(Ip, 1, 3)
    <3>1. k = o /\ k # NotFound
      BY <1>5, <1>8
    <3>2. Taken(opt) = IF network(k) THEN None
                       ELSE IF RequestedSlot(opt, k) >= MaxIp THEN None
                       ELSE Msg("request", RequestedSlot(opt, k))
      BY <1>3, <1>8, <2>1, <3>1, Zenon DEF Taken
    <3> HIDE DEF k, network
    <3>3. Taken(opt) = IF network(o) THEN None
                       ELSE IF RequestedSlot(opt, o) >= MaxIp THEN None
                       ELSE Msg("request", RequestedSlot(opt, o))
      BY <3>1, <3>2
    <3> QED
      BY <3>3 DEF network
  <2> HIDE DEF slot
  <2> QED
    BY <1>7, <2>2 DEF slot
<1> QED
  BY <1>6, <1>9 DEF opt

LEMMA SlotType == \A i \in Slots : i \in Nat /\ i < MaxIp /\ MaxIp \in Nat /\ BaseIp \in Nat /\ BaseIp + MaxIp <= 256
BY SizesAssumption, AddressesAssumption DEF Slots

LEMMA NetworkBytes == Ip[1] \in Byte /\ Ip[2] \in Byte /\ Ip[3] \in Byte /\ Ip[1] \in Nat /\ Ip[1] <= 255
<1>1. Ip[1] \in Byte /\ Ip[2] \in Byte /\ Ip[3] \in Byte
  BY AddressesAssumption
<1> QED
  BY <1>1 DEF Byte

LEMMA AddressType ==
    ASSUME NEW i \in Slots
    PROVE  Address(i) \in Seq(Byte) /\ Len(Address(i)) = 4
<1>1. BaseIp + i \in Byte
  <2>1. i \in Nat /\ i < MaxIp /\ MaxIp \in Nat /\ BaseIp \in Nat /\ BaseIp + MaxIp <= 256
    BY SlotType
  <2>2. BaseIp + i \in 0..255
    BY <2>1
  <2> QED
    BY <2>2 DEF Byte
<1> QED
  BY <1>1, NetworkBytes DEF Address

\* A request for an address of the server.
LEMMA TakenRequest ==
    ASSUME NEW l \in Layouts, NEW i \in Slots, Len(Options(l, 3, Address(i))) <= 308
    PROVE  Taken(Options(l, 3, Address(i))) = Msg("request", i)
<1> DEFINE a == Address(i)
<1>1. a \in Seq(Byte) /\ Len(a) = 4
  BY AddressType
<1>2. a[1] = Ip[1] /\ a[2] = Ip[2] /\ a[3] = Ip[3] /\ a[4] = BaseIp + i
  BY DEF Address
<1>3. (a[4] - BaseIp) % 256 = i
  <2>1. (BaseIp + i) - BaseIp = i /\ i \in 0..255
    <3>1. i \in Nat /\ i < MaxIp /\ MaxIp \in Nat /\ BaseIp \in Nat /\ BaseIp + MaxIp <= 256
      BY SlotType
    <3> HIDE DEF a
    <3> QED
      BY <3>1
  <2>2. \A k \in 0..255 : k % 256 = k
    OBVIOUS
  <2> HIDE DEF a
  <2> QED
    BY <1>2, <2>1, <2>2
<1>4. i < MaxIp /\ i \in Nat /\ MaxIp \in Nat
  BY SlotType
<1> HIDE DEF a
<1>5. Taken(Options(l, 3, a)) =
          IF ~(a[1] = Ip[1] /\ a[2] = Ip[2] /\ a[3] = Ip[3]) THEN None
          ELSE IF (a[4] - BaseIp) % 256 >= MaxIp THEN None
          ELSE Msg("request", (a[4] - BaseIp) % 256)
  BY <1>1, RequestRead DEF a
<1>6. ~(i >= MaxIp)
  BY <1>4
<1> QED
  BY <1>2, <1>3, <1>5, <1>6 DEF a

\* A request for an address the server does not give away.
LEMMA TakenForeign ==
    ASSUME NEW l \in Layouts, NEW a \in ForeignAddresses, Len(Options(l, 3, a)) <= 308
    PROVE  Taken(Options(l, 3, a)) = None
<1>1. MaxIp \in Nat \ {0} /\ BaseIp \in Nat /\ BaseIp + MaxIp <= 256
  BY SizesAssumption, AddressesAssumption
<1>2. CASE a = <<(Ip[1] + 1) % 256, Ip[2], Ip[3], BaseIp>>
  <2>1. (Ip[1] + 1) % 256 \in Byte /\ (Ip[1] + 1) % 256 # Ip[1]
    <3>1. \A k \in 0..255 : (k + 1) % 256 \in 0..255 /\ (k + 1) % 256 # k
      OBVIOUS
    <3>2. Ip[1] \in 0..255
      BY NetworkBytes DEF Byte
    <3> QED
      BY <3>1, <3>2 DEF Byte
  <2>2. BaseIp \in Byte
    BY <1>1 DEF Byte
  <2> DEFINE m == (Ip[1] + 1) % 256
  <2> HIDE DEF m
  <2>3. a = <<m, Ip[2], Ip[3], BaseIp>> /\ m \in Byte /\ m # Ip[1]
    BY <1>2, <2>1 DEF m
  <2>4. a \in Seq(Byte) /\ Len(a) = 4 /\ a[1] # Ip[1]
    BY <2>2, <2>3, NetworkBytes
  <2> QED
    BY <2>4, RequestRead
<1>3. ASSUME NEW k \in {BaseIp - 1, BaseIp + MaxIp} \cap Byte, a = <<Ip[1], Ip[2], Ip[3], k>>
      PROVE  Taken(Options(l, 3, a)) = None
  <2>1. a \in Seq(Byte) /\ Len(a) = 4 /\ a[4] = k
    BY <1>3, NetworkBytes
  <2>2. (k - BaseIp) % 256 >= MaxIp
    <3>1. k \in 0..255
      BY DEF Byte
    <3>2. CASE k = BaseIp - 1
      <4>1. k - BaseIp \in Int /\ (k - BaseIp) + 1 = 0 /\ MaxIp <= 255
        BY <1>1, <3>1, <3>2
      <4>2. \A j \in Int : j + 1 = 0 => j % 256 = 255
        OBVIOUS
      <4> QED
        BY <1>1, <4>1, <4>2
    <3>3. CASE k = BaseIp + MaxIp
      <4>1. k - BaseIp = MaxIp /\ MaxIp \in 0..255
        BY <1>1, <3>1, <3>3
      <4>2. \A j \in 0..255 : j % 256 = j
        OBVIOUS
      <4> QED
        BY <1>1, <4>1, <4>2
    <3> QED
      BY <3>2, <3>3
  <2> DEFINE slot == (a[4] - BaseIp) % 256
  <2>3. slot >= MaxIp
    BY <2>1, <2>2
  <2>4. Taken(Options(l, 3, a)) =
            IF ~(a[1] = Ip[1] /\ a[2] = Ip[2] /\ a[3] = Ip[3]) THEN None
            ELSE IF slot >= MaxIp THEN None ELSE Msg("request", slot)
    BY <2>1, RequestRead
  <2> HIDE DEF slot
  <2> QED
    BY <2>3, <2>4
<1> QED
  BY <1>2, <1>3 DEF ForeignAddresses

\* Nothing but the end is too short.
LEMMA TakenBare == Taken(<<255>>) = None
BY DEF Taken

\* An option that is no type is none.
LEMMA TakenUntyped ==
    ASSUME NEW m \in DOMAIN Extra, Len(Extra[m] \o << 255 >>) <= 308
    PROVE  Taken(Extra[m] \o <<255>>) = None
<1> DEFINE s == <<Extra[m]>>
           opt == Extra[m] \o <<255>>
<1>1. s[1] = Extra[m] /\ Piece(Extra[m]) /\ Extra[m][1] # 53
  <2>1. /\ Extra[m] \in Seq(Byte) /\ Len(Extra[m]) >= 2 /\ Len(Extra[m]) = 2 + Extra[m][2]
        /\ Extra[m][1] \in 1..254 \ {50, 53}
    BY ExtraAssumption
  <2> QED
    BY <2>1 DEF Piece
<1> HIDE DEF s
<1>2. PICK at : Laid(s[1], 1, at, s)
  BY <1>1, LaidFirst
<1>3. Pieces(opt, 1, at, s)
  BY <1>1, <1>2, LaidEnds
<1>4. FindIs(opt, 1, at, s, 53)
  <2>1. 53 \in 1..254
    OBVIOUS
  <2> QED
    BY <1>3, <2>1, Found
<1>5. \A j \in 1..1 : ~Coded(s[j], 53)
  <2> TAKE j \in 1..1
  <2>1. j = 1
    OBVIOUS
  <2> QED
    BY <1>1, <2>1 DEF Coded
<1>6. opt_find(opt, 53) = NotFound
  BY <1>4, <1>5, Zenon DEF FindIs
<1> HIDE DEF opt
<1>7. Taken(opt) = None
  BY <1>6 DEF Taken
<1> QED
  BY <1>7 DEF opt

\* What is read of a message is what its station means.
LEMMA ReadingsMeant ==
    \A r \in Readings :
        /\ r.sent.kind \in {"discover", "request", "other"}
        /\ r.sent.kind = "discover" => r.read = Msg("discover", 0)
        /\ r.sent.kind = "request" => r.read = r.sent
        /\ r.sent.kind = "other" => r.read = None
<1> TAKE r \in Readings
<1>0. PICK msg \in [kind : {"discover", "request", "other"}, slot : Slots] :
          \E opt \in OptionsOf(msg) : r = [sent |-> msg, read |-> Taken(opt)]
  BY DEF Readings
<1>1. PICK opt \in OptionsOf(msg) : r = [sent |-> msg, read |-> Taken(opt)]
  BY <1>0
<1>2. r.sent = msg /\ r.read = Taken(opt) /\ Len(opt) <= 308
  BY <1>1, OptionsAssumption
<1>3. msg.kind \in {"discover", "request", "other"} /\ msg.slot \in Slots
  OBVIOUS
<1>4. CASE msg.kind = "discover"
  <2>1. PICK l \in Layouts : opt = Options(l, 1, <<>>)
    BY <1>4 DEF OptionsOf
  <2>2. Taken(opt) = Msg("discover", 0)
    BY <1>2, <2>1, TakenDiscover
  <2> QED
    BY <1>2, <1>4, <2>2
<1>5. CASE msg.kind = "request"
  <2>1. PICK l \in Layouts : opt = Options(l, 3, Address(msg.slot))
    BY <1>5 DEF OptionsOf
  <2>2. Taken(opt) = Msg("request", msg.slot)
    BY <1>2, <1>3, <2>1, TakenRequest
  <2>3. msg = Msg("request", msg.slot)
    BY <1>5 DEF Msg
  <2> QED
    BY <1>2, <1>5, <2>2, <2>3
<1>6. CASE msg.kind = "other"
  <2>1. opt \in OtherOptions
    BY <1>6 DEF OptionsOf
  <2>2. \/ \E l \in Layouts, type \in {3, 7} : opt = Options(l, type, <<>>)
        \/ \E l \in Layouts, a \in ForeignAddresses : opt = Options(l, 3, a)
        \/ opt = <<255>>
        \/ \E m \in DOMAIN Extra : opt = Extra[m] \o <<255>>
    <3> DEFINE A == {Options(l, type, <<>>) : l \in Layouts, type \in {3, 7}}
               B == {Options(l, 3, a) : l \in Layouts, a \in ForeignAddresses}
               C == {Extra[m] \o <<255>> : m \in DOMAIN Extra}
    <3>1. OtherOptions = A \cup B \cup {<<255>>} \cup C
      BY DEF OtherOptions
    <3>2. opt \in A \/ opt \in B \/ opt = <<255>> \/ opt \in C
      <4> HIDE DEF A, B, C
      <4> QED
        BY <2>1, <3>1
    <3>3. opt \in A => \E l \in Layouts, type \in {3, 7} : opt = Options(l, type, <<>>)
      OBVIOUS
    <3>4. opt \in B => \E l \in Layouts, a \in ForeignAddresses : opt = Options(l, 3, a)
      OBVIOUS
    <3>5. opt \in C => \E m \in DOMAIN Extra : opt = Extra[m] \o <<255>>
      BY Zenon
    <3> HIDE DEF A, B, C
    <3> QED
      BY <3>2, <3>3, <3>4, <3>5, Zenon
  <2>3. ASSUME NEW l \in Layouts, NEW type \in {3, 7}, opt = Options(l, type, <<>>)
        PROVE  Taken(opt) = None
    BY <1>2, <2>3, TakenRenewal
  <2>4. ASSUME NEW l \in Layouts, NEW a \in ForeignAddresses, opt = Options(l, 3, a)
        PROVE  Taken(opt) = None
    BY <1>2, <2>4, TakenForeign
  <2>5. ASSUME NEW m \in DOMAIN Extra, opt = Extra[m] \o << 255 >> PROVE Taken(opt) = None
    BY <1>2, <2>5, TakenUntyped
  <2>6. Taken(opt) = None
    BY <2>2, <2>3, <2>4, <2>5, TakenBare, Zenon
  <2> QED
    BY <1>2, <1>6, <2>6
<1> QED
  BY <1>2, <1>3, <1>4, <1>5, <1>6

-----------------------------------------------------------------------------
(* What a station reads of an answer *)

LEMMA Written ==
    ASSUME NEW cmd \in 1..254, NEW data, NEW m \in 1..4, data \in [1..m -> Byte]
    PROVE  /\ Piece(opt_write_n(cmd, data)) /\ opt_write_n(cmd, data) # <<>>
           /\ opt_write_n(cmd, data)[1] = cmd
           /\ SubSeq(opt_write_n(cmd, data), 3, Len(opt_write_n(cmd, data))) = data
<1> DEFINE h == <<cmd, Len(data)>>
           x == h \o data
<1>1. data \in Seq(Byte) /\ Len(data) = m /\ m \in Byte /\ m \in Nat /\ cmd \in Byte
  BY DEF Byte
<1>2. h \in Seq(Byte) /\ Len(h) = 2 /\ h[1] = cmd /\ h[2] = m
  BY <1>1
<1> HIDE DEF h
<1>3. /\ x \in Seq(Byte) /\ Len(x) = 2 + m
      /\ \A i \in 1..2 + m : x[i] = IF i <= 2 THEN h[i] ELSE data[i - 2]
  <2>1. /\ x \in Seq(Byte) /\ Len(x) = Len(h) + Len(data)
        /\ \A i \in 1..Len(h) + Len(data) :
               x[i] = IF i <= Len(h) THEN h[i] ELSE data[i - Len(h)]
    BY <1>1, <1>2, ConcatProperties
  <2> HIDE DEF x
  <2> QED
    BY <1>1, <1>2, <2>1
<1>0. opt_write_n(cmd, data) = x
  BY DEF opt_write_n, h
<1> HIDE DEF x
<1>4. x[1] = cmd /\ x[2] = m
  BY <1>1, <1>2, <1>3
<1>5. Piece(x) /\ x # <<>>
  <2>1. x # <<>>
    BY <1>1, <1>3
  <2> QED
    BY <1>1, <1>3, <1>4, <2>1 DEF Piece
<1>6. SubSeq(x, 3, Len(x)) = data
  <2> DEFINE u == SubSeq(x, 3, Len(x))
  <2>1. 2 \in Nat /\ 2 + 1 = 3 /\ 2 + m <= Len(x) /\ 2 + m = Len(x)
    BY <1>1, <1>3
  <2>2. u \in Seq(Byte) /\ Len(u) = m /\ \A i \in 1..m : u[i] = x[2 + i]
    BY <1>1, <1>3, <2>1, PartOf
  <2> HIDE DEF u
  <2>3. \A i \in 1..m : x[2 + i] = data[i]
    <3> TAKE i \in 1..m
    <3>1. 2 + i \in 1..2 + m /\ ~(2 + i <= 2) /\ (2 + i) - 2 = i
      BY <1>1
    <3> QED
      BY <1>3, <3>1
  <2>4. u = data
    <3>1. Len(u) = Len(data) /\ \A i \in 1..Len(u) : u[i] = data[i]
      BY <1>1, <2>2, <2>3
    <3> QED
      BY <1>1, <2>2, <3>1, SeqEqual
  <2> QED
    BY <2>4 DEF u
<1> QED
  BY <1>0, <1>4, <1>5, <1>6

\* The options of an answer have a type and the server's data.
LEMMA AnswerOptions ==
    ASSUME NEW type \in Byte, NEW i
    PROVE  LET opt == Answer(type, i).options
           IN  /\ Value(opt, 53) = <<type>> /\ Value(opt, 54) = Ip /\ Value(opt, 1) = Mask
               /\ Value(opt, 3) = Ip /\ Value(opt, 6) = Ip /\ Value(opt, 51) = LeaseSeconds
<1> DEFINE opt == Answer(type, i).options
           w1 == opt_write_n(53, <<type>>)
           w2 == opt_write_n(54, Ip)
           w3 == opt_write_n(1, Mask)
           w4 == opt_write_n(3, Ip)
           w5 == opt_write_n(6, Ip)
           w6 == opt_write_n(51, LeaseSeconds)
           s == <<w1, w2, w3, w4, w5, w6>>
<1>1. opt = w1 \o w2 \o w3 \o w4 \o w5 \o w6 \o <<255>>
  BY DEF Answer
<1>2. <<type>> \in [1..1 -> Byte] /\ Ip \in [1..4 -> Byte] /\ Mask \in [1..4 -> Byte]
      /\ LeaseSeconds \in [1..4 -> Byte] /\ 1 \in 1..4 /\ 4 \in 1..4
  BY AddressesAssumption
<1> DEFINE Is(w, cmd, data) ==
               Piece(w) /\ w # <<>> /\ w[1] = cmd /\ SubSeq(w, 3, Len(w)) = data
<1>3. Is(w1, 53, <<type>>)
  <2>1. 53 \in 1..254
    OBVIOUS
  <2> QED
    BY <1>2, <2>1, Written
<1>4. ASSUME NEW cmd \in 1..254, NEW data \in [1..4 -> Byte] PROVE Is(opt_write_n(cmd, data), cmd, data)
  BY <1>2, Written
<1>5. Is(w2, 54, Ip) /\ Is(w3, 1, Mask) /\ Is(w4, 3, Ip) /\ Is(w5, 6, Ip) /\ Is(w6, 51, LeaseSeconds)
  <2>1. 54 \in 1..254 /\ 1 \in 1..254 /\ 3 \in 1..254 /\ 6 \in 1..254 /\ 51 \in 1..254
    OBVIOUS
  <2> HIDE DEF Is
  <2> QED
    BY <1>2, <1>4, <2>1
<1>6. s[1] = w1 /\ s[2] = w2 /\ s[3] = w3 /\ s[4] = w4 /\ s[5] = w5 /\ s[6] = w6
  <2> HIDE DEF w1, w2, w3, w4, w5, w6
  <2> QED
    OBVIOUS
<1> HIDE DEF w1, w2, w3, w4, w5, w6, s, opt
<1>7. Piece(s[1]) /\ Piece(s[2]) /\ Piece(s[3]) /\ Piece(s[4]) /\ Piece(s[5]) /\ Piece(s[6])
  BY <1>3, <1>5, <1>6
<1>8. \E at : Pieces(opt, 6, at, s)
  <2>1. PICK a1 : Laid(w1, 1, a1, s)
    BY <1>6, <1>7, LaidFirst
  <2>2. PICK a2 : Laid(w1 \o w2, 2, a2, s)
    <3>1. \E to : Laid(w1 \o s[1 + 1], 1 + 1, to, s)
      <4>1. Piece(s[1 + 1])
        BY <1>7
      <4> QED
        BY <2>1, <4>1, LaidNext
    <3> QED
      BY <1>6, <3>1
  <2>3. PICK a3 : Laid(w1 \o w2 \o w3, 3, a3, s)
    <3>1. \E to : Laid((w1 \o w2) \o s[2 + 1], 2 + 1, to, s)
      <4>1. Piece(s[2 + 1])
        BY <1>7
      <4> QED
        BY <2>2, <4>1, LaidNext
    <3> QED
      BY <1>6, <3>1
  <2>4. PICK a4 : Laid(w1 \o w2 \o w3 \o w4, 4, a4, s)
    <3>1. \E to : Laid((w1 \o w2 \o w3) \o s[3 + 1], 3 + 1, to, s)
      <4>1. Piece(s[3 + 1])
        BY <1>7
      <4> QED
        BY <2>3, <4>1, LaidNext
    <3> QED
      BY <1>6, <3>1
  <2>5. PICK a5 : Laid(w1 \o w2 \o w3 \o w4 \o w5, 5, a5, s)
    <3>1. \E to : Laid((w1 \o w2 \o w3 \o w4) \o s[4 + 1], 4 + 1, to, s)
      <4>1. Piece(s[4 + 1])
        BY <1>7
      <4> QED
        BY <2>4, <4>1, LaidNext
    <3> QED
      BY <1>6, <3>1
  <2>6. PICK a6 : Laid(w1 \o w2 \o w3 \o w4 \o w5 \o w6, 6, a6, s)
    <3>1. \E to : Laid((w1 \o w2 \o w3 \o w4 \o w5) \o s[5 + 1], 5 + 1, to, s)
      <4>1. Piece(s[5 + 1])
        BY <1>7
      <4> QED
        BY <2>5, <4>1, LaidNext
    <3> QED
      BY <1>6, <3>1
  <2> QED
    BY <1>1, <2>6, LaidEnds
<1>9. PICK at : Pieces(opt, 6, at, s)
  BY <1>8
<1>10. \A j \in 1..6 : j = 1 \/ j = 2 \/ j = 3 \/ j = 4 \/ j = 5 \/ j = 6
  OBVIOUS
<1> DEFINE Alone(k, cmd) == \A j \in 1..6 : j # k => s[j][1] # cmd
<1>11. ASSUME NEW k \in 1..6, NEW cmd \in 1..254, NEW data, Is(s[k], cmd, data), Alone(k, cmd)
       PROVE  Value(opt, cmd) = data
  <2>1. AllOf(6, s, cmd, s[k])
    BY <1>11 DEF AllOf, Coded
  <2> QED
    BY <1>9, <1>11, <2>1, Valued
<1>12. /\ s[1][1] = 53 /\ s[2][1] = 54 /\ s[3][1] = 1 /\ s[4][1] = 3 /\ s[5][1] = 6 /\ s[6][1] = 51
  BY <1>3, <1>5, <1>6
<1>13. /\ Alone(1, 53) /\ Alone(2, 54) /\ Alone(3, 1)
       /\ Alone(4, 3) /\ Alone(5, 6) /\ Alone(6, 51)
  BY <1>10, <1>12
<1>14. /\ Is(s[1], 53, <<type>>) /\ Is(s[2], 54, Ip) /\ Is(s[3], 1, Mask) /\ Is(s[4], 3, Ip)
       /\ Is(s[5], 6, Ip) /\ Is(s[6], 51, LeaseSeconds)
  BY <1>3, <1>5, <1>6
<1> HIDE DEF Is, Alone
<1>15. /\ Value(opt, 53) = <<type>> /\ Value(opt, 54) = Ip /\ Value(opt, 1) = Mask
       /\ Value(opt, 3) = Ip /\ Value(opt, 6) = Ip /\ Value(opt, 51) = LeaseSeconds
  <2>0. /\ 1 \in 1..6 /\ 2 \in 1..6 /\ 3 \in 1..6 /\ 4 \in 1..6 /\ 5 \in 1..6 /\ 6 \in 1..6
        /\ 53 \in 1..254 /\ 54 \in 1..254 /\ 1 \in 1..254 /\ 3 \in 1..254 /\ 6 \in 1..254
        /\ 51 \in 1..254
    OBVIOUS
  <2>1. Value(opt, 53) = <<type>>
    BY <1>11, <1>13, <1>14, <2>0
  <2>2. Value(opt, 54) = Ip
    BY <1>11, <1>13, <1>14, <2>0
  <2>3. Value(opt, 1) = Mask
    BY <1>11, <1>13, <1>14, <2>0
  <2>4. Value(opt, 3) = Ip
    BY <1>11, <1>13, <1>14, <2>0
  <2>5. Value(opt, 6) = Ip
    BY <1>11, <1>13, <1>14, <2>0
  <2>6. Value(opt, 51) = LeaseSeconds
    BY <1>11, <1>13, <1>14, <2>0
  <2> QED
    BY <2>1, <2>2, <2>3, <2>4, <2>5, <2>6
<1> QED
  BY <1>15 DEF opt

\* An answer is understood as it was given.
LEMMA AnswersMeant == \A a \in Answers : a.read = a.sent
<1> TAKE a \in Answers
<1>1. ASSUME NEW i \in Slots, NEW type \in {2, 5}
      PROVE  Understood(Answer(type, i)) = Msg(IF type = 2 THEN "offer" ELSE "ack", i)
  <2> DEFINE m == Answer(type, i)
             opt == m.options
  <2>1. type \in Byte
    BY DEF Byte
  <2>2. /\ Value(opt, 53) = <<type>> /\ Value(opt, 54) = Ip /\ Value(opt, 1) = Mask
        /\ Value(opt, 3) = Ip /\ Value(opt, 6) = Ip /\ Value(opt, 51) = LeaseSeconds
    BY <2>1, AnswerOptions
  <2>3. m.yiaddr[4] - BaseIp = i
    <3>1. m.yiaddr[4] = BaseIp + i
      BY DEF Answer, Address
    <3> HIDE DEF m
    <3>2. i \in Nat /\ BaseIp \in Nat
      BY SlotType
    <3> QED
      BY <3>1, <3>2
  <2>4. <<type>> = <<2>> <=> type = 2
    OBVIOUS
  <2>5. <<type>> = <<5>> <=> type = 5
    OBVIOUS
  <2> HIDE DEF m
  <2>6. Understood(m) = Msg(IF type = 2 THEN "offer" ELSE "ack", i)
    <3>1. CASE type = 2
      <4>1. Value(opt, 53) = <<2>>
        BY <2>2, <3>1
      <4> QED
        BY <2>2, <2>3, <3>1, <4>1 DEF Understood
    <3>2. CASE type = 5
      <4>1. Value(opt, 53) = <<5>> /\ Value(opt, 53) # <<2>>
        BY <2>2, <2>4, <3>2
      <4> QED
        BY <2>2, <2>3, <3>2, <4>1 DEF Understood
    <3> QED
      BY <3>1, <3>2
  <2> QED
    BY <2>6 DEF m
<1>2. PICK i \in Slots : \/ a = [sent |-> Msg("offer", i), read |-> Understood(Answer(2, i))]
                         \/ a = [sent |-> Msg("ack", i), read |-> Understood(Answer(5, i))]
  BY DEF Answers
<1>3. Understood(Answer(2, i)) = Msg("offer", i) /\ Understood(Answer(5, i)) = Msg("ack", i)
  <2>1. 2 \in {2, 5} /\ 5 \in {2, 5}
    OBVIOUS
  <2>2. Understood(Answer(2, i)) = Msg(IF 2 = 2 THEN "offer" ELSE "ack", i)
    BY <1>1, <2>1
  <2>3. Understood(Answer(5, i)) = Msg(IF 5 = 2 THEN "offer" ELSE "ack", i)
    BY <1>1, <2>1
  <2> QED
    BY <2>2, <2>3
<1> QED
  BY <1>2, <1>3

-----------------------------------------------------------------------------
(* The server on bytes *)

\* A message is handled as what it means.
LEMMA ReceiveMeans ==
    ASSUME NEW c \in Clients, Receive(c)
    PROVE  Discover(c) \/ Request(c)
<1>1. PICK r \in Readings :
          /\ r.sent = request[c]
          /\ \/ /\ r.read.kind = "discover"
                /\ Clear(Cleared(c))
                /\ \/ Candidates(c) = {} /\ UNCHANGED reply
                   \/ \E i \in Slots : First(i, Candidates(c)) /\ Answered(c, Msg("offer", i))
             \/ /\ r.read.kind = "request" /\ MayHave(c, r.read.slot)
                /\ Grant(c, r.read.slot)
                /\ Answered(c, Msg("ack", r.read.slot))
  BY DEF Receive
<1>2. UNCHANGED <<now, request, stations>>
  BY DEF Receive
<1>3. /\ r.sent.kind \in {"discover", "request", "other"}
      /\ r.sent.kind = "discover" => r.read = Msg("discover", 0)
      /\ r.sent.kind = "request" => r.read = r.sent
      /\ r.sent.kind = "other" => r.read = None
  BY ReadingsMeant
<1>4. ASSUME NEW msg, Answered(c, msg) PROVE reply' = [reply EXCEPT ![c] = msg]
  BY <1>4, AnswersMeant DEF Answered
<1>5. CASE /\ r.read.kind = "discover"
           /\ Clear(Cleared(c))
           /\ \/ Candidates(c) = {} /\ UNCHANGED reply
              \/ \E i \in Slots : First(i, Candidates(c)) /\ Answered(c, Msg("offer", i))
  <2>1. request[c].kind = "discover"
    BY <1>1, <1>3, <1>5 DEF None
  <2>2. \/ Candidates(c) = {} /\ UNCHANGED reply
        \/ \E i \in Slots : First(i, Candidates(c)) /\ reply' = [reply EXCEPT ![c] = Msg("offer", i)]
    BY <1>4, <1>5
  <2> QED
    BY <1>2, <1>5, <2>1, <2>2, Zenon DEF Discover
<1>6. CASE /\ r.read.kind = "request" /\ MayHave(c, r.read.slot)
           /\ Grant(c, r.read.slot)
           /\ Answered(c, Msg("ack", r.read.slot))
  <2>1. request[c].kind = "request" /\ r.read = request[c]
    BY <1>1, <1>3, <1>6 DEF None, Msg
  <2>2. reply' = [reply EXCEPT ![c] = Msg("ack", r.read.slot)]
    BY <1>4, <1>6
  <2> QED
    BY <1>2, <1>6, <2>1, <2>2, Zenon DEF Request
<1> QED
  BY <1>1, <1>5, <1>6, Zenon

LEMMA MessagesStep == [MessagesNext]_vars => [Next]_vars
<1> SUFFICES ASSUME [MessagesNext]_vars PROVE [Next]_vars
  OBVIOUS
<1>1. CASE UNCHANGED vars
  BY <1>1
<1>2. CASE MessagesNext
  <2>1. CASE Tick \/ Restart
    BY <2>1 DEF Next
  <2>2. ASSUME NEW c \in Clients, Receive(c) \/ Station(c) PROVE Next
    <3>1. Discover(c) \/ Request(c) \/ Station(c)
      BY <2>2, ReceiveMeans
    <3> QED
      BY <3>1 DEF Next
  <2> QED
    BY <1>2, <2>1, <2>2 DEF MessagesNext
<1> QED
  BY <1>1, <1>2

\* On bytes the server does what Dhcp says: each message, whatever the order of its
\* options, is handled as what its station means, and each answer is read as it was
\* given (dhcpserver.c:146-291).
THEOREM ServerRefines == MessagesSpec => ServerRefinement
<1>1. [MessagesNext]_vars => [Next]_vars
  BY MessagesStep
<1> QED
  BY <1>1, PTL DEF MessagesSpec, ServerRefinement, Spec

\* So what is proved of the leases holds of the server on bytes.
THEOREM LeasesOnBytes == MessagesSpec => [](OneLeasePerClient /\ NoAddressTwice)
<1>1. MessagesSpec => Spec
  BY ServerRefines DEF ServerRefinement
<1> QED
  BY <1>1, OneLeaseStays, NoAddressTwiceStays, PTL

\* A search names no slot.
SearchesPlain == \A c \in Clients : request[c].kind = "discover" => request[c] = Msg("discover", 0)

LEMMA NextPlain == TypeOK /\ SearchesPlain /\ [Next]_vars => SearchesPlain'
<1> SUFFICES ASSUME TypeOK, SearchesPlain, [Next]_vars PROVE SearchesPlain'
  OBVIOUS
<1>1. request \in [Clients -> [kind : Kinds, slot : Slots]]
  BY DEF TypeOK
<1>2. CASE UNCHANGED request
  BY <1>2 DEF SearchesPlain
<1>3. ASSUME NEW c \in Clients, NEW msg, Sends(c, msg),
             msg.kind = "discover" => msg = Msg("discover", 0)
      PROVE  SearchesPlain'
  BY <1>1, <1>3 DEF Sends, SearchesPlain
<1>4. CASE Restart
  BY <1>4 DEF Restart, SearchesPlain, None
<1>5. ASSUME NEW c \in Clients, Station(c) PROVE SearchesPlain'
  <2>1. CASE SendDiscover(c)
    BY <1>3, <2>1 DEF SendDiscover
  <2>2. CASE Select(c)
    <3>1. Sends(c, Msg("request", reply[c].slot))
      BY <2>2 DEF Select
    <3> QED
      BY <1>3, <3>1 DEF Msg
  <2>3. CASE Rejoin(c)
    <3>1. Sends(c, Msg("request", addr[c]))
      BY <2>3 DEF Rejoin
    <3> QED
      BY <1>3, <3>1 DEF Msg
  <2>4. CASE Renew(c) \/ Release(c)
    <3>1. Sends(c, Msg("other", 0))
      BY <2>4 DEF Renew, Release
    <3> QED
      BY <1>3, <3>1 DEF Msg
  <2>5. CASE KeepOld(c) \/ Bind(c)
    <3>1. UNCHANGED request
      BY <2>5 DEF KeepOld, Bind
    <3> QED
      BY <1>2, <3>1
  <2> QED
    BY <1>5, <2>1, <2>2, <2>3, <2>4, <2>5 DEF Station
<1>6. ASSUME NEW c \in Clients, Discover(c) \/ Request(c) PROVE SearchesPlain'
  <2>1. UNCHANGED request
    BY <1>6 DEF Discover, Request
  <2> QED
    BY <1>2, <2>1
<1>7. CASE Tick
  <2>1. UNCHANGED request
    BY <1>7 DEF Tick
  <2> QED
    BY <1>2, <2>1
<1>8. CASE UNCHANGED vars
  <2>1. UNCHANGED request
    BY <1>8 DEF vars
  <2> QED
    BY <1>2, <2>1
<1> QED
  BY <1>4, <1>5, <1>6, <1>7, <1>8 DEF Next

\* Every message in flight is taken for what its station means, and every answer is read
\* as it was given, for every order of the options, every option a station adds, every
\* network and size of the table (dhcpserver.c:146-291).
THEOREM MessagesAreMeant == MessagesSpec => []MessagesMeant
<1>1. Init => TypeOK /\ SearchesPlain
  BY InitType DEF Init, SearchesPlain, None
<1>2. TypeOK /\ SearchesPlain /\ [Next]_vars => (TypeOK /\ SearchesPlain)'
  BY NextType, NextPlain
<1>3. SearchesPlain => MessagesMeant
  <2> SUFFICES ASSUME SearchesPlain, NEW c \in Clients
               PROVE  /\ \A r \in Readings : r.sent = request[c] =>
                             r.read = IF request[c].kind = "other" THEN None ELSE request[c]
                      /\ \A a \in Answers : a.sent = reply[c] => a.read = reply[c]
    BY DEF MessagesMeant
  <2>1. ASSUME NEW r \in Readings, r.sent = request[c]
        PROVE  r.read = IF request[c].kind = "other" THEN None ELSE request[c]
    <3>1. /\ r.sent.kind \in {"discover", "request", "other"}
          /\ r.sent.kind = "discover" => r.read = Msg("discover", 0)
          /\ r.sent.kind = "request" => r.read = r.sent
          /\ r.sent.kind = "other" => r.read = None
      BY ReadingsMeant
    <3>2. request[c].kind = "discover" => request[c] = Msg("discover", 0)
      BY DEF SearchesPlain
    <3> QED
      BY <2>1, <3>1, <3>2
  <2>2. ASSUME NEW a \in Answers, a.sent = reply[c] PROVE a.read = reply[c]
    BY <2>2, AnswersMeant
  <2> QED
    BY <2>1, <2>2
<1>4. [MessagesNext]_vars => [Next]_vars
  BY MessagesStep
<1> QED
  BY <1>1, <1>2, <1>3, <1>4, PTL DEF MessagesSpec
=============================================================================

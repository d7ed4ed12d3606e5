--------------------------- MODULE SessionsProofs ---------------------------
(***************************************************************************)
(* However connections overlap and end, the table and the callbacks never  *)
(* meet a client that was freed: for every number of connections, PCBs and *)
(* buffers, and however TCP joins what browsers send.                      *)
(***************************************************************************)
EXTENDS Sessions, SequenceTheorems, TLAPS

Items == {"page", "upgrade", "upgrade without key", "frame", "close", "fin"}
Parts == {"header", "page", "handshake", "config", "event"}
Client == [alive : BOOLEAN, upgraded : BOOLEAN, pcb : BOOLEAN]

-----------------------------------------------------------------------------
(* Types *)

LEMMA ClientTypes == NoClient \in Client /\ NewClient \in Client
BY DEF NoClient, NewClient, Client

\* What is left of what the browser sent.
LEMMA RestType ==
    \A s \in Seq(Items) : \A n \in {1, 2} : n <= Len(s) => SubSeq(s, n + 1, Len(s)) \in Seq(Items)
<1> TAKE s \in Seq(Items)
<1> TAKE n \in {1, 2}
<1> HAVE n <= Len(s)
<1>1. n + 1 \in 1..(Len(s) + 1) /\ Len(s) \in (n + 1 - 1)..Len(s)
  OBVIOUS
<1> QED
  BY <1>1, SubSeqProperties

LEMMA InitType == Init => TypeOK
<1>1. 0 \in 0..NumPbufs
  BY PoolsAssumption
<1>2. <<>> \in Seq(Items)
  OBVIOUS
<1> SUFFICES ASSUME Init PROVE TypeOK
  OBVIOUS
<1>3. client \in [Conns -> Client] /\ net \in [Conns -> Seq(Items)]
  BY <1>2, ClientTypes DEF Init
<1>4. down \in [Conns -> SUBSET Parts]
  BY DEF Init
<1>5. tab \in [Conns -> {"none", "connected", "loading", "loaded", "upgrading",
                       "open", "leaving", "left"}]
  BY DEF Init
<1> QED
  BY <1>1, <1>3, <1>4, <1>5 DEF Init, TypeOK, Items, Client, Parts

\* A segment.
LEMMA RecvType ==
    ASSUME TypeOK, NEW c \in Conns, NEW kinds, Recv(c, kinds)
    PROVE  /\ net' \in [Conns -> Seq(Items)]
           /\ running' = running /\ complete' = complete /\ listening' = listening
           /\ Leak(leaked) \in 0..NumPbufs
<1>1. PICK n \in Taken : /\ n <= Len(net[c])
                         /\ net' = [net EXCEPT ![c] = SubSeq(@, n + 1, Len(@))]
  BY DEF Recv
<1>2. n \in {1, 2}
  BY DEF Taken
<1>3. net \in [Conns -> Seq(Items)]
  BY DEF TypeOK, Items
<1>4. SubSeq(net[c], n + 1, Len(net[c])) \in Seq(Items)
  BY <1>1, <1>2, <1>3, RestType
<1>5. leaked \in 0..NumPbufs /\ leaked < NumPbufs
  BY DEF TypeOK, Recv
<1>6. Leak(leaked) \in 0..NumPbufs
  BY <1>5, PoolsAssumption DEF Leak
<1> QED
  BY <1>1, <1>3, <1>4, <1>6 DEF Recv

\* The end of a client.
LEMMA CloseType ==
    ASSUME TypeOK, NEW c \in Conns, ClientClose(c)
    PROVE  /\ slot' \in Conns \cup {Nil}
           /\ client' \in [Conns -> Client]
           /\ pcb' \in [Conns -> {"free", "active", "closing"}]
           /\ hooks' \in [Conns -> BOOLEAN]
<1>1. slot' \in Conns \cup {Nil}
  BY DEF TypeOK, ClientClose, SlotAfterClose
<1>2. client' \in [Conns -> Client]
  BY ClientTypes DEF TypeOK, ClientClose, Client
<1>3. pcb' \in [Conns -> {"free", "active", "closing"}]
  BY DEF TypeOK, ClientClose, ClosedPcb
<1>4. hooks' \in [Conns -> BOOLEAN]
  BY DEF TypeOK, ClientClose
<1> QED
  BY <1>1, <1>2, <1>3, <1>4

\* Each handler of a segment.
\* What is written of an answer joins what is on its way.
LEMMA WrittenType ==
    ASSUME TypeOK, NEW c \in Conns, NEW written \in SUBSET Parts,
           down' = [down EXCEPT ![c] = @ \cup written]
    PROVE  down' \in [Conns -> SUBSET Parts]
<1>1. down \in [Conns -> SUBSET Parts]
  BY DEF TypeOK, Parts
<1>2. down[c] \cup written \in SUBSET Parts
  BY <1>1
<1> QED
  BY <1>1, <1>2

LEMMA DeliverType == ASSUME TypeOK, NEW c \in Conns, Deliver(c) PROVE TypeOK'
<1> USE DEF Items, Client
<1>1. CASE RecvPage(c) \/ RecvPageFails(c)
  <2>1. PICK written \in SUBSET Parts : down' = [down EXCEPT ![c] = @ \cup written]
    BY <1>1 DEF RecvPage, RecvPageFails, Parts
  <2>2. down' \in [Conns -> SUBSET Parts]
    BY <2>1, WrittenType
  <2>3. PICK kinds : Recv(c, kinds)
    BY <1>1 DEF RecvPage, RecvPageFails
  <2> QED
    BY <1>1, <2>2, <2>3, RecvType DEF RecvPage, RecvPageFails, TypeOK, Parts
<1>2. CASE RecvUpgrade(c)
  <2>1. client' = [client EXCEPT ![c].upgraded = TRUE] /\ UNCHANGED <<slot, pcb, hooks, tab>>
    BY <1>2 DEF RecvUpgrade
  <2>2. client' \in [Conns -> Client]
    BY <2>1, ZenonT(30) DEF TypeOK
  <2>3. PICK written \in SUBSET Parts : down' = [down EXCEPT ![c] = @ \cup written]
    BY <1>2 DEF RecvUpgrade, Parts
  <2>4. down' \in [Conns -> SUBSET Parts]
    BY <2>3, WrittenType
  <2> QED
    <3>1. Recv(c, {"upgrade"}) /\ leaked' = leaked
      BY <1>2 DEF RecvUpgrade
    <3> QED
      BY <2>2, <2>4, <2>1, <3>1, RecvType DEF TypeOK, Parts
<1>3. CASE RecvNoKey(c)
  BY <1>3, RecvType, CloseType DEF RecvNoKey, TypeOK
<1>4. CASE RecvFrame(c)
  BY <1>4, RecvType DEF RecvFrame, TypeOK
<1>5. CASE RecvClose(c)
  BY <1>5, RecvType, CloseType DEF RecvClose, TypeOK
<1>6. CASE RecvFin(c)
  <2>1. net[c] \in Seq(Items) /\ net[c] # <<>>
    BY <1>6 DEF RecvFin, TypeOK
  <2>2. Tail(net[c]) \in Seq(Items)
    BY <2>1, HeadTailProperties
  <2>3. net' \in [Conns -> Seq(Items)]
    BY <1>6, <2>2 DEF RecvFin, TypeOK
  <2> QED
    BY <1>6, <2>3, CloseType DEF RecvFin, TypeOK
<1> QED
  BY <1>1, <1>2, <1>3, <1>4, <1>5, <1>6 DEF Deliver

\* lwIP is done with a connection.
LEMMA GoneType ==
    ASSUME TypeOK, NEW c \in Conns, Gone(c)
    PROVE  /\ pcb' \in [Conns -> {"free", "active", "closing"}]
           /\ hooks' \in [Conns -> BOOLEAN]
           /\ net' \in [Conns -> Seq(Items)]
           /\ tab' \in [Conns -> {"none", "connected", "loading", "loaded", "upgrading",
                                  "open", "leaving", "left"}]
           /\ down' \in [Conns -> SUBSET Parts]
<1>1. <<>> \in Seq(Items)
  OBVIOUS
<1> QED
  BY <1>1 DEF TypeOK, Gone, Items, Parts

LEMMA ServerType == ASSUME TypeOK, Server PROVE TypeOK'
<1> USE DEF Items, Client
<1>1. CASE AcceptFails
  BY <1>1 DEF AcceptFails, TypeOK
<1>2. CASE MainEnds
  BY <1>2 DEF MainEnds, TypeOK
<1>3. CASE Event
  <2>1. down' \in [Conns -> SUBSET Parts]
    <3>1. slot \in Conns /\ down \in [Conns -> SUBSET Parts]
      BY <1>3 DEF Event, TypeOK, Parts
    <3>2. down[slot] \cup {"event"} \in SUBSET Parts
      BY <3>1 DEF Parts
    <3>3. down' = down \/ down' = [down EXCEPT ![slot] = down[slot] \cup {"event"}]
      BY <1>3 DEF Event
    <3> QED
      BY <3>1, <3>2, <3>3
  <2>2. running' \in {"up", "ended", "crashed"}
    BY <1>3 DEF Event, TypeOK
  <2> QED
    BY <1>3, <2>1, <2>2 DEF Event, TypeOK, Parts
<1>4. CASE PowerCycle
  <2>1. 0 \in 0..NumPbufs /\ <<>> \in Seq(Items)
    BY PoolsAssumption
  <2> QED
    BY <1>4, <2>1, ClientTypes DEF PowerCycle, TypeOK, Parts
<1>5. CASE \E c \in Conns : Accept(c) \/ AcceptRefused(c) \/ Deliver(c) \/ Closed(c) \/ Reset(c) \/ TimedOut(c)
  <2>1. PICK c \in Conns : Accept(c) \/ AcceptRefused(c) \/ Deliver(c) \/ Closed(c) \/ Reset(c) \/ TimedOut(c)
    BY <1>5
  <2>2. CASE Accept(c)
    BY <2>2, ClientTypes DEF Accept, Established, TypeOK
  <2>3. CASE AcceptRefused(c)
    BY <2>3 DEF AcceptRefused, Established, TypeOK
  <2>4. CASE Deliver(c)
    BY <2>4, DeliverType
  <2>5. CASE Closed(c)
    BY <2>5, GoneType DEF Closed, TypeOK, Parts
  <2>6. CASE Reset(c)
    <3>1. client' \in [Conns -> Client]
      BY <2>6, ZenonT(30) DEF Reset, TypeOK
    <3> QED
      BY <2>6, <3>1, GoneType DEF Reset, TypeOK, Parts
  <2>7. CASE TimedOut(c)
    BY <2>7, GoneType DEF TimedOut, TypeOK, Parts
  <2> QED
    BY <2>1, <2>2, <2>3, <2>4, <2>5, <2>6, <2>7
<1> QED
  BY <1>1, <1>2, <1>3, <1>4, <1>5 DEF Server

\* What a browser sends or reads leaves the server as it is.
LEMMA BrowserType ==
    ASSUME TypeOK, NEW c \in Conns, Browser(c)
    PROVE  TypeOK' /\ UNCHANGED server
<1> DEFINE Tabs == {"none", "connected", "loading", "loaded", "upgrading", "open", "leaving", "left"}
<1>1. ASSUME NEW item \in Items, NEW before, NEW after \in Tabs, Send(c, item, before, after)
      PROVE  TypeOK' /\ UNCHANGED server
  <2>0. net[c] \in Seq(Items)
    BY DEF TypeOK, Items
  <2>1. Append(net[c], item) \in Seq(Items)
    BY <2>0
  <2>2. net' \in [Conns -> Seq(Items)] /\ tab' \in [Conns -> Tabs] /\ UNCHANGED <<server, down>>
    BY <1>1, <2>1 DEF TypeOK, Send, Items
  <2> QED
    BY <2>2 DEF TypeOK, server, Items
<1>2. CASE AskPage(c) \/ AskUpgrade(c) \/ SendFrame(c) \/ SendClose(c) \/ SendFin(c)
  BY <1>1, <1>2 DEF AskPage, AskUpgrade, SendFrame, SendClose, SendFin, Items
<1>3. CASE Read(c)
  <2>1. /\ down' \in [Conns -> SUBSET Parts]
        /\ tab' \in [Conns -> Tabs] /\ UNCHANGED <<server, net>>
    BY <1>3 DEF TypeOK, Read, Parts
  <2> QED
    BY <2>1 DEF TypeOK, server, Parts
<1> QED
  BY <1>2, <1>3 DEF Browser

LEMMA NextType == TypeOK /\ [Next]_vars => TypeOK'
<1> SUFFICES ASSUME TypeOK, [Next]_vars PROVE TypeOK'
  OBVIOUS
<1>1. CASE Server
  BY <1>1, ServerType
<1>2. CASE \E c \in Conns : Browser(c)
  BY <1>2, BrowserType
<1>3. CASE UNCHANGED vars
  BY <1>3 DEF vars, server, TypeOK
<1> QED
  BY <1>1, <1>2, <1>3 DEF Next

\* Every reachable state is type-correct; in particular no more buffers leak than the
\* pool has (tcpserver.c:190, websockets.c:164, 296).
THEOREM SessionsTypeCorrect == Spec => []TypeOK
<1> QED
  BY InitType, NextType, PTL DEF Spec

-----------------------------------------------------------------------------
(* Clients *)

SessionsInv == TypeOK /\ TableAlive /\ CallbackAlive

\* A client that is closed is out of the table, and nothing calls back with it.
LEMMA CloseAlive ==
    ASSUME SessionsInv, NEW c \in Conns, ClientClose(c)
    PROVE  TableAlive' /\ CallbackAlive'
<1>1. /\ client' = [client EXCEPT ![c] = NoClient]
      /\ slot' # Nil => slot' = slot /\ slot # c
  BY DEF ClientClose, SlotAfterClose
<1>2. ~hooks'[c] /\ \A d \in Conns \ {c} : pcb'[d] = pcb[d] /\ hooks'[d] = hooks[d]
  BY DEF ClientClose, SessionsInv, TypeOK
<1>3. TableAlive'
  BY <1>1 DEF SessionsInv, TypeOK, TableAlive
<1>4. CallbackAlive'
  BY <1>1, <1>2 DEF SessionsInv, TypeOK, CallbackAlive
<1> QED
  BY <1>3, <1>4

\* A connection lwIP has done with calls back no more; its client stays what it was.
LEMMA GoneAlive ==
    ASSUME SessionsInv, NEW c \in Conns, Gone(c), slot' = slot,
           \A d \in Conns : client'[d].alive = client[d].alive
    PROVE  TableAlive' /\ CallbackAlive'
<1>1. ~hooks'[c] /\ \A d \in Conns \ {c} : pcb'[d] = pcb[d] /\ hooks'[d] = hooks[d]
  BY DEF Gone, SessionsInv, TypeOK
<1> QED
  BY <1>1 DEF SessionsInv, TypeOK, TableAlive, CallbackAlive

LEMMA UntouchedAlive ==
    ASSUME SessionsInv, UNCHANGED <<slot, client, pcb, hooks>>
    PROVE  TableAlive' /\ CallbackAlive'
BY DEF SessionsInv, TableAlive, CallbackAlive

LEMMA DeliverAlive ==
    ASSUME SessionsInv, NEW c \in Conns, Deliver(c)
    PROVE  TableAlive' /\ CallbackAlive'
<1>1. CASE RecvPage(c) \/ RecvPageFails(c) \/ RecvFrame(c)
  BY <1>1, UntouchedAlive DEF RecvPage, RecvPageFails, RecvFrame
<1>2. CASE RecvUpgrade(c)
  <2>1. client' = [client EXCEPT ![c].upgraded = TRUE] /\ UNCHANGED <<slot, pcb, hooks>>
    BY <1>2 DEF RecvUpgrade
  <2>2. \A d \in Conns : client'[d].alive = client[d].alive
    BY <2>1 DEF SessionsInv, TypeOK
  <2> QED
    BY <2>1, <2>2 DEF SessionsInv, TypeOK, TableAlive, CallbackAlive
<1>3. CASE RecvNoKey(c) \/ RecvClose(c) \/ RecvFin(c)
  BY <1>3, CloseAlive DEF RecvNoKey, RecvClose, RecvFin
<1> QED
  BY <1>1, <1>2, <1>3 DEF Deliver

LEMMA ServerAlive ==
    ASSUME SessionsInv, Server
    PROVE  TableAlive' /\ CallbackAlive'
<1>1. CASE AcceptFails \/ MainEnds \/ Event
  BY <1>1, UntouchedAlive DEF AcceptFails, MainEnds, Event
<1>2. CASE PowerCycle
  BY <1>2 DEF PowerCycle, TableAlive, CallbackAlive
<1>3. ASSUME NEW c \in Conns, Accept(c) PROVE TableAlive' /\ CallbackAlive'
  <2>1. /\ slot' = c /\ client'[c].alive /\ pcb'[c] = "active"
        /\ \A d \in Conns \ {c} :
               client'[d] = client[d] /\ pcb'[d] = pcb[d] /\ hooks'[d] = hooks[d]
    BY <1>3 DEF Accept, NewClient, SessionsInv, TypeOK
  <2> QED
    BY <2>1 DEF SessionsInv, TableAlive, CallbackAlive
<1>4. ASSUME NEW c \in Conns, AcceptRefused(c) PROVE TableAlive' /\ CallbackAlive'
  <2>1. ~hooks[c]
    BY <1>4 DEF AcceptRefused, Established, SessionsInv, CallbackAlive
  <2>2. /\ UNCHANGED <<slot, client, hooks>>
        /\ \A d \in Conns \ {c} : pcb'[d] = pcb[d]
    BY <1>4 DEF AcceptRefused, SessionsInv, TypeOK
  <2> QED
    BY <2>1, <2>2 DEF SessionsInv, TableAlive, CallbackAlive
<1>5. ASSUME NEW c \in Conns, Closed(c) \/ TimedOut(c) PROVE TableAlive' /\ CallbackAlive'
  BY <1>5, GoneAlive DEF Closed, TimedOut
<1>6. ASSUME NEW c \in Conns, Reset(c) PROVE TableAlive' /\ CallbackAlive'
  <2>1. \A d \in Conns : client'[d].alive = client[d].alive
    BY <1>6, ZenonT(30) DEF Reset, SessionsInv, TypeOK
  <2> QED
    BY <1>6, <2>1, GoneAlive DEF Reset
<1> QED
  BY <1>1, <1>2, <1>3, <1>4, <1>5, <1>6, DeliverAlive DEF Server

LEMMA InitInv == Init => SessionsInv
BY InitType DEF Init, SessionsInv, TableAlive, CallbackAlive

LEMMA NextInv == SessionsInv /\ [Next]_vars => SessionsInv'
<1> SUFFICES ASSUME SessionsInv, [Next]_vars PROVE SessionsInv'
  OBVIOUS
<1>1. TypeOK'
  BY NextType DEF SessionsInv
<1>2. TableAlive' /\ CallbackAlive'
  <2>1. CASE Server
    BY <2>1, ServerAlive
  <2>2. CASE \E c \in Conns : Browser(c)
    BY <2>2, BrowserType, UntouchedAlive DEF SessionsInv, server
  <2>3. CASE UNCHANGED vars
    BY <2>3, UntouchedAlive DEF vars, server
  <2> QED
    BY <2>1, <2>2, <2>3 DEF Next
<1> QED
  BY <1>1, <1>2 DEF SessionsInv

\* The main loop never reads a freed client, though a newer client takes the place of an
\* older one and either may end first (tcpserver.c:39-69, 227, main.c:83-110).
THEOREM TableStaysAlive == Spec => []TableAlive
<1>1. SessionsInv => TableAlive
  BY DEF SessionsInv
<1> QED
  BY <1>1, InitInv, NextInv, PTL DEF Spec

\* Whatever lwIP may still call back with has its client, also when closing fails and
\* the connection is aborted, and when there is no memory for a client
\* (tcpserver.c:39-69, 139-239).
THEOREM CallbackStaysAlive == Spec => []CallbackAlive
<1>1. SessionsInv => CallbackAlive
  BY DEF SessionsInv
<1> QED
  BY <1>1, InitInv, NextInv, PTL DEF Spec
=============================================================================

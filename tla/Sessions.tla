------------------------------ MODULE Sessions ------------------------------
(***************************************************************************)
(* The TCP server and its sessions (tcpserver.c, websockets.c): browsers   *)
(* connect, load the page or upgrade to a WebSocket, send frames, close,   *)
(* reset or vanish; the main loop sends events to the clients of its table.*)
(* lwIP calls back on core 0, one callback at a time.  Of lwIP the module  *)
(* has the two pools the handlers use up, connections (PCBs) and buffers.  *)
(***************************************************************************)
EXTENDS Integers, Sequences, FiniteSets

CONSTANTS
    Conns,      \* connections of browsers, used over and over
    NumPcbs,    \* MEMP_NUM_TCP_PCB
    NumPbufs,   \* PBUF_POOL_SIZE
    MaxNet,     \* bound: requests and frames of a connection on their way
    Abrupt,     \* ends of connections without a FIN: "reset", "timeout"
    Coalesced,  \* may TCP join two frames in one segment
    Nil

ASSUME ConnsAssumption == IsFiniteSet(Conns) /\ Nil \notin Conns
ASSUME PoolsAssumption == NumPcbs \in Nat \ {0} /\ NumPbufs \in Nat \ {0} /\ MaxNet \in Nat
ASSUME NetworkAssumption == Abrupt \subseteq {"reset", "timeout"} /\ Coalesced \in BOOLEAN

VARIABLES
    running,    \* "up", "ended" (main returned), "crashed" (undefined behaviour)
    complete,   \* tcpserver.complete
    listening,  \* tcpserver.server_pcb is open
    slot,       \* tcpserver.clients[0]; nothing ever fills the other nine
    client,     \* connection -> its tcpclient
    pcb,        \* connection -> "free", "active", "closing" in lwIP
    hooks,      \* connection -> lwIP has its callbacks and their argument
    leaked,     \* buffers of the pool that were never freed
    net,        \* connection -> what the browser sent, in order
    tab,        \* connection -> what the browser is doing with it
    down        \* connection -> kinds of data written and not read yet

server == <<running, complete, listening, slot, client, pcb, hooks, leaked>>
vars == <<server, net, tab, down>>

NoClient == [alive |-> FALSE, upgraded |-> FALSE, pcb |-> FALSE]

Init ==
    /\ running = "up" /\ complete = FALSE /\ listening = TRUE
    /\ slot = Nil
    /\ client = [c \in Conns |-> NoClient]
    /\ pcb = [c \in Conns |-> "free"]
    /\ hooks = [c \in Conns |-> FALSE]
    /\ leaked = 0
    /\ net = [c \in Conns |-> <<>>]
    /\ tab = [c \in Conns |-> "none"]
    /\ down = [c \in Conns |-> {}]

-----------------------------------------------------------------------------
(* tcpserver.c *)

PcbsUsed == Cardinality({c \in Conns : pcb[c] # "free"})

NewClient == [alive |-> TRUE, upgraded |-> FALSE, pcb |-> TRUE]

\* A connection lwIP has set up for tcp_server_accept().
Established(c) ==
    /\ running = "up" /\ listening /\ leaked < NumPbufs
    /\ pcb[c] = "free" /\ tab[c] = "none" /\ PcbsUsed < NumPcbs
    /\ tab' = [tab EXCEPT ![c] = "connected"]

\* tcp_server_accept(): the newest client takes the first place of the table.
Accept(c) ==
    /\ Established(c)
    /\ pcb' = [pcb EXCEPT ![c] = "active"]
    /\ hooks' = [hooks EXCEPT ![c] = TRUE]
    /\ client' = [client EXCEPT ![c] = NewClient]
    /\ slot' = c
    /\ UNCHANGED <<running, complete, listening, leaked, net, down>>

\* There is no memory for another client: the connection is closed, and then
\* aborted by lwIP, which gets ERR_MEM.
AcceptRefused(c) ==
    /\ Established(c)
    /\ \E s \in {"closing", "free"} : pcb' = [pcb EXCEPT ![c] = s]
    /\ UNCHANGED <<running, complete, listening, slot, client, hooks, leaked, net, down>>

\* One browser more finds no PCB left, and lwIP says so to tcp_server_accept():
\* tcp_server_result() sets complete and closes the server.
AcceptFails ==
    /\ running = "up" /\ listening /\ leaked < NumPbufs
    /\ PcbsUsed = NumPcbs
    /\ complete' = TRUE /\ listening' = FALSE
    /\ UNCHANGED <<running, slot, client, pcb, hooks, leaked, net, tab, down>>

\* The end of main(): its loop has seen complete.
MainEnds ==
    /\ running = "up" /\ complete
    /\ running' = "ended" /\ listening' = FALSE
    /\ UNCHANGED <<complete, slot, client, pcb, hooks, leaked, net, tab, down>>

\* Mutant: the table keeps the client that is freed.
SlotAfterClose_Kept(c) == slot
SlotAfterClose(c) == IF slot = c THEN Nil ELSE slot

\* Mutant: the client is freed and its connection left open.
ClosedPcb_Open == {"active"}

\* tcp_close(), or tcp_abort() when that fails.
ClosedPcb == {"closing", "free"}

\* Mutant: lwIP keeps the callbacks of the client that is freed.
ClientClose_Hooked(c) ==
    /\ slot' = SlotAfterClose(c)
    /\ client' = [client EXCEPT ![c] = NoClient]
    /\ UNCHANGED hooks
    /\ \E s \in ClosedPcb : pcb' = [pcb EXCEPT ![c] = s]

\* tcp_client_close()
ClientClose(c) ==
    /\ slot' = SlotAfterClose(c)
    /\ client' = [client EXCEPT ![c] = NoClient]
    /\ hooks' = [hooks EXCEPT ![c] = FALSE]
    /\ \E s \in ClosedPcb : pcb' = [pcb EXCEPT ![c] = s]

-----------------------------------------------------------------------------
(* tcp_server_recv(): a callback takes one segment, and of a WebSocket only *)
(* the first frame in it.                                                   *)

Taken == IF Coalesced THEN {1, 2} ELSE {1}

Recv(c, kinds) ==
    /\ running = "up" /\ hooks[c]
    /\ net[c] # <<>> /\ Head(net[c]) \in kinds
    /\ leaked < NumPbufs
    /\ \E n \in Taken :
        /\ n <= Len(net[c])
        /\ n = 2 => net[c][2] # "fin"
        /\ net' = [net EXCEPT ![c] = SubSeq(@, n + 1, Len(@))]
    /\ UNCHANGED <<running, complete, listening>>

\* Mutant: the buffer is given back twice.
Leak_Negative(n) == n - 1
Leak(n) == n + 1

\* The page; its buffer is not freed.
RecvPage(c) ==
    /\ Recv(c, {"page"}) /\ ~client[c].upgraded
    /\ down' = [down EXCEPT ![c] = @ \cup {"page"}]
    /\ leaked' = Leak(leaked)
    /\ UNCHANGED <<slot, client, pcb, hooks, tab>>

\* lwIP has no memory for the header, or for the page behind it: ERR_ABRT, with the
\* connection left open and the buffer not freed.
RecvPageFails(c) ==
    /\ Recv(c, {"page"}) /\ ~client[c].upgraded
    /\ \E written \in {{}, {"header"}} : down' = [down EXCEPT ![c] = @ \cup written]
    /\ leaked' = Leak(leaked)
    /\ UNCHANGED <<slot, client, pcb, hooks, tab>>

\* handle_websocket_req(): what tcp_write() returns is not looked at.
RecvUpgrade(c) ==
    /\ Recv(c, {"upgrade"}) /\ ~client[c].upgraded
    /\ client' = [client EXCEPT ![c].upgraded = TRUE]
    /\ \E written \in SUBSET {"handshake", "config"} :
        down' = [down EXCEPT ![c] = @ \cup written]
    /\ UNCHANGED <<slot, pcb, hooks, leaked, tab>>

\* The same without a key: the client is closed, the buffer is not freed.
RecvNoKey(c) ==
    /\ Recv(c, {"upgrade without key"}) /\ ~client[c].upgraded
    /\ ClientClose(c)
    /\ leaked' = Leak(leaked)
    /\ UNCHANGED <<tab, down>>

\* handle_websocket_msg(): text, binary and ping frames.
RecvFrame(c) ==
    /\ Recv(c, {"frame"}) /\ client[c].upgraded
    /\ UNCHANGED <<slot, client, pcb, hooks, leaked, tab, down>>

\* Close frame: returns before the buffer is freed.
RecvClose(c) ==
    /\ Recv(c, {"close"}) /\ client[c].upgraded
    /\ ClientClose(c)
    /\ leaked' = Leak(leaked)
    /\ UNCHANGED <<tab, down>>

\* The browser's FIN: the callback gets no buffer.
RecvFin(c) ==
    /\ running = "up" /\ hooks[c]
    /\ net[c] # <<>> /\ Head(net[c]) = "fin"
    /\ leaked < NumPbufs
    /\ net' = [net EXCEPT ![c] = Tail(@)]
    /\ ClientClose(c)
    /\ UNCHANGED <<running, complete, listening, leaked, tab, down>>

Deliver(c) ==
    \/ RecvPage(c) \/ RecvPageFails(c) \/ RecvUpgrade(c) \/ RecvNoKey(c)
    \/ RecvFrame(c) \/ RecvClose(c) \/ RecvFin(c)

\* lwIP is done with a connection the server closed.
Gone(c) ==
    /\ pcb' = [pcb EXCEPT ![c] = "free"]
    /\ hooks' = [hooks EXCEPT ![c] = FALSE]
    /\ net' = [net EXCEPT ![c] = <<>>]
    /\ tab' = [tab EXCEPT ![c] = "none"]
    /\ down' = [down EXCEPT ![c] = {}]

Closed(c) ==
    /\ pcb[c] # "active" /\ tab[c] # "none"
    /\ Gone(c)
    /\ UNCHANGED <<running, complete, listening, slot, client, leaked>>

\* The browser resets the connection.  tcp_server_err() takes the client for
\* the server: it writes complete behind the client and closes a connection
\* that lwIP has freed already.
Reset(c) ==
    /\ "reset" \in Abrupt
    /\ running = "up" /\ hooks[c] /\ leaked < NumPbufs
    /\ Gone(c)
    /\ running' \in {"up", "crashed"}
    /\ client' = [client EXCEPT ![c].pcb = FALSE]
    /\ UNCHANGED <<complete, listening, slot, leaked>>

\* The browser has vanished and lwIP gives up (ERR_ABRT): tcp_server_err() does nothing.
TimedOut(c) ==
    /\ "timeout" \in Abrupt
    /\ running = "up" /\ hooks[c]
    /\ Gone(c)
    /\ UNCHANGED <<running, complete, listening, slot, client, leaked>>

\* main(): an event of core 1 goes to the upgraded clients of the table.
Event ==
    /\ running = "up"
    /\ slot # Nil /\ client[slot].upgraded
    /\ IF pcb[slot] = "active"
         THEN /\ down' \in {down, [down EXCEPT ![slot] = @ \cup {"event"}]}
              /\ UNCHANGED running
         ELSE /\ running' \in {"up", "crashed"}
              /\ UNCHANGED down
    /\ UNCHANGED <<complete, listening, slot, client, pcb, hooks, leaked, net, tab>>

\* The user starts a controller again that has stopped or no longer answers.
PowerCycle ==
    /\ running # "up" \/ leaked = NumPbufs
    /\ running' = "up" /\ complete' = FALSE /\ listening' = TRUE
    /\ slot' = Nil
    /\ client' = [c \in Conns |-> NoClient]
    /\ pcb' = [c \in Conns |-> "free"]
    /\ hooks' = [c \in Conns |-> FALSE]
    /\ leaked' = 0
    /\ net' = [c \in Conns |-> <<>>]
    /\ tab' = [c \in Conns |-> "none"]
    /\ down' = [c \in Conns |-> {}]

-----------------------------------------------------------------------------
(* Browsers *)

Send(c, item, before, after) ==
    /\ tab[c] = before /\ pcb[c] = "active"
    /\ Len(net[c]) < MaxNet
    /\ net' = [net EXCEPT ![c] = Append(@, item)]
    /\ tab' = [tab EXCEPT ![c] = after]
    /\ UNCHANGED <<server, down>>

AskPage(c) == Send(c, "page", "connected", "loading")
AskUpgrade(c) ==
    \E item \in {"upgrade", "upgrade without key"} : Send(c, item, "connected", "upgrading")
SendFrame(c) == Send(c, "frame", "open", "open")
SendClose(c) == Send(c, "close", "open", "leaving")
SendFin(c) == \E before \in {"connected", "loading", "loaded", "upgrading", "open", "leaving"} :
    Send(c, "fin", before, "left")

\* What a browser waits for: all of the page, or the answer to its upgrade.
Awaited(c) == IF tab[c] = "loading" THEN "page" ELSE "handshake"

Read(c) ==
    /\ down[c] # {}
    /\ down' = [down EXCEPT ![c] = {}]
    /\ tab' = [tab EXCEPT ![c] = IF Awaited(c) \notin down[c] THEN @
                                ELSE IF @ = "upgrading" THEN "open"
                                ELSE IF @ = "loading" THEN "loaded" ELSE @]
    /\ UNCHANGED <<server, net>>

Browser(c) ==
    AskPage(c) \/ AskUpgrade(c) \/ SendFrame(c) \/ SendClose(c) \/ SendFin(c) \/ Read(c)

-----------------------------------------------------------------------------
Server ==
    \/ AcceptFails \/ MainEnds \/ Event \/ PowerCycle
    \/ \E c \in Conns : Accept(c) \/ AcceptRefused(c) \/ Deliver(c) \/ Closed(c) \/ Reset(c) \/ TimedOut(c)

Next == Server \/ \E c \in Conns : Browser(c)

Spec == Init /\ [][Next]_vars

\* main() polls the network driver in every turn of its loop.
LiveSpec == Spec /\ \A c \in Conns : WF_vars(Deliver(c)) /\ WF_vars(Closed(c))

-----------------------------------------------------------------------------
(* Properties *)

TypeOK ==
    /\ running \in {"up", "ended", "crashed"}
    /\ complete \in BOOLEAN /\ listening \in BOOLEAN
    /\ slot \in Conns \cup {Nil}
    /\ client \in [Conns -> [alive : BOOLEAN, upgraded : BOOLEAN, pcb : BOOLEAN]]
    /\ pcb \in [Conns -> {"free", "active", "closing"}]
    /\ hooks \in [Conns -> BOOLEAN]
    /\ leaked \in 0..NumPbufs
    /\ net \in [Conns -> Seq({"page", "upgrade", "upgrade without key", "frame", "close", "fin"})]
    /\ tab \in [Conns -> {"none", "connected", "loading", "loaded", "upgrading",
                        "open", "leaving", "left"}]
    /\ down \in [Conns -> SUBSET {"header", "page", "handshake", "config", "event"}]

\* The table never holds a client that has been freed, however connections
\* overlap and end: the main loop reads clients[0] on every event.
TableAlive == slot # Nil => client[slot].alive

\* Whatever lwIP calls back with has its client, and nothing else: it hands the
\* pointer to tcp_server_recv(), which reads it, or to tcp_server_err(), as long as
\* the connection has its callbacks, also when closing it fails (tcpserver.c:50-65).
CallbackAlive == \A c \in Conns : hooks[c] => client[c].alive /\ pcb[c] = "active"

\* A connection that the browser ends is ended by the controller, whatever it has
\* been used for, written or not, unless the controller stops or every buffer has leaked.
Ended ==
    \A c \in Conns : tab[c] = "left" ~>
        pcb[c] # "active" \/ running # "up" \/ leaked = NumPbufs
=============================================================================

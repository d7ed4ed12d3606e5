------------------------------ MODULE Settings ------------------------------
(***************************************************************************)
(* How the settings travel: the two flash regions (configuration, secrets) *)
(* the controller boots from, the packets that change them, and the        *)
(* browser pages that show, edit and save them.  Power may be cut between  *)
(* any two steps, also between the erasing of a region and its programming.*)
(*                                                                         *)
(* A message is a record: its key (message type and field number), element *)
(* id and value; ConfigElements has it byte by byte.  A region is Blank    *)
(* (its header is not 0x0A) or the sequence of its messages.               *)
(***************************************************************************)
EXTENDS Integers, Sequences

CONSTANTS
    Browsers,      \* pages that are open somewhere
    DeviceFields,  \* messages 0xB0 and 0xB1 of the default configuration
    DefaultName,   \* values build_config() and build_secrets() store
    DefaultSsid,
    DefaultPass,
    Elements,      \* what the elements of a freshly loaded page marshal to
    Edits,         \* edits a user makes: key and new value
    WiFi,          \* networks in range: <<ssid, password>>
    Station,       \* network options with bit 0 set, and without it
    AccessPoint,
    MaxRetries,    \* MAX_RETRIES: attempts to join after the first one
    MaxUp,         \* bound: packets of a page on their way
    MaxMessages,   \* bound: messages in an image
    Blank, Missing

Message(key, id, val) == [key |-> key, id |-> id, val |-> val]

DefaultConfig == DeviceFields \o <<Message("options", 0, Station),
    Message("name", 0, DefaultName), Message("ssid", 0, DefaultSsid)>>
DefaultSecrets == <<Message("password", 0, DefaultPass)>>

Regions == {"config", "secrets"}
SetupKeys == {"options", "name", "ssid", "password"}

\* What an image may consist of.
Values == {DefaultName, DefaultSsid, DefaultPass, Station, AccessPoint}
            \cup {e.val : e \in Edits}
            \cup {DeviceFields[i].val : i \in DOMAIN DeviceFields}
            \cup {Elements[i].val : i \in DOMAIN Elements}
Keys == SetupKeys \cup {DeviceFields[i].key : i \in DOMAIN DeviceFields}
                  \cup {Elements[i].key : i \in DOMAIN Elements}
Messages == [key : Keys, id : Nat, val : Values]
Images == Seq(Messages)

ASSUME EditsAssumption == Edits \subseteq [key : SetupKeys, val : {e.val : e \in Edits}]
ASSUME BoundsAssumption == {MaxRetries, MaxUp, MaxMessages} \subseteq Nat
ASSUME ValuesAssumption ==
    /\ Missing \notin {DefaultName, DefaultSsid, DefaultPass, Station, AccessPoint}
    /\ \A e \in Edits : e.val # Missing
    /\ \A i \in DOMAIN DeviceFields : DeviceFields[i].key \notin SetupKeys
    /\ \A i \in DOMAIN Elements : Elements[i].key \notin SetupKeys
ASSUME ImagesAssumption ==
    /\ DeviceFields \in Images /\ Elements \in Images
    /\ Blank \notin Images /\ Missing \notin Images

VARIABLES
    flash,   \* region -> Blank or its messages
    writes,  \* flash operations of the function that is running
    mode,    \* "off", "boot", "join", "serving", "halted"
    setup,   \* network_setup of this boot: key -> value
    retries, \* further attempts to join made
    sock,    \* page -> "closed", "connecting", "open"
    gfig,    \* page -> configuration received, or Missing
    up,      \* page -> packets on their way to the controller
    down     \* page -> packets on their way to the page

pages == <<sock, gfig, up, down>>
vars == <<flash, writes, mode, setup, retries, pages>>

Init ==
    /\ flash = [r \in Regions |-> Blank]
    /\ writes = <<>>
    /\ mode = "off"
    /\ setup = [k \in SetupKeys |-> Missing]
    /\ retries = 0
    /\ sock = [b \in Browsers |-> "closed"]
    /\ gfig = [b \in Browsers |-> Missing]
    /\ up = [b \in Browsers |-> <<>>]
    /\ down = [b \in Browsers |-> <<>>]

-----------------------------------------------------------------------------
(* Flash *)

\* Mutant: the region is programmed before it is erased.
Write_Swapped(region, msgs) ==
    <<[region |-> region, msgs |-> msgs], [region |-> region, msgs |-> Blank]>>

\* write_config() and write_secrets(): the region is erased, then programmed.
Write(region, msgs) ==
    <<[region |-> region, msgs |-> Blank], [region |-> region, msgs |-> msgs]>>

FlashStep ==
    /\ writes # <<>> /\ mode # "off"
    /\ flash' = [flash EXCEPT ![Head(writes).region] = Head(writes).msgs]
    /\ writes' = Tail(writes)
    /\ UNCHANGED <<mode, setup, retries, pages>>

\* The message an update replaces: the first one of the same type, id and field.
Hits(msgs, new) == {i \in DOMAIN msgs : msgs[i].key = new.key /\ msgs[i].id = new.id}
FirstHit(msgs, new) == CHOOSE i \in Hits(msgs, new) : \A j \in Hits(msgs, new) : i <= j

\* Mutant: the old message is copied behind the new one.
Updated_Inserted(msgs, new) ==
    LET i == FirstHit(msgs, new)
    IN  SubSeq(msgs, 1, i - 1) \o <<new>> \o SubSeq(msgs, i, Len(msgs))

Updated(msgs, new) == [msgs EXCEPT ![FirstHit(msgs, new)] = new]

\* Mutant: update_secrets() programs the offset of the other region.
ProgramRegion_Config(kind) == "config"
ProgramRegion(kind) == IF kind = "update_secrets" THEN "secrets" ELSE "config"

ReadRegion(kind) == IF kind = "update_secrets" THEN "secrets" ELSE "config"

UpdateWrites(kind, new) ==
    LET msgs == flash[ReadRegion(kind)]
    IN  IF Hits(msgs, new) = {} THEN <<>>
        ELSE Write(ProgramRegion(kind), Updated(msgs, new))

-----------------------------------------------------------------------------
(* Booting *)

\* retrieve_networking_config() tests the header of the configuration only.
PowerOn ==
    /\ mode = "off"
    /\ mode' = "boot"
    /\ writes' = IF flash["config"] = Blank
                   THEN Write("config", DefaultConfig) \o Write("secrets", DefaultSecrets)
                   ELSE <<>>
    /\ UNCHANGED <<flash, setup, retries, pages>>

ValuesIn(msgs, key) == {i \in DOMAIN msgs : msgs[i].key = key /\ msgs[i].id = 0}

\* unmarshal_network_config(): the last message of a field wins; a field that
\* is not stored keeps what it was.
Unmarshalled(s, msgs) ==
    [k \in SetupKeys |->
        IF ValuesIn(msgs, k) = {} THEN s[k]
        ELSE msgs[CHOOSE i \in ValuesIn(msgs, k) :
                    \A j \in ValuesIn(msgs, k) : j <= i].val]

\* Mutant: the secrets are not unmarshalled.
Loaded_NoSecrets == Unmarshalled(setup, flash["config"])
Loaded == Unmarshalled(Unmarshalled(setup, flash["config"]), flash["secrets"])

\* create_network(): blank secrets have the length 0xFFFF in their header, and
\* copying as much over a stack buffer of 256 bytes runs past the end of the
\* memory: the controller stops there.
Unmarshal ==
    /\ mode = "boot" /\ writes = <<>>
    /\ IF flash["secrets"] = Blank
         THEN mode' = "halted" /\ UNCHANGED setup
         ELSE /\ setup' = Loaded
              /\ mode' = IF Loaded["options"] = AccessPoint THEN "serving" ELSE "join"
    /\ UNCHANGED <<flash, writes, retries, pages>>

\* Mutant: the count of attempts is one too high.
MayRetry_OnceMore(n) == n <= MaxRetries
MayRetry(n) == n < MaxRetries
Retried(n) == n + 1

\* Mutant: the count starts over with the last attempt.
JoinFails_Endless ==
    /\ mode = "join"
    /\ retries' = IF MayRetry(retries) THEN Retried(retries) ELSE 0
    /\ UNCHANGED <<flash, writes, mode, setup, pages>>

\* connect_to_wifi(): an attempt times out or is refused; main() ends with the last.
JoinFails ==
    /\ mode = "join"
    /\ IF MayRetry(retries)
         THEN retries' = Retried(retries) /\ UNCHANGED mode
         ELSE mode' = "halted" /\ UNCHANGED retries
    /\ UNCHANGED <<flash, writes, setup, pages>>

\* ... or succeeds, with an address or without one.
JoinSucceeds ==
    /\ mode = "join"
    /\ <<setup["ssid"], setup["password"]>> \in WiFi
    /\ mode' \in {"serving", "halted"}
    /\ UNCHANGED <<flash, writes, setup, retries, pages>>

\* Power is lost; so is everything that is not in flash.  A page may notice
\* later that its connection is gone; what it sends till then is lost, too.
PowerCut ==
    /\ mode # "off"
    /\ mode' = "off"
    /\ writes' = <<>>
    /\ setup' = [k \in SetupKeys |-> Missing]
    /\ retries' = 0
    /\ sock' = [b \in Browsers |-> "closed"]
    /\ up' = [b \in Browsers |-> <<>>]
    /\ down' = [b \in Browsers |-> <<>>]
    /\ UNCHANGED <<flash, gfig>>

-----------------------------------------------------------------------------
(* Packets; callbacks run one after the other *)

Packet(kind, msgs) == [kind |-> kind, msgs |-> msgs]

Receiving(b) ==
    /\ mode = "serving" /\ writes = <<>>
    /\ up[b] # <<>>
    /\ up' = [up EXCEPT ![b] = Tail(@)]
    /\ UNCHANGED <<flash, mode, setup, retries, sock, gfig>>

\* handle_websocket_req(): the answer to the upgrade, then the stored image.
Upgrade(b) ==
    /\ Receiving(b)
    /\ Head(up[b]).kind = "upgrade"
    /\ down' = [down EXCEPT ![b] = @ \o <<Packet("upgraded", <<>>),
                                          Packet("config", flash["config"])>>]
    /\ UNCHANGED writes

\* Packet 0x0A: apply_config().
ApplyConfig(b) ==
    /\ Receiving(b)
    /\ Head(up[b]).kind = "save"
    /\ writes' = Write("config", Head(up[b]).msgs)
    /\ UNCHANGED down

\* Packets 0x0B and 0x0C: update_config() and update_secrets().
UpdateField(b) ==
    /\ Receiving(b)
    /\ Head(up[b]).kind \in {"update_config", "update_secrets"}
    /\ writes' = UpdateWrites(Head(up[b]).kind, Head(up[b]).msgs[1])
    /\ UNCHANGED down

-----------------------------------------------------------------------------
(* Pages *)

device == <<flash, writes, mode, setup, retries>>

\* connectWebSocket(); an attempt while nobody serves fails and leaves no trace.
Connect(b) ==
    /\ sock[b] = "closed" /\ mode = "serving"
    /\ Len(up[b]) < MaxUp
    /\ sock' = [sock EXCEPT ![b] = "connecting"]
    /\ up' = [up EXCEPT ![b] = Append(@, Packet("upgrade", <<>>))]
    /\ UNCHANGED <<device, gfig, down>>

Receive(b) ==
    /\ down[b] # <<>>
    /\ down' = [down EXCEPT ![b] = Tail(@)]
    /\ UNCHANGED <<device, up>>

\* onopen
Opened(b) ==
    /\ Receive(b)
    /\ Head(down[b]).kind = "upgraded"
    /\ sock' = [sock EXCEPT ![b] = "open"]
    /\ UNCHANGED gfig

\* onmessage with a first byte of 0x0A
Configured(b) ==
    /\ Receive(b)
    /\ Head(down[b]).kind = "config"
    /\ gfig' = [gfig EXCEPT ![b] = Head(down[b]).msgs]
    /\ UNCHANGED sock

Send(b, packet) ==
    /\ sock[b] = "open"
    /\ Len(up[b]) < MaxUp
    /\ up' = [up EXCEPT ![b] = Append(@, packet)]
    /\ UNCHANGED <<device, sock, gfig, down>>

\* updateNetworkFields(): the page's copy of the configuration stays as it is.
Edit(b, e) ==
    Send(b, Packet(IF e.key = "password" THEN "update_secrets" ELSE "update_config",
                   <<Message(e.key, 0, e.val)>>))

\* saveGraph(); gfig.length throws before a configuration has arrived.
Save(b) ==
    /\ gfig[b] # Missing
    /\ Len(gfig[b]) + Len(Elements) <= MaxMessages
    /\ Send(b, Packet("save", gfig[b] \o Elements))

\* disconnectWebSocket(); what was sent still arrives.
Disconnect(b) ==
    /\ sock[b] = "open"
    /\ sock' = [sock EXCEPT ![b] = "closed"]
    /\ down' = [down EXCEPT ![b] = <<>>]
    /\ UNCHANGED <<device, gfig, up>>

\* The page is loaded again (not in the middle of a handshake).
Reload(b) ==
    /\ sock[b] # "connecting"
    /\ sock' = [sock EXCEPT ![b] = "closed"]
    /\ gfig' = [gfig EXCEPT ![b] = Missing]
    /\ down' = [down EXCEPT ![b] = <<>>]
    /\ UNCHANGED <<device, up>>

-----------------------------------------------------------------------------
Device ==
    \/ FlashStep \/ PowerOn \/ Unmarshal \/ JoinFails \/ JoinSucceeds
    \/ \E b \in Browsers : Upgrade(b) \/ ApplyConfig(b) \/ UpdateField(b)

Page(b) ==
    \/ Connect(b) \/ Opened(b) \/ Configured(b)
    \/ Save(b) \/ Disconnect(b) \/ Reload(b)
    \/ \E e \in Edits : Edit(b, e)

Next == Device \/ PowerCut \/ \E b \in Browsers : Page(b)

Spec == Init /\ [][Next]_vars

\* The program of core 0 does its next step as long as it is powered; it waits for
\* pages, and nothing is assumed of them.
LiveSpec == Spec /\ WF_vars(FlashStep \/ Unmarshal \/ JoinFails \/ JoinSucceeds)

-----------------------------------------------------------------------------
(* Properties *)

TypeOK ==
    /\ flash \in [Regions -> Images \cup {Blank}]
    /\ writes \in Seq([region : Regions, msgs : Images \cup {Blank}])
    /\ mode \in {"off", "boot", "join", "serving", "halted"}
    /\ setup \in [SetupKeys -> Values \cup {Missing}]
    /\ retries \in 0..MaxRetries
    /\ sock \in [Browsers -> {"closed", "connecting", "open"}]
    /\ gfig \in [Browsers -> Images \cup {Missing}]
    /\ up \in [Browsers -> Seq([kind : {"upgrade", "save", "update_config", "update_secrets"},
                                msgs : Images])]
    /\ down \in [Browsers -> Seq([kind : {"upgraded", "config"}, msgs : Images])]

\* Every image the system holds: stored, about to be stored, on its way, shown.
AllImages ==
    ({flash[r] : r \in Regions} \cup {writes[i].msgs : i \in DOMAIN writes}
      \cup {gfig[b] : b \in Browsers}
      \cup (UNION {{up[b][i].msgs : i \in DOMAIN up[b]} : b \in Browsers})
      \cup (UNION {{down[b][i].msgs : i \in DOMAIN down[b]} : b \in Browsers}))
    \ {Blank, Missing}

\* However saves and updates of several pages follow each other, no image ever
\* has two messages for one field of the network: what is shown, updated
\* (the first message) and used at the next boot (the last one) is the same.
NetKeysUnique ==
    \A msgs \in AllImages : \A i, j \in DOMAIN msgs :
        msgs[i].key \in SetupKeys /\ msgs[i].key = msgs[j].key => i = j

\* A controller that joins a network or offers one knows all of its fields,
\* whenever the power was cut before and whatever the pages have saved.
SetupWhole == mode \in {"join", "serving"} => \A k \in SetupKeys : setup[k] # Missing

\* The password is stored and updated in its own region: the configuration,
\* which every page receives and sends back, never contains it.
PasswordPrivate ==
    \A msgs \in {flash["config"]} \cup {gfig[b] : b \in Browsers}
                  \cup UNION {{down[b][i].msgs : i \in DOMAIN down[b]} : b \in Browsers} :
        msgs \notin {Blank, Missing} => \A i \in DOMAIN msgs : msgs[i].key # "password"

\* Whoever is served finds a configuration stored, or is about to: the buffer
\* handle_websocket_req() reads it into is never sent without having been filled,
\* wherever the power was cut (websockets.c:209-213).
ServedStored == mode = "serving" /\ writes = <<>> => flash["config"] # Blank

\* Booting ends: after finitely many attempts the controller serves or gives up.
BootEnds == mode \in {"boot", "join"} ~> mode \in {"serving", "halted", "off"}

-----------------------------------------------------------------------------
(* What the repository's documents say, and the code does not do. *)

\* ConfigReference.md:9-10: a device that is past its boot, and has nothing left to
\* write, has its configuration and its secrets stored.
StoreWhole ==
    mode \in {"join", "serving", "halted"} /\ writes = <<>> =>
        \A r \in Regions : flash[r] # Blank

\* ConfigReference.md:38: a stored field changes when it is updated; saving the
\* elements leaves the fields of the network alone.
SaveKeepsSettings ==
    [][\A b \in Browsers : ApplyConfig(b) =>
          Unmarshalled(setup, Head(up[b]).msgs) = Unmarshalled(setup, flash["config"])]_vars
=============================================================================

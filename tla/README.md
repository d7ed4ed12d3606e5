# NeoGraph: models, checks and proofs

NeoGraph is the firmware of a Raspberry Pi Pico W 2 and the web page it serves. A user draws a small
graph in a browser (buttons wired to LEDs and GPIO pins), saves it on the controller, and switches the
outputs from the page. The program is concurrent in four ways: two processor cores that talk through
bounded hardware FIFOs, network callbacks that interrupt nothing but arrive in any order, several
browser pages that each hold a copy of the configuration, and a power supply that can be cut at any time.

This directory holds TLA+ modules of the parts of the program that carry its logic, TLC configurations
that check them on small instances, and proofs, checked by TLAPS, for every value of the constants.
Paths such as `hwman.c:249` are relative to `src/` of the repository, paths such as `network.js:113` to
`ui/content/`, `config_iterator.c` is in `src/config/`, `dhcpserver.c` in `src/networking/`.

## 1. Inventory

| Part | Code | State | Operations | Interacts with |
|---|---|---|---|---|
| Core 0 main loop | `main.c` | event tag being read; `complete` | poll the network, pop an event pair, forward it | core 1 by FIFO; clients by TCP |
| FIFO words | `hwman.c:29-60`, `config.c:376-408`, `websockets.c:271-291` | none | pack and unpack operation, type, id, value | both cores |
| Core 1 worker | `hwman.c:113-289` | table source -> outputs, pins, uptime | set up, clean, drive, report uptime and temperature | core 0 by FIFO; GPIO; the LED by way of core 0 |
| Table memory | `hwman.c:62-111` | row length, size and capacity (bytes) | append, find, grow | core 1 |
| Configuration elements | `config_iterator.c`, `config.c:88-206` | an image: messages behind a header | iterate, replace one message in place | flash, packets |
| Frames and packets | `websockets.c`, `network.js`, `graph.js` | buffers of 1024 bytes, what TCP has joined | upgrade and answer its key, mask, tell a length, dispatch | pages, stored image |
| Settings | `config.c`, `wifi.c`, `network.js`, `graph.js` | two flash regions, `network_setup`, retries, each page's copy | boot, unmarshal, join, save, update | pages, flash, WiFi |
| TCP server and sessions | `tcpserver.c`, `websockets.c` | table of clients, the client of each connection, lwIP's pools | accept, receive, upgrade, close, error | pages, main loop |
| DHCP server | `dhcpserver.c` | leases with an expiry in wrapped time | discover/offer, request/ack | stations |
| Browser page | `ui/` | WebSocket, received configuration, graph | connect, edit, save, command | controller |

How they interact: callbacks of lwIP run inside `cyw43_arch_poll()` on core 0, one at a time; a callback
pushes words to core 1 with blocking pushes; core 1 pushes event pairs back with blocking pushes, which
the main loop pops one pair per turn and forwards to the clients in its table. Saves and updates erase
and program flash inside a callback.

What is hard, and what makes each part correct:

* **Two cores.** Events and set-ups are pairs of words in FIFOs without framing, popped with timeouts
  here and without there; both sides block when the other is full. Pairs must stay pairs, a row must be
  filed under its source, a driven pin must be an output, each blocking call must return, and the whole
  must act on the outputs as if packets were carried out one by one.
* **Elements.** The update splices an image with offsets taken from an iterator that has already moved
  on, in images whose last message may be cut off and whose messages may have no payload. An update must
  replace one message in its place and touch no other.
* **Frames.** A length is told in three places and several forms (frame, packet, message), some in one byte;
  payloads are masked; buffers have 1024 bytes and the image may be longer. What a page means must be what
  is stored, as far as its packet tells its length, and what is stored must be what a page receives.
* **Table memory.** Lengths are bytes, arrays grow, and an allocation may fail half-way; every connection sets all
  sources up again. Until memory or a byte's range is exhausted, a look-up must find what was set up.
* **Settings.** Two regions are written one after the other, each erased before it is programmed; pages
  save copies of what they once received. A field must stay stored once, the password must stay in its
  own region, a boot must end, and what it uses must be complete.
* **Sessions.** A new client displaces the previous one from the table; connections close, reset and
  vanish in any order while lwIP still holds pointers to their clients. No callback and no event may
  refer to a freed client, and what a browser ends must be ended, also when lwIP has no memory left to write with.
* **DHCP.** Offers reserve nothing; answers and requests come late or twice; expiries drop bits of a
  time that wraps; options come in any order. Two stations must not use one address, a station must not hold
  two, and what is no request must get nothing.

`PROJECT.json` lists every hazard at its line with the properties that cover it.

## 2. The modules

| Module | Models | Extends / uses |
|---|---|---|
| `HwWord` | the 32-bit words of the FIFO | |
| `DualCore` | both cores, both FIFOs, table, pins, reboot | `HwWord` |
| `Panel` | the abstract device: each packet acts at once and whole | |
| `DualCoreRefinement` | `DualCore` implements `Panel` | `MCDualCore`, `Panel` |
| `ElementTable` | the abstract table of core 1, as `DualCore` takes it | |
| `HwelTable` | its memory: rows, growth, failed allocations; implements `ElementTable` | `ElementTable` |
| `ConfigElements` | the stored image, iterator and update, byte by byte | |
| `AcceptKey` | `base64_encode()` and what a browser reads | |
| `Frames` | a page and the controller over one WebSocket, byte by byte | `ConfigElements`, `AcceptKey` |
| `Settings` | flash regions, boot, join, pages that edit and save | |
| `Sessions` | accept, receive, close, table of clients, pools, browsers | |
| `Dhcp` | leases, wrapped time, stations | |
| `DhcpMessages` | the server on bytes: options of messages and answers; implements `Dhcp` | `Dhcp` |
| `MCDualCore`, `MCHwelTable`, `MCFrames`, `MCSettings`, `MCSessions`, `MCDhcp` | small instances for TLC | the module they are named after (`MCDhcp`: `DhcpMessages`) |
| `InductionTheorems` | induction over naturals and ranks with sets, and the existence of functions defined by recursion | |
| `DualCoreProofs` | theorems about the FIFO words, the two cores and their refinement | `DualCoreRefinement`, `InductionTheorems` |
| `HwelTableProofs`, `ConfigElementsProofs`, `FramesProofs`, `SettingsProofs`, `SessionsProofs`, `DhcpProofs` | theorems about the module they are named after (`FramesProofs`: also `AcceptKey`; `DhcpProofs`: also `DhcpMessages`) | that module; `ConfigElementsProofs` (used by `FramesProofs`) and `DhcpProofs` use `InductionTheorems` |

### DualCore

A word is a pair of 16-bit halves, so that shifts and masks become `\div` and `%` on integers within
TLC's range. Core 0's program counter is `pc0` ("poll" inside `cyw43_arch_poll`, "pop" at the event
FIFO), with `todo0` the messages the running callback still has to marshal, `out0` the words still to
push and `tag0` the tag whose value it waits for. Core 1's is `pc1` ("uptime", "pop", "ref", "drive",
"coretm": the sections of `core1_worker()`), with `op1` the C variable `op`, `next1` the loop index and
`out1` the event words still to push. Each push and each pop is a step of its own, so a callback's words
and core 1's events interleave in every way.

`Upgrade0`, `Save0` and `Command0` start the callbacks of `retrieve_store()`, `apply_config()` and of a
command packet; `Marshal0`, `Push0` run them; `PopTag0`, `PopTimeout0`, `PopValue0` are `main.c:83-110`.
`SetupOutput1`, `SetupOther1`, `Clean1`, `Action1`, `Ignored1` are the cases of the switch, with the
missing `break` after CLEAN_SETUP; `Ref1` and `RefTimeout1` the pop of the second word and its ignored
timeout; `Drive1`, `EndDrive1` the loop over a source's rows. A command packet carries its first payload
byte as the value and pushes the rest as further words (`ext`), as `websockets.c:282-289` does.
`LateRef` says whether core 0 may need more than the millisecond that pop allows.

`gpio_init()` drives a pin low, so a set-up that is repeated switches the output off: the abstract
`Panel` says the same, because that is what the code does each time a page connects.

The hash table with its buckets is a function from source id to a sequence of rows; `HwelTable` shows what
that takes. A timeout may fire only when the FIFO is empty. An LED row becomes an event (tag 2), as the
LED hangs on the wireless chip and core 0 has to switch it.

### Panel and DualCoreRefinement

`Panel` is one record (wired outputs, output pins, levels, LED) and four steps: connect, save, command,
restart. The refinement mapping computes, from the table, the word in hand, the rows left to drive, the
FIFO, the words still to push and the messages still to marshal, the device that results when everything
in flight has been absorbed, and the LED that results from the events on their way back. The start of a
callback is the abstract step; every other step of `DualCore` must leave the mapped device as it is.

### ElementTable and HwelTable

A row of `HwelTable` is a `hwel_sources`: whether it exists and still owns its array, the bytes `len` and
`size`, the number of elements the array really has room for, and its elements. `AddNew`, `AddRefused`
(one of the two mallocs fails), `AddExisting`, `GrowFails` and `AddFreed` are the paths through
`add_packet()`; `find_packet` is a look-up with the loop that follows it, `delete_all_packets` a clean-up.
`realloc` counts in `sizeof(hwel_sources)`, the larger type, hence `Room`; `len` and `size` wrap at
`MaxByte`. When `realloc` fails the code frees the array and leaves the row: what is done with the
row afterwards sets `wild`. `ElementTable` is what `DualCore` assumes: a sequence of elements for each
source, where a set-up may be left out and everything may break, once; the mapping takes `wild` for broken.

### ConfigElements

An image is a sequence of bytes. `cei_has_next` and `cei_next` are the iterator with its offsets; `update_config`
starts an update, `Skip`, `Replace` and `EndOfImage` are one turn of its loop each, and `Assembled` is the splice of
`config.c:185-192` with its arithmetic. `apply_config` stores an image as it came. `pay[0]` of a message without
payload reads the next message's first byte, or memory behind the buffer: that is a choice over what may lie there.
`FirstMessage` is what the image is compared with: the update's first message, or, as the code goes on after an update
without a whole message (`config.c:173-175`), whatever an uninitialised iterator holds (`Leftovers`); its pointer may
also lead nowhere (`Fault`). `update_secrets()` is the same function on the other region. `Frames` feeds this module:
what is stored and what an update looks for is what was decoded.

### Frames and AcceptKey

One page and the controller. `Connect` is the upgrade: a request of some length goes into a buffer of `BufSize` bytes,
its key is answered (`base64_encode` of a digest; SHA-1 is left out) and the stored image is wrapped by
`send_websocket_binary()`. `Receive` is the page's `onmessage`. `Edit` and `SaveGraph` are `updateNetworkFields()` and
`saveGraph()` with their length bytes, in frames a browser masks. `Handle` is a callback with a segment of one or more
frames, of which the first is handled and the others are lost (`websockets.c:232`); the header is decoded, the payload
unmasked in place and dispatched by its first byte, by the length the packet tells: an update puts its length into one
byte, whatever the value's (`network.js:123`), so that of a packet of 256 bytes or more only a part is told. `Behind`
is the byte after that part in the buffer. `handled` is what a packet was taken for, `meant` what the page meant. A
request, segment, payload or image that does not fit its buffer sets `inside` to FALSE, and the model ends there, as
nothing can be said of the program afterwards.

### Settings

The two regions hold sequences of messages. A function that writes flash leaves a list `writes` of flash
operations, each done by a `FlashStep`; `PowerCut` may come between any two of them, and between any two
steps of anything. A boot is `PowerOn` (defaults are written if the configuration is missing),
`Unmarshal`, then `JoinFails` and `JoinSucceeds` or, as an access point, serving at once. Blank secrets
have the length 0xFFFF in their header; copying as much over a stack buffer of 256 bytes is undefined,
and the module takes the outcome to be a controller that stops (mode "halted").
A page keeps `gfig`, the configuration it received on connecting; `Edit` sends one field and leaves
`gfig` as it is, `Save` sends `gfig` with the page's elements behind it. A page notices a power cut by
its socket being closed; it is not loaded again in the middle of a handshake.

### Sessions

A connection has a PCB in lwIP (`pcb`), a `tcpclient` (`client`), what the browser has sent (`net`), what the browser
is doing (`tab`) and what was written to it (`down`); `hooks` says whether lwIP has its callbacks. `slot` is
`clients[0]`, the only one of ten places the code ever fills. Each branch of `tcp_server_recv()` is an action, with
the buffers the branch does not free counted in `leaked`; when all are gone nothing is received any more. Memory may
be short: `AcceptRefused` is a client that cannot be allocated, `RecvPageFails` a `tcp_write()` that refuses the
header or the page (the callback returns ERR_ABRT and leaves the connection as it is), and `RecvUpgrade` and `Event`
write any part of what they should, as nobody looks at the result. "Upgrade without key" stands for a key that is
missing or lies beyond the 1023 bytes examined. `Reset` is `tcp_server_err()`, which takes the client for the server.
Undefined behaviour (a write behind the client, an event for a connection lwIP has freed) is a choice between going on
and `running = "crashed"`. `PowerCycle` is a user who restarts a controller that no longer answers.

### Dhcp and DhcpMessages

`Candidates`, `Cleared` and `MayHave` are the loops over the leases. `now` wraps after `Expiries * Unit`
ticks, an expiry tells only units apart, and `Expired` compares as the code does, by the sign of a difference.
A message stays on its way until its sender sends another one, so it may be handled late, twice or never. Stations
behave as RFC 2131 has them as far as the server can tell: they time their lease from the request, drop
answers to an exchange they gave up, and may keep a lease when rejoining is not answered. A renewal names
no requested address, a release is of another type, and a station that comes from another network asks for
an address of that one: all are of kind "other", the code ignores them, and a lease just runs out.
`Restart` empties the table and joins every station anew; `old` are the stations that remember a lease from before.

`DhcpMessages` puts bytes in place of addresses. A station writes its options in an order of its own, with
others in between (`Layouts`, `Extra`); it ends them and does not pad between them, as stations do.
`opt_find` is the walk with its limit of 308 bytes, `Taken` the decisions of `dhcp_server_process()` down to the
last byte of a requested address less the base, modulo 256, and `Answer` the options written over those of the
message. `Understood` is the station's reading of them. `Receive` replaces the actions `Discover` and
`Request` of `Dhcp`; all else is the same, and `MessagesSpec` implements `Dhcp`'s `Spec`.

## 3. What is checked

Passing runs (TLC explores every reachable state):

| Run | Checks | Bounds and why they are enough |
|---|---|---|
| `DualCore` | `TypeOK`, `RowsGenuine`, `SetupsPaired`, `RestoredWhole` | FIFOs of 4 words hold two whole set-ups, or parts of three; four callbacks let a save, a connect and a command overlap with what is still in flight, and a connect follow a power cut; two configurations whose ids differ in both bytes; second words may be late |
| `DualCoreStray` | `EventsFramed`, `DrivenPinsAreOutputs`, `TagAnswered`, `CallbackReturns`, `WordsConsumed` | FIFOs of 2 words, so that both fill up; command packets whose further words decode to a clean-up, a set-up of an unknown type, the first word of a GPO set-up, and nothing |
| `DualCoreRefinement` | `PanelRefinement` | FIFOs of 2 words, four callbacks; second words in time, otherwise a row is filed under another key and the promise does not hold |
| `HwelTable` | `TypeOK`, `MemoryKept`, `TableRefinement` | arrays that grow by two, bytes up to four: one source grows twice and then is set up past the largest byte, the other grows once; each allocation may fail |
| `Frames` | `TypeOK`, `IteratorInside`, `UpdateExact`, `WholeMessages`, `HandledAsTold`, `ImageDelivered`, `KeyAccepted`, `BufferInside`, `UpdateEnds` | the real sizes of buffers (1024) and of flash; packets of 125 and 126 bytes, frames of 1023 and 1024, values whose packets have 255 bytes, and 256 and more, so that the length wraps to nothing, to a message without payload and to one with part of its value; a value that looks like a message; two things an uninitialised iterator may hold; four stored images, one cut off in its last message; digests that leave each remainder by three; three packets, three updates |
| `Settings` | `TypeOK`, `NetKeysUnique`, `PasswordPrivate`, `ServedStored`, `SetupWhole`, `BootEnds` | two pages, so that one page's save meets the other's edit; an edit that makes the controller an access point, and the password stored again, as where it goes matters and not its value; one packet of a page in flight; one retry, and each attempt to join may fail |
| `Sessions` | `TypeOK`, `TableAlive`, `CallbackAlive`, `Ended` | two connections for two PCBs: overlap, displacement, exhaustion, refused clients and writes; two frames in flight, segments that join them; two buffers to leak |
| `Dhcp` | `TypeOK`, `NoAddressTwice`, `OneLeasePerClient`, `MessagesMeant`, `ServerRefinement` | three stations for two addresses: someone goes without; eight ticks and a lease of two, so the time wraps several leases later; three orders of options, with the server's address (54), the lease time (51) and options whose data look like codes |

What each property says is in the comment above it. The ones that carry most:

* `PanelRefinement`: whatever is in the FIFOs, each set-up is filed and each command is carried out
  exactly once, whole and in order.
* `SetupsPaired` and `RowsGenuine`: the two words of a set-up are never separated, and each row is a
  configured element under a key its set-up can give.
* `RestoredWhole`: once a browser has connected since the boot (`Upgraded`), the table has a row for every stored
  element as soon as what is on its way has arrived. Before that it is empty, which is what `FindRestart` is about.
* `EventsFramed`: core 0 never takes a value for a tag.
* `TableRefinement`, `MemoryKept`: until an array could not grow or a source was set up more often than
  a byte counts, the growing arrays are the table `DualCore` works with.
* `HandledAsTold`: across mask, header and joined frames, a packet is taken for what the page meant, as far as it tells
  its length: all of a configuration, and the first n modulo 256 bytes of an update of n.
* `UpdateExact` and `WholeMessages`: an update of one field replaces exactly one message, and what a cut-off save left
  behind stays what it was.
* `BufferInside`: the handlers leave their buffers only over what is longer than them, or once updates have made
  the image longer than the one a page saved (`saved`): no image that could be received is too long to be sent back.
* `NetKeysUnique`: no image, stored, in flight or on a page, has two messages for one network field, so
  that update (first match) and boot (last match) mean the same one.
* `SetupWhole`: a controller that joins or offers a network knows all its fields whatever was cut before.
* `TableAlive`, `CallbackAlive`: no event and no callback meets a freed client, also while a close that failed is aborted.
* `Ended`: a connection that the browser ends is ended, whatever was refused on it before.
* `NoAddressTwice`: two leases granted since the server started are never for one address.
* `MessagesMeant`, `ServerRefinement`: on bytes the server takes and gives what it does on addresses.

Symmetry is used only in `Dhcp`, on stations that no definition tells apart; the run has no liveness property, and
`ServerRefinement` is an action property under it. `Frames` switches the deadlock check off:
after its packets and updates, or once a buffer was left, the model really stops. The other models can always take a
step (a reboot, a power cut, a tick), so there the absence of deadlock says little, and being stuck is what the
liveness properties and `NoMutualBlock` are about.

Runs that find a disagreement with what the repository says:

| Run | Property | What TLC finds |
|---|---|---|
| `FindBlock` | `NoMutualBlock` | A panel of three LEDs on one button: a callback blocks pushing set-ups while core 1 blocks pushing LED events. Each waits for the other for good. |
| `FindRestart` | `StoredControlsRun` | A save, then a power cut: both cores run on, and the table stays empty for ever, because set-ups are sent only when a browser connects or saves. |
| `FindRevert` | `SaveKeepsSettings` | Edit a field, then save the graph: the page sends back the configuration it received when it connected, and the edit is gone. |
| `FindCut` | `StoreWhole` | A power cut after the configuration was written and before the secrets were, or while the password is updated: the next boot looks only at the configuration and stops at the blank secrets, each time. |

`CallbackReturns` and `WordsConsumed` therefore except the mutual block, `RestoredWhole` the time before a browser
connects, `HandledAsTold` what a packet does not tell. `Ended` excepts a stopped controller
and an empty pool. `TagAnswered` needs no exception: core 1 never stops between the two words of an event for
a reason that core 0, which is popping then, does not remove.

### Fairness

* `DualCore`: weak fairness of each core. Both run endless loops, and a blocked push becomes enabled
  when there is room. Nothing is assumed of browsers or of the power: reboots may recur forever.
* `Frames`: weak fairness of the update's loop, which runs inside one callback.
* `Settings`: weak fairness of core 0's program, which goes from flash steps to unmarshalling to attempts to join, one
  after the other, without waiting for anybody. No fairness of pages, of power or of a join succeeding.
* `Sessions`: weak fairness of the delivery of what was received, because the main loop polls the driver
  each turn, and of lwIP's end of a closed connection. Browsers owe nothing.

## 4. What is proved

All theorems hold for every value of the constants that satisfies the named assumptions of the module.

* **Words** (`DualCoreProofs!DecodeOpWord`, `DecodeRefWord`) - what core 1 decodes is what core 0
  packed, for every operation, type 0x20..0x3F, id and value; a second word taken for a first one asks
  for nothing while source ids are below 0x4000. The proofs are arithmetic on `\div` and `%`.
* **Types** (`DualCoreProofs!TypeCorrect`): `TypeOK` is inductive; in particular neither FIFO ever holds
  more than `Depth` words and only well-formed rows reach the table. One lemma per group of actions.
* **Events** (`EventsStayFramed`): inductive together with `TypeOK`. `EventStream` is the tag core 0
  holds, the FIFO and what core 1 still owes. A push moves a word inside the stream, core 1 adds a whole
  event and only when it owes nothing, and core 0 takes the stream apart at its front: a tag it holds stays
  at the front until its value is popped.
* **Pins** (`DrivenPinsStayOutputs`): inductive together with `TypeOK`, for every packet, stray words
  included: adding a row makes its pin an output in the same step, and a clean-up that makes pins inputs
  empties the table.
* **Rows**: `SetupsStayPaired` and `RowsStayGenuine` under `TidyInputs` (commands of one
  payload byte, source ids below 0x4000). Neither is inductive alone. The invariant is `RowsInv`: types,
  `GenuineSource` (what is stored or still to be marshalled is configured, and `op1` is a set-up of an
  output while its second word is awaited), the pairing of the whole stream of words, and the rows.
  Pairing must range over the word core 1 holds, the FIFO and the words still to push, for a pair is
  usually split over them; a row is genuine because the word in hand is paired with the next one.
  Without `TidyInputs` the statements are false: a stray word can be a set-up (see `DualCoreStray`).
* **Restore** (`TableRestored`, under `TidyInputs`): `RestoreInv` adds to `RowsInv` that no clean-up is on its way and
  `Restoring`: once a browser has connected since the boot, each stored element is filed or on its way - still to be
  marshalled, or its two words side by side in the stream of words. The first callback after a boot makes everything
  be on its way in one step; after that elements only move towards the table, and a clean-up, which alone could empty
  it, never comes.
* **Panel** (`PanelIsRefined`: `PanelRefinement`, under `TidyInputs` and `LateRef = FALSE`; with a second word late
  the promise fails, for the row is filed under another key). `Flushed` folds `Absorb` over the words in flight, and
  `Panel` folds `Obey` over the messages of a packet. A fold is first turned into the sequence of values it goes
  through (`Trace`, `ObeyTrace`: functions defined by recursion), and `AbsorbedJoin` splits it at any place.
  Marshalling, pushing and the handling of events leave the words in flight and the device alone: for the LED,
  `LedAfterEvents` says what the events still on their way will make of it, and a pair taken in or added changes it as
  the code does (`LedDrop`, `LedAppend`). Taking a word in moves it from the stream to core 1's progress
  (`TakesWord`), one turn of the loop over the rows moves a row from those left to the pins (`SwitchTwice`), and a row
  filed is one wire more (`PresentFiled`, with the rows of a source counted). A callback starts only when core 0 owes
  no word, and then the stream ends between two messages (`StreamWhole`, from the pairing); what its words come to is
  what `Panel` makes of its messages (`CallbackAbsorbed`). The invariant is `RestoreInv`, the framing of events, and
  that outside the loop over the rows none counts as driven.
* **Table memory** (`HwelTableProofs`): `TableTypeCorrect`, `MemoryStaysKept` and the refinement `TableImplements`.
  `TableInv` adds to `MemoryKept` what each row of a source that was set up no more often than a byte counts is like
  (`RowKept`): its length is the number of its elements and no more than were set up, its size is a multiple of the
  growth, and the array has at least as much room. Sizes meet `MaxByte` exactly, because it is a multiple of the
  growth (255 and 5): this is where the assumption on them is used.
* **Elements** (`ConfigElementsProofs`): `ElementsTypeCorrect` and `IteratorStaysInside`. `ElementsInv`
  adds to `TypeOK` that both images tell their own length, that the iterator is inside the messages, and
  that the image is the one the update was called with while the loop runs. The core lemma,
  `AssembledIsTold`, follows the splice: its parts' lengths add up to the new length, which two bytes can tell.
* **Updates** (`FramesProofs!UpdatesAreExact`, `MessagesStayWhole`; lemmas in `ConfigElementsProofs`): `Messages` and
  `Remainder` are walks over the image, recursive functions; the invariant `UpdatesInv` relates the loop's iterator to
  them. `Passed(b, pos, done)` says of a position that in every image that starts with the same bytes the walk gives
  the messages `done` and then goes on from there: so the walk over what an update leaves is the old one up to the
  place of the message that was found, the new message, and the old walk behind it (`Replacing`, `Spliced`).
  `UpdatesAreExact` is about updates of one whole message with a field (`OneMessage`) and has the hypothesis
  `FieldsTold`: no message of the update's type and identification in the image lacks a payload. The code compares the
  byte behind such a message (`config.c:181`), so without it an update may go to the wrong message; the pages write
  none.
* **Buffers** (`BuffersKept`): `Received` keeps that the image a page saved came in a frame that fits the
  buffer, header and mask included, and the answer is never longer than that frame while the image is no longer than it was.
* **Frames** (`FramesProofs`): `StoredImageCorrect`, `PacketsHandledAsTold`, `StoredImageDelivered`, `KeysAccepted`,
  for every mask, graph, buffer size and order of steps, and every field value of less than 65527 bytes
  (`FieldsAssumption`: the two bytes of a frame's length can tell its packet). `FramesInv` adds to `ElementsInv` that
  each frame on the wire comes from a packet whose two bytes tell what `LengthTold` says (`FromPage`), and that while
  an image is on its way nothing is stored. The lemmas are about the codec: a mask applied twice is undone
  (`MaskUndone`, by the bits of a byte), each form of header tells where the payload is, two bytes tell a length, and
  `Base64Back`: what was encoded is read back, for digests of every length.
* **Settings** (`SettingsProofs`): `SettingsTypeCorrect`, `NetKeysStayUnique`, `PasswordStaysPrivate`,
  `SetupStaysWhole`, `ServedStaysStored`. None is inductive alone: that a field is stored once is what makes the
  message an update replaces, and the one a boot takes, that field's. `SettingsInv` says what may be where (`Configs`:
  each field once, no password; `Secrets`: one password; packets and flash operations that carry only those) and
  `Filled`: once the running function has done its flash operations, the region has an image. Power may be cut
  anywhere, for nothing is claimed of the regions while the controller is off: a boot fills the configuration, and no
  boot gets to joining with blank secrets.
* **Sessions** (`SessionsProofs`): `SessionsTypeCorrect`, `TableStaysAlive`, `CallbackStaysAlive`. Closing a client
  takes it out of the table, its callbacks out of lwIP and its PCB out of "active" in one step; a client of an older
  connection is never in the table.
* **DHCP** (`DhcpProofs`): `DhcpTypeCorrect`, `OneLeaseStays`, `NoAddressTwiceStays`, for every pool, wrap, unit and
  lease with `2 * (LeaseTime + Unit) <= Wrap`. `LeaseInv`: a slot that is in a request, an offer or a station's memory
  is the only one that may be leased to that station. `HeldInv` adds the time: while a station's lease has ticks
  left, the server's has at least as many (`Lasts`), reckoned modulo the wrap, and not more than a lease and
  a unit. The arithmetic is in `GrantLasts` (a grant drops less than a unit) and `TickTakes`
  (a tick takes one from both); half the wrap then tells running leases from expired ones.
* **DHCP messages** (`MessagesAreMeant`, `ServerRefines`, `LeasesOnBytes`): the options of a message are pieces laid
  one after another (`Ends`, `Pieces`), whatever their order and number; a walk that steps from option to option ends
  at the first piece with its code or behind them all (`WalkEnds`), for the server's `opt_find()` and for a station's
  reading alike, and never at a byte inside a piece. From this, `ReadingsMeant` goes through every kind of message,
  foreign addresses included, and `AnswersMeant` through the six options of an answer. Then each step of the server on
  bytes is a `Discover` or a `Request` of `Dhcp`, and the theorems about leases hold of it. A station may add any
  options but the two the server looks for (`ExtraAssumption`: the message type, 53, and the requested address, 50);
  the server's address (54) and the lease time (51) are among those it may add. `OptionsAssumption` bounds the options
  at the 308 bytes of their field.

The induction these need is over sets: `InductionTheorems` derives from the well-foundedness of `<` that a set of
naturals closed under successor is `Nat`, the same for ranks, and that a function defined by a recursion that lowers
a rank exists and satisfies its equation; the theorems of the library that take an operator as parameter are not used.

## 5. What is only model-checked

Liveness (`TagAnswered`, `CallbackReturns`, `WordsConsumed`, `UpdateEnds`, `BootEnds`, `Ended`) is beyond the provers,
which know no fairness. Every safety invariant, every action property and every refinement a passing run checks is
also a theorem; `UpdateExact`, `PanelRefinement` and the properties of the rows have the hypotheses named above: the
`DualCore` and `DualCoreRefinement` runs satisfy `TidyInputs`, the latter with `LateRef = FALSE`, and in the `Frames`
run those of `UpdateExact` are met by every update of one whole message, but on an image into which an update that
wrapped has put a message without payload.

## 6. What is not modelled, and why

* SHA-1 (a library's) and the C library's search for the headers of a request; of a request only its length and
  whether it has a key matter here.
* Frames with eight bytes of length: nothing in this system sends one, and none fits the buffer. Frames that TCP splits
  over two segments: `Handle` takes whole frames, and what `websockets.c:232` makes of the halves is left out.
* In a DHCP message the fixed part, apart from the address and the client; options that are not
  ended or padded in between, which no station sends. Opening the socket and what lwIP may refuse to send.
  There is one server: `dhcpserver.c:246-273` never looks at the server's address (54), so it would also take a request meant
  for another one, and the models have none.
* The age of a lease: one that ended more than half the wrapped time ago counts as running again
  (`dhcpserver.c:230`). `Dhcp` does what the code does; no property speaks of it, as none of the repository's documents do.
* A flash region is written whole or not at all; torn pages are left out. What core 1 fetches from
  flash while core 0 erases it is outside the models, which have no instruction fetch.
* The graph editor (nodes, edges, selection): it is state of the drawing, and the controller meets it only in what
  `saveGraph()` sends, which `Frames` takes as a choice of bytes and `Settings` as a constant.
* Static addresses (`static_ip` is always NULL), the earlier user interface (only `ui/MakefileOld` names
  it), drawing, vendored code (`uthash.h`, Unity), headers of options, the build.

The models do what the code does also where a document or comment says otherwise. Besides the runs of section 3 these
places were met while reading, and have no run of their own: the second word of a set-up that is late files the row
under another source (`hwman.c:159`); set-ups repeat as nothing sends a clean-up (`config.c:709`) and switch outputs
off (`hwman.c:167`); after a cut while the configuration is written the next boot stores the defaults
(`config.c:633`); an update packet with two fields is inserted as a whole in place of the first (`config.c:173`); a
page that reconnects and saves stores its elements twice (`graph.js:29`); the default options make a fresh controller
a station (`config.c:291`, README.md:46); a controller whose network is out of range returns from `main()` for good
(`main.c:56`); a full table of PCBs ends the main loop (`tcpserver.c:212`); three branches keep their buffers
(`tcpserver.c:190`, `websockets.c:164`, `websockets.c:296`); only the newest client gets events (`tcpserver.c:227`); a
client that was reset stays in the table (`tcpserver.c:201`); only the first frame of a segment is handled
(`websockets.c:232`); an array that could not grow stays in the table (`hwman.c:83`); an update without a whole
message is carried on with (`config.c:173`); the length of an update is told in one byte, so that of a packet of 256
bytes or more only a part is taken (`network.js:123`, against the two bytes of ConfigReference.md:22); when lwIP refuses
what is written, the browser that asked is neither answered nor closed (`tcpserver.c:175`, `websockets.c:196`); a request that cannot be met is never refused (`dhcpserver.c:268`).

## 7. Plan

Order: most important behaviour first. Done: the two cores with their refinement (`HwWord`, `DualCore`, `Panel`), the
elements (`ConfigElements`, `Frames`, `AcceptKey`), `Settings`, `Sessions`, the memory of the table
(`HwelTable`), the DHCP server on addresses and on bytes; all their safety theorems and refinements.

Left:

1. The age of a lease in `Dhcp`.
2. `Graph`: nodes, edges and selection of the page, and the bytes elements marshal to, feeding `Settings`.
3. Frames that TCP splits over two segments in `Frames`.

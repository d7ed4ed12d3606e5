--------------------------- MODULE SettingsProofs ---------------------------
(***************************************************************************)
(* However pages edit and save, and wherever the power is cut: every image *)
(* has each field of the network once, and the password is in no image     *)
(* that leaves the controller.  That each field is stored once is also     *)
(* what makes an update and a boot mean the same message.                  *)
(***************************************************************************)
EXTENDS Settings, SequenceTheorems, TLAPS

-----------------------------------------------------------------------------
(* Images *)

Fields == SetupKeys \ {"password"}
Chosen == Values \ {Missing}

\* The only message for a field, and one that says something.
At(msgs, k, i) ==
    /\ i \in DOMAIN msgs /\ msgs[i].id = 0 /\ msgs[i].val \in Chosen
    /\ \A j \in DOMAIN msgs : msgs[j].key = k <=> j = i

\* What may be stored in the two regions.
Configs ==
    {msgs \in Images : /\ \A i \in DOMAIN msgs : msgs[i].key # "password"
                       /\ \A k \in Fields : \E i \in DOMAIN msgs : At(msgs, k, i)}
Secrets == {<<Message("password", 0, v)>> : v \in Chosen}

LEMMA KeysFacts ==
    /\ Fields = {"options", "name", "ssid"} /\ SetupKeys = Fields \cup {"password"}
    /\ Fields \subseteq Keys /\ "password" \in Keys /\ "password" \notin Fields
BY DEF Fields, SetupKeys, Keys

LEMMA ChosenFacts ==
    /\ {DefaultName, DefaultSsid, DefaultPass, Station, AccessPoint} \subseteq Chosen
    /\ Chosen \subseteq Values
    /\ \A e \in Edits : e.key \in SetupKeys /\ e.val \in Chosen
<1>1. \A e \in Edits : e.key \in SetupKeys /\ e.val \in Values
  BY EditsAssumption DEF Values
<1> QED
  BY <1>1, ValuesAssumption DEF Chosen, Values

LEMMA MessageType ==
    \A k \in SetupKeys : \A v \in Chosen :
        /\ Message(k, 0, v) \in Messages
        /\ Message(k, 0, v).key = k /\ Message(k, 0, v).id = 0 /\ Message(k, 0, v).val = v
BY KeysFacts, ChosenFacts DEF Message, Messages

LEMMA ImageFacts ==
    \A msgs \in Images : /\ Len(msgs) \in Nat /\ DOMAIN msgs = 1..Len(msgs)
                         /\ \A i \in DOMAIN msgs : msgs[i] \in Messages
BY ElementOfSeq, LenProperties DEF Images

LEMMA Stored ==
    /\ Configs \subseteq Images /\ Secrets \subseteq Images
    /\ Blank \notin Configs /\ Blank \notin Secrets /\ Missing \notin Configs
<1>1. ASSUME NEW v \in Chosen PROVE <<Message("password", 0, v)>> \in Images
  <2>1. Message("password", 0, v) \in Messages
    BY MessageType, KeysFacts
  <2> QED
    BY <2>1 DEF Images
<1> QED
  BY <1>1, ImagesAssumption DEF Configs, Secrets

\* A tail of messages that are none of the network's is no concern of the fields.
LEMMA SavedConfig == \A msgs \in Configs : msgs \o Elements \in Configs
<1> TAKE msgs \in Configs
<1> DEFINE n == Len(msgs)
           all == msgs \o Elements
<1>1. msgs \in Images /\ n \in Nat /\ DOMAIN msgs = 1..n
  BY ImageFacts DEF Configs
<1>2. Elements \in Images /\ Len(Elements) \in Nat /\ DOMAIN Elements = 1..Len(Elements)
  BY ImagesAssumption, ImageFacts
<1>3. /\ all \in Images /\ DOMAIN all = 1..(n + Len(Elements))
      /\ \A i \in 1..(n + Len(Elements)) :
            all[i] = IF i <= n THEN msgs[i] ELSE Elements[i - n]
  BY <1>1, <1>2, ConcatProperties, LenProperties DEF Images
<1>4. \A i \in 1..n : i \in DOMAIN all /\ all[i] = msgs[i]
  BY <1>1, <1>2, <1>3
<1>5. ASSUME NEW i \in DOMAIN all, i \notin 1..n PROVE all[i].key \notin SetupKeys
  <2>1. i - n \in DOMAIN Elements /\ all[i] = Elements[i - n]
    BY <1>1, <1>2, <1>3, <1>5
  <2> QED
    BY <2>1, ValuesAssumption
<1> HIDE DEF all, n
<1>6. \A i \in DOMAIN all : all[i].key # "password"
  BY <1>1, <1>4, <1>5, KeysFacts DEF Configs
<1>7. ASSUME NEW k \in Fields PROVE \E i \in DOMAIN all : At(all, k, i)
  <2>1. PICK i \in DOMAIN msgs : At(msgs, k, i)
    BY DEF Configs
  <2>2. At(all, k, i)
    BY <1>1, <1>4, <1>5, <2>1, KeysFacts DEF At
  <2> QED
    BY <2>2 DEF At
<1> QED
  BY <1>3, <1>6, <1>7 DEF Configs, all

LEMMA DefaultsStored == DefaultConfig \in Configs /\ DefaultSecrets \in Secrets
<1> DEFINE n == Len(DeviceFields)
           net == <<Message("options", 0, Station), Message("name", 0, DefaultName),
                    Message("ssid", 0, DefaultSsid)>>
<1>1. DefaultSecrets \in Secrets
  BY ChosenFacts DEF DefaultSecrets, Secrets
<1>2. DeviceFields \in Images /\ n \in Nat /\ DOMAIN DeviceFields = 1..n
  BY ImagesAssumption, ImageFacts
<1>3. net \in Images /\ Len(net) = 3
  BY MessageType, ChosenFacts, KeysFacts DEF Images
<1>4. /\ DefaultConfig \in Images /\ DOMAIN DefaultConfig = 1..(n + 3)
      /\ \A i \in 1..(n + 3) :
            DefaultConfig[i] = IF i <= n THEN DeviceFields[i] ELSE net[i - n]
  BY <1>2, <1>3, ConcatProperties, LenProperties DEF Images, DefaultConfig
<1>5. /\ DefaultConfig[n + 1] = Message("options", 0, Station)
      /\ DefaultConfig[n + 2] = Message("name", 0, DefaultName)
      /\ DefaultConfig[n + 3] = Message("ssid", 0, DefaultSsid)
  BY <1>2, <1>4
<1>6. \A i \in 1..n : DefaultConfig[i].key \notin SetupKeys
  BY <1>2, <1>4, ValuesAssumption
<1>7. DOMAIN DefaultConfig = 1..n \cup {n + 1, n + 2, n + 3} /\ n + 1 \notin 1..n
      /\ n + 2 \notin 1..n /\ n + 3 \notin 1..n /\ n + 1 # n + 2 /\ n + 2 # n + 3 /\ n + 1 # n + 3
  BY <1>2, <1>4
<1> HIDE DEF n, net
<1>8. \A i \in DOMAIN DefaultConfig : DefaultConfig[i].key # "password"
  BY <1>5, <1>6, <1>7, MessageType, ChosenFacts, KeysFacts
<1>9. /\ At(DefaultConfig, "options", n + 1)
      /\ At(DefaultConfig, "name", n + 2)
      /\ At(DefaultConfig, "ssid", n + 3)
  BY <1>5, <1>6, <1>7, MessageType, ChosenFacts, KeysFacts DEF At
<1> QED
  BY <1>1, <1>4, <1>7, <1>8, <1>9, KeysFacts DEF Configs

\* The message an update replaces is the only one of its field.
LEMMA Hit ==
    ASSUME NEW msgs, NEW k \in SetupKeys, NEW v \in Chosen, NEW i, At(msgs, k, i)
    PROVE  /\ Hits(msgs, Message(k, 0, v)) = {i}
           /\ FirstHit(msgs, Message(k, 0, v)) = i
           /\ Updated(msgs, Message(k, 0, v)) = [msgs EXCEPT ![i] = Message(k, 0, v)]
<1> DEFINE new == Message(k, 0, v)
<1>1. new.key = k /\ new.id = 0
  BY MessageType
<1> HIDE DEF new
<1>2. Hits(msgs, new) = {i}
  BY <1>1 DEF Hits, At
<1>3. FirstHit(msgs, new) = CHOOSE j \in {i} : \A l \in {i} : j <= l
  BY <1>2 DEF FirstHit
<1>4. FirstHit(msgs, new) = i
  BY <1>3
<1> QED
  BY <1>2, <1>4 DEF Updated, new

LEMMA UpdatedConfig ==
    \A msgs \in Configs : \A k \in Fields : \A v \in Chosen :
        Updated(msgs, Message(k, 0, v)) \in Configs
<1> TAKE msgs \in Configs
<1> TAKE k \in Fields
<1> TAKE v \in Chosen
<1> DEFINE new == Message(k, 0, v)
<1>1. new \in Messages /\ new.key = k /\ new.id = 0 /\ new.val = v
  BY MessageType, KeysFacts
<1>2. PICK i \in DOMAIN msgs : At(msgs, k, i)
  BY DEF Configs
<1>3. Updated(msgs, new) = [msgs EXCEPT ![i] = new]
  BY <1>2, Hit, KeysFacts
<1>4. msgs \in Images /\ i \in 1..Len(msgs) /\ DOMAIN msgs = 1..Len(msgs)
  BY <1>2, ImageFacts DEF Configs
<1> HIDE DEF new
<1> DEFINE next == [msgs EXCEPT ![i] = new]
<1>5. /\ next \in Images /\ DOMAIN next = DOMAIN msgs
      /\ next[i] = new /\ \A j \in DOMAIN msgs \ {i} : next[j] = msgs[j]
  BY <1>1, <1>4, ExceptSeq DEF Images
<1> HIDE DEF next
<1>6. \A j \in DOMAIN next : next[j].key = msgs[j].key
  BY <1>1, <1>2, <1>5 DEF At
<1>7. \A j \in DOMAIN next : next[j].key # "password"
  BY <1>5, <1>6 DEF Configs
<1>8. ASSUME NEW f \in Fields PROVE \E j \in DOMAIN next : At(next, f, j)
  <2>1. PICK j \in DOMAIN msgs : At(msgs, f, j)
    BY DEF Configs
  <2>2. At(next, f, j)
    BY <1>1, <1>5, <1>6, <2>1 DEF At
  <2> QED
    BY <2>2 DEF At
<1> QED
  BY <1>3, <1>5, <1>7, <1>8 DEF Configs, next, new

LEMMA UpdatedSecrets ==
    \A msgs \in Secrets : \A v \in Chosen :
        Updated(msgs, Message("password", 0, v)) \in Secrets
<1> TAKE msgs \in Secrets
<1> TAKE v \in Chosen
<1>1. PICK w \in Chosen : msgs = <<Message("password", 0, w)>>
  BY DEF Secrets
<1>2. At(msgs, "password", 1)
  BY <1>1, MessageType, KeysFacts DEF At
<1>3. Updated(msgs, Message("password", 0, v)) = [msgs EXCEPT ![1] = Message("password", 0, v)]
  BY <1>2, Hit, KeysFacts
<1>4. [msgs EXCEPT ![1] = Message("password", 0, v)] = <<Message("password", 0, v)>>
  BY <1>1
<1> QED
  BY <1>3, <1>4 DEF Secrets

\* A boot finds a value for every field.
LEMMA LoadedWhole ==
    ASSUME flash["config"] \in Configs, flash["secrets"] \in Secrets
    PROVE  Loaded \in [SetupKeys -> Chosen]
<1> DEFINE c == flash["config"]
           s == flash["secrets"]
           first == Unmarshalled(setup, c)
<1>1. ASSUME NEW k \in Fields PROVE Loaded[k] \in Chosen
  <2>1. PICK i \in DOMAIN c : At(c, k, i)
    BY DEF Configs
  <2>2. ValuesIn(c, k) = {i} /\ c[i].val \in Chosen
    BY <2>1 DEF ValuesIn, At
  <2>3. ValuesIn(s, k) = {}
    BY KeysFacts, MessageType DEF Secrets, ValuesIn
  <2>4. (CHOOSE l \in {i} : \A j \in {i} : j <= l) = i
    BY ImageFacts DEF Configs
  <2>5. first[k] = c[i].val
    BY <2>2, <2>4, KeysFacts DEF Unmarshalled
  <2>6. Loaded[k] = first[k]
    BY <2>3, KeysFacts DEF Loaded, Unmarshalled
  <2> QED
    BY <2>2, <2>5, <2>6
<1>2. Loaded["password"] \in Chosen
  <2>1. PICK w \in Chosen : s = <<Message("password", 0, w)>>
    BY DEF Secrets
  <2>2. ValuesIn(s, "password") = {1} /\ s[1].val = w
    BY <2>1, MessageType, KeysFacts DEF ValuesIn
  <2>3. (CHOOSE l \in {1} : \A j \in {1} : j <= l) = 1
    OBVIOUS
  <2>4. Loaded["password"] = w
    BY <2>2, <2>3, KeysFacts DEF Loaded, Unmarshalled
  <2> QED
    BY <2>1, <2>4
<1>3. Loaded = [k \in SetupKeys |-> Loaded[k]]
  BY DEF Loaded, Unmarshalled
<1> QED
  BY <1>1, <1>2, <1>3, KeysFacts

-----------------------------------------------------------------------------
(* The inductive invariant *)

Operation(r) == [region : {r}, msgs : {Blank} \cup (IF r = "config" THEN Configs ELSE Secrets)]
Operations == Operation("config") \cup Operation("secrets")

Uploads ==
    {Packet("upgrade", <<>>)} \cup {Packet("save", msgs) : msgs \in Configs}
        \cup {Packet("update_config", <<Message(k, 0, v)>>) : k \in Fields, v \in Chosen}
        \cup {Packet("update_secrets", <<Message("password", 0, v)>>) : v \in Chosen}
Downloads == {Packet("upgraded", <<>>)} \cup {Packet("config", msgs) : msgs \in Configs}

\* Every image is where it belongs.
Placed ==
    /\ flash \in [Regions -> Configs \cup Secrets \cup {Blank}]
    /\ flash["config"] \in Configs \cup {Blank} /\ flash["secrets"] \in Secrets \cup {Blank}
    /\ writes \in Seq(Operations)
    /\ gfig \in [Browsers -> Configs \cup {Missing}]
    /\ up \in [Browsers -> Seq(Uploads)]
    /\ down \in [Browsers -> Seq(Downloads)]

\* A region has an image once the function that is running has returned.
Filled(r) ==
    \/ flash[r] # Blank /\ \A i \in DOMAIN writes : writes[i].region # r
    \/ \E i \in DOMAIN writes :
          /\ writes[i].region = r /\ writes[i].msgs # Blank
          /\ \A j \in DOMAIN writes : j > i => writes[j].region # r

\* Whoever serves has been through a boot with both regions filled.
Booted ==
    /\ mode \in {"off", "boot", "join", "serving", "halted"}
    /\ setup \in [SetupKeys -> Values \cup {Missing}]
    /\ mode # "off" => Filled("config")
    /\ mode \in {"join", "serving"} => Filled("secrets") /\ \A k \in SetupKeys : setup[k] # Missing

Counted ==
    /\ retries \in 0..MaxRetries
    /\ sock \in [Browsers -> {"closed", "connecting", "open"}]

SettingsInv == Placed /\ Booted /\ Counted

\* What is stored once nothing is being written.
LEMMA FilledStored ==
    ASSUME Placed, writes = <<>>
    PROVE  /\ Filled("config") => flash["config"] \in Configs
           /\ Filled("secrets") => flash["secrets"] \in Secrets
BY DEF Placed, Filled

LEMMA WriteFills ==
    ASSUME writes = <<>>, flash' = flash,
           NEW r \in Regions, NEW msgs, msgs # Blank, writes' = Write(r, msgs)
    PROVE  Filled(r)' /\ \A q \in Regions \ {r} : Filled(q) => Filled(q)'
<1>1. /\ DOMAIN writes' = {1, 2} /\ writes'[2].region = r /\ writes'[2].msgs = msgs
      /\ writes'[1].region = r
  BY DEF Write
<1>2. Filled(r)'
  BY <1>1 DEF Filled
<1>3. \A q \in Regions \ {r} : Filled(q) => Filled(q)'
  BY <1>1 DEF Filled
<1> QED
  BY <1>2, <1>3

LEMMA WriteType ==
    /\ \A msgs \in Configs : Write("config", msgs) \in Seq(Operations)
    /\ \A msgs \in Secrets : Write("secrets", msgs) \in Seq(Operations)
BY DEF Write, Operations, Operation

\* A flash operation does what its function still had to do first.
LEMMA FlashStepInv == ASSUME SettingsInv, FlashStep PROVE SettingsInv'
<1> DEFINE w == Head(writes)
           n == Len(writes)
<1>1. /\ writes \in Seq(Operations) /\ writes # <<>> /\ writes' = Tail(writes)
      /\ flash' = [flash EXCEPT ![w.region] = w.msgs]
  BY DEF SettingsInv, Placed, FlashStep
<1>2. /\ w \in Operations /\ w = writes[1] /\ writes' \in Seq(Operations)
      /\ n \in Nat \ {0} /\ DOMAIN writes = 1..n /\ DOMAIN writes' = 1..(n - 1)
      /\ \A i \in 1..(n - 1) : writes'[i] = writes[i + 1]
  BY <1>1, HeadTailProperties, LenProperties, EmptySeq
<1>3. /\ w.region \in Regions
      /\ w.region = "config" => w.msgs \in Configs \cup {Blank}
      /\ w.region = "secrets" => w.msgs \in Secrets \cup {Blank}
  BY <1>2 DEF Operations, Operation, Regions
<1> HIDE DEF w, n
<1>4. \A r \in Regions : flash'[r] = IF r = w.region THEN w.msgs ELSE flash[r]
  BY <1>1, <1>3 DEF SettingsInv, Placed
<1>5. Placed'
  BY <1>1, <1>2, <1>3, <1>4 DEF FlashStep, pages, SettingsInv, Placed, Regions
<1>6. ASSUME NEW r \in Regions, Filled(r) PROVE Filled(r)'
  <2>1. CASE \E i \in DOMAIN writes :
                 /\ writes[i].region = r /\ writes[i].msgs # Blank
                 /\ \A j \in DOMAIN writes : j > i => writes[j].region # r
    <3>1. PICK i \in DOMAIN writes :
                 /\ writes[i].region = r /\ writes[i].msgs # Blank
                 /\ \A j \in DOMAIN writes : j > i => writes[j].region # r
      BY <2>1
    <3>2. CASE i = 1
      BY <1>2, <1>4, <3>1, <3>2 DEF Filled
    <3>3. CASE i # 1
      <4>1. i - 1 \in DOMAIN writes' /\ writes'[i - 1] = writes[i]
        BY <1>2, <3>3
      <4>2. \A j \in DOMAIN writes' : j > i - 1 => writes'[j].region # r
        BY <1>2, <3>1, SMTT(30)
      <4> QED
        BY <3>1, <4>1, <4>2 DEF Filled
    <3> QED
      BY <3>2, <3>3
  <2>2. CASE flash[r] # Blank /\ \A i \in DOMAIN writes : writes[i].region # r
    <3>1. w.region # r /\ flash'[r] # Blank
      BY <1>2, <1>4, <2>2
    <3>2. \A i \in DOMAIN writes' : writes'[i].region # r
      BY <1>2, <2>2
    <3> QED
      BY <3>1, <3>2 DEF Filled
  <2> QED
    BY <1>6, <2>1, <2>2 DEF Filled
<1>7. Booted'
  BY <1>6 DEF FlashStep, SettingsInv, Booted, Regions
<1>8. Counted'
  BY DEF FlashStep, pages, SettingsInv, Counted
<1> QED
  BY <1>5, <1>7, <1>8 DEF SettingsInv

\* A step that writes nothing leaves the regions as filled as they were.
LEMMA FilledStays == UNCHANGED <<flash, writes>> => \A r \in Regions : Filled(r)' = Filled(r)
BY DEF Filled

LEMMA PowerOnInv == ASSUME SettingsInv, PowerOn PROVE SettingsInv'
<1>1. CASE flash["config"] = Blank
  <2> DEFINE w == Write("config", DefaultConfig) \o Write("secrets", DefaultSecrets)
  <2>1. writes' = w /\ flash' = flash
    BY <1>1 DEF PowerOn
  <2>2. w \in Seq(Operations)
    BY DefaultsStored, WriteType, ConcatProperties
  <2>3. /\ DOMAIN w = {1, 2, 3, 4} /\ w[2].region = "config" /\ w[2].msgs = DefaultConfig
        /\ w[3].region = "secrets" /\ w[4].region = "secrets"
    BY DEF Write
  <2>4. DefaultConfig # Blank
    BY DefaultsStored, Stored
  <2> HIDE DEF w
  <2>5. Filled("config")'
    BY <2>1, <2>3, <2>4 DEF Filled
  <2> QED
    BY <2>1, <2>2, <2>5 DEF PowerOn, pages, SettingsInv, Placed, Booted, Counted
<1>2. CASE flash["config"] # Blank
  <2>1. writes' = <<>> /\ flash' = flash
    BY <1>2 DEF PowerOn
  <2>2. Filled("config")'
    BY <1>2, <2>1 DEF Filled
  <2>3. <<>> \in Seq(Operations)
    OBVIOUS
  <2> QED
    BY <2>1, <2>2, <2>3 DEF PowerOn, pages, SettingsInv, Placed, Booted, Counted
<1> QED
  BY <1>1, <1>2

LEMMA UnmarshalInv == ASSUME SettingsInv, Unmarshal PROVE SettingsInv'
<1>1. /\ mode = "boot" /\ writes = <<>> /\ UNCHANGED <<flash, writes, retries, pages>>
      /\ flash["config"] \in Configs
  BY FilledStored DEF SettingsInv, Booted, Unmarshal
<1>2. Placed' /\ Counted'
  BY <1>1 DEF SettingsInv, Placed, Counted, pages
<1>3. CASE flash["secrets"] = Blank
  <2>1. mode' = "halted" /\ setup' = setup
    BY <1>3 DEF Unmarshal
  <2> QED
    BY <1>1, <1>2, <2>1, FilledStays DEF SettingsInv, Booted, Regions
<1>4. CASE flash["secrets"] # Blank
  <2>1. setup' = Loaded /\ mode' \in {"serving", "join"}
    BY <1>4 DEF Unmarshal
  <2>2. flash["secrets"] \in Secrets
    BY <1>4 DEF SettingsInv, Placed
  <2>3. setup' \in [SetupKeys -> Chosen]
    BY <1>1, <2>1, <2>2, LoadedWhole
  <2>4. Filled("secrets")' /\ Filled("config")'
    BY <1>1, <1>4, FilledStays DEF Filled, SettingsInv, Booted, Regions
  <2>5. Booted'
    BY <2>1, <2>3, <2>4 DEF Booted, Chosen
  <2> QED
    BY <1>2, <2>5 DEF SettingsInv
<1> QED
  BY <1>3, <1>4

LEMMA JoinInv == ASSUME SettingsInv, JoinFails \/ JoinSucceeds PROVE SettingsInv'
<1>1. /\ UNCHANGED <<flash, writes, setup, pages>>
      /\ mode = "join" /\ mode' \in {"join", "halted", "serving"}
  BY DEF JoinFails, JoinSucceeds
<1>2. retries' \in 0..MaxRetries
  BY BoundsAssumption DEF JoinFails, JoinSucceeds, MayRetry, Retried, SettingsInv, Counted
<1>3. Placed' /\ Counted'
  BY <1>1, <1>2 DEF SettingsInv, Placed, Counted, pages
<1>4. Booted'
  BY <1>1, FilledStays DEF SettingsInv, Booted, Regions
<1> QED
  BY <1>3, <1>4 DEF SettingsInv

LEMMA PowerCutInv == ASSUME SettingsInv, PowerCut PROVE SettingsInv'
<1>1. /\ <<>> \in Seq(Operations) /\ <<>> \in Seq(Uploads) /\ <<>> \in Seq(Downloads)
      /\ 0 \in 0..MaxRetries
  BY BoundsAssumption
<1>2. Placed'
  BY <1>1 DEF PowerCut, SettingsInv, Placed
<1>3. Booted' /\ Counted'
  BY <1>1 DEF PowerCut, SettingsInv, Booted, Counted
<1> QED
  BY <1>2, <1>3 DEF SettingsInv

-----------------------------------------------------------------------------
(* Packets *)

LEMMA UploadKinds ==
    \A p \in Uploads :
        /\ p.kind = "save" => p.msgs \in Configs
        /\ p.kind = "update_config" =>
               \E k \in Fields, v \in Chosen : p.msgs[1] = Message(k, 0, v)
        /\ p.kind = "update_secrets" =>
               \E v \in Chosen : p.msgs[1] = Message("password", 0, v)
BY DEF Uploads, Packet

\* A packet is taken from those on their way.
LEMMA Received ==
    ASSUME SettingsInv, NEW b \in Browsers, Receiving(b)
    PROVE  /\ Head(up[b]) \in Uploads /\ up' \in [Browsers -> Seq(Uploads)] /\ writes = <<>>
           /\ mode = "serving" /\ flash["config"] \in Configs /\ flash["secrets"] \in Secrets
           /\ Filled("config") /\ Filled("secrets")
           /\ UNCHANGED <<flash, mode, setup, retries, sock, gfig>>
<1>1. up[b] \in Seq(Uploads) /\ up[b] # <<>>
  BY DEF SettingsInv, Placed, Receiving
<1>2. Head(up[b]) \in Uploads /\ Tail(up[b]) \in Seq(Uploads)
  BY <1>1, HeadTailProperties
<1>3. up' \in [Browsers -> Seq(Uploads)]
  BY <1>2 DEF SettingsInv, Placed, Receiving
<1>4. mode = "serving" /\ writes = <<>> /\ Filled("config") /\ Filled("secrets")
  BY DEF Receiving, SettingsInv, Booted
<1>5. flash["config"] \in Configs /\ flash["secrets"] \in Secrets
  BY <1>4, FilledStored DEF SettingsInv
<1> QED
  BY <1>2, <1>3, <1>4, <1>5 DEF Receiving

LEMMA UpgradeInv == ASSUME SettingsInv, NEW b \in Browsers, Upgrade(b) PROVE SettingsInv'
<1>1. Receiving(b) /\ writes' = writes
  BY DEF Upgrade
<1> DEFINE answer == <<Packet("upgraded", <<>>), Packet("config", flash["config"])>>
<1>2. answer \in Seq(Downloads)
  BY <1>1, Received DEF Downloads
<1>3. down[b] \in Seq(Downloads)
  BY DEF SettingsInv, Placed
<1>4. down' = [down EXCEPT ![b] = down[b] \o answer]
  BY DEF Upgrade
<1> HIDE DEF answer
<1>5. down' \in [Browsers -> Seq(Downloads)]
  BY <1>2, <1>3, <1>4, ConcatProperties DEF SettingsInv, Placed
<1>6. Placed'
  BY <1>1, <1>5, Received DEF SettingsInv, Placed
<1>7. Booted' /\ Counted'
  BY <1>1, Received, FilledStays DEF SettingsInv, Booted, Counted, Regions
<1> QED
  BY <1>6, <1>7 DEF SettingsInv

\* Writing an image where it belongs.
LEMMA WritingInv ==
    ASSUME SettingsInv, NEW b \in Browsers, Receiving(b), down' = down,
           \/ writes' = <<>>
           \/ \E msgs \in Configs : writes' = Write("config", msgs)
           \/ \E msgs \in Secrets : writes' = Write("secrets", msgs)
    PROVE  SettingsInv'
<1>1. writes' \in Seq(Operations)
  <2>1. <<>> \in Seq(Operations)
    OBVIOUS
  <2> QED
    BY <2>1, WriteType
<1>2. Placed' /\ Counted'
  BY <1>1, Received DEF SettingsInv, Placed, Counted
<1>3. Filled("config")' /\ Filled("secrets")'
  <2>1. CASE writes' = <<>>
    BY <2>1, Received, FilledStays DEF Regions
  <2>2. ASSUME NEW msgs \in Configs, writes' = Write("config", msgs)
        PROVE  Filled("config")' /\ Filled("secrets")'
    BY <2>2, Received, WriteFills, Stored DEF Regions
  <2>3. ASSUME NEW msgs \in Secrets, writes' = Write("secrets", msgs)
        PROVE  Filled("config")' /\ Filled("secrets")'
    BY <2>3, Received, WriteFills, Stored DEF Regions
  <2> QED
    BY <2>1, <2>2, <2>3
<1>4. Booted'
  BY <1>3, Received DEF SettingsInv, Booted
<1> QED
  BY <1>2, <1>4 DEF SettingsInv

LEMMA ApplyConfigInv == ASSUME SettingsInv, NEW b \in Browsers, ApplyConfig(b) PROVE SettingsInv'
<1>1. Receiving(b) /\ down' = down /\ writes' = Write("config", Head(up[b]).msgs)
  BY DEF ApplyConfig
<1>2. Head(up[b]).msgs \in Configs
  BY <1>1, Received, UploadKinds DEF ApplyConfig
<1> QED
  BY <1>1, <1>2, WritingInv

LEMMA UpdateFieldInv == ASSUME SettingsInv, NEW b \in Browsers, UpdateField(b) PROVE SettingsInv'
<1> DEFINE p == Head(up[b])
<1>1. /\ Receiving(b) /\ down' = down /\ p \in Uploads
      /\ p.kind \in {"update_config", "update_secrets"}
      /\ writes' = UpdateWrites(p.kind, p.msgs[1])
  BY Received DEF UpdateField
<1> HIDE DEF p
<1>2. CASE p.kind = "update_config"
  <2>1. PICK k \in Fields, v \in Chosen : p.msgs[1] = Message(k, 0, v)
    BY <1>1, <1>2, UploadKinds
  <2>2. writes' \in {<<>>, Write("config", Updated(flash["config"], Message(k, 0, v)))}
    BY <1>1, <1>2, <2>1 DEF UpdateWrites, ReadRegion, ProgramRegion
  <2>3. Updated(flash["config"], Message(k, 0, v)) \in Configs
    BY <1>1, Received, UpdatedConfig
  <2> QED
    BY <1>1, <2>2, <2>3, WritingInv
<1>3. CASE p.kind = "update_secrets"
  <2>1. PICK v \in Chosen : p.msgs[1] = Message("password", 0, v)
    BY <1>1, <1>3, UploadKinds
  <2>2. writes' \in {<<>>, Write("secrets", Updated(flash["secrets"], Message("password", 0, v)))}
    BY <1>1, <1>3, <2>1 DEF UpdateWrites, ReadRegion, ProgramRegion
  <2>3. Updated(flash["secrets"], Message("password", 0, v)) \in Secrets
    BY <1>1, Received, UpdatedSecrets
  <2> QED
    BY <1>1, <2>2, <2>3, WritingInv
<1> QED
  BY <1>1, <1>2, <1>3

LEMMA DeviceInv == ASSUME SettingsInv, Device PROVE SettingsInv'
<1>1. CASE FlashStep
  BY <1>1, FlashStepInv
<1>2. CASE PowerOn
  BY <1>2, PowerOnInv
<1>3. CASE Unmarshal
  BY <1>3, UnmarshalInv
<1>4. CASE JoinFails \/ JoinSucceeds
  BY <1>4, JoinInv
<1>5. CASE \E b \in Browsers : Upgrade(b) \/ ApplyConfig(b) \/ UpdateField(b)
  BY <1>5, UpgradeInv, ApplyConfigInv, UpdateFieldInv
<1> QED
  BY <1>1, <1>2, <1>3, <1>4, <1>5 DEF Device

-----------------------------------------------------------------------------
(* Pages *)

\* What a page does leaves the device alone.
LEMMA PageKeeps ==
    ASSUME SettingsInv, UNCHANGED device,
           sock' \in [Browsers -> {"closed", "connecting", "open"}],
           gfig' \in [Browsers -> Configs \cup {Missing}],
           up' \in [Browsers -> Seq(Uploads)], down' \in [Browsers -> Seq(Downloads)]
    PROVE  SettingsInv'
<1>1. UNCHANGED <<flash, writes, mode, setup, retries>>
  BY DEF device
<1>2. Placed' /\ Counted'
  BY <1>1 DEF SettingsInv, Placed, Counted
<1>3. Booted'
  BY <1>1, FilledStays DEF SettingsInv, Booted, Regions
<1> QED
  BY <1>2, <1>3 DEF SettingsInv

LEMMA PageTypes ==
    ASSUME SettingsInv
    PROVE  /\ sock \in [Browsers -> {"closed", "connecting", "open"}]
           /\ gfig \in [Browsers -> Configs \cup {Missing}]
           /\ up \in [Browsers -> Seq(Uploads)] /\ down \in [Browsers -> Seq(Downloads)]
BY DEF SettingsInv, Placed, Counted

LEMMA AppendUpload ==
    ASSUME SettingsInv, NEW b \in Browsers, NEW p \in Uploads,
           up' = [up EXCEPT ![b] = Append(@, p)]
    PROVE  up' \in [Browsers -> Seq(Uploads)]
<1>1. up[b] \in Seq(Uploads)
  BY PageTypes
<1>2. Append(up[b], p) \in Seq(Uploads)
  BY <1>1, AppendProperties
<1> QED
  BY <1>2, PageTypes

LEMMA SendInv ==
    ASSUME SettingsInv, NEW b \in Browsers, NEW p \in Uploads, Send(b, p)
    PROVE  SettingsInv'
<1>1. up' = [up EXCEPT ![b] = Append(@, p)] /\ UNCHANGED <<device, sock, gfig, down>>
  BY DEF Send
<1>2. up' \in [Browsers -> Seq(Uploads)]
  BY <1>1, AppendUpload
<1> QED
  BY <1>1, <1>2, PageKeeps, PageTypes

LEMMA ReceiveTypes ==
    ASSUME SettingsInv, NEW b \in Browsers, Receive(b)
    PROVE  /\ Head(down[b]) \in Downloads /\ down' \in [Browsers -> Seq(Downloads)]
           /\ UNCHANGED <<device, up>>
<1>1. down[b] \in Seq(Downloads) /\ down[b] # <<>>
  BY PageTypes DEF Receive
<1>2. Head(down[b]) \in Downloads /\ Tail(down[b]) \in Seq(Downloads)
  BY <1>1, HeadTailProperties
<1> QED
  BY <1>2, PageTypes DEF Receive

LEMMA PageInv == ASSUME SettingsInv, NEW b \in Browsers, Page(b) PROVE SettingsInv'
<1> DEFINE Socks == {"closed", "connecting", "open"}
<1>1. CASE Connect(b)
  <2>1. Packet("upgrade", <<>>) \in Uploads
    BY DEF Uploads
  <2>2. up' \in [Browsers -> Seq(Uploads)]
    BY <1>1, <2>1, AppendUpload DEF Connect
  <2>3. sock' \in [Browsers -> Socks] /\ UNCHANGED <<device, gfig, down>>
    BY <1>1, PageTypes DEF Connect
  <2> QED
    BY <2>2, <2>3, PageKeeps, PageTypes
<1>2. CASE Opened(b)
  <2>1. sock' \in [Browsers -> Socks] /\ gfig' = gfig
    BY <1>2, PageTypes DEF Opened
  <2> QED
    BY <1>2, <2>1, ReceiveTypes, PageKeeps, PageTypes DEF Opened
<1>3. CASE Configured(b)
  <2>1. Head(down[b]) \in Downloads /\ Head(down[b]).kind = "config"
    BY <1>3, ReceiveTypes DEF Configured
  <2>2. Head(down[b]).msgs \in Configs
    BY <2>1 DEF Downloads, Packet
  <2>3. gfig' \in [Browsers -> Configs \cup {Missing}] /\ sock' = sock
    BY <1>3, <2>2, PageTypes DEF Configured
  <2> QED
    BY <1>3, <2>3, ReceiveTypes, PageKeeps, PageTypes DEF Configured
<1>4. CASE Save(b)
  <2>1. gfig[b] \in Configs /\ Send(b, Packet("save", gfig[b] \o Elements))
    BY <1>4, PageTypes DEF Save
  <2>2. Packet("save", gfig[b] \o Elements) \in Uploads
    BY <2>1, SavedConfig DEF Uploads
  <2> QED
    BY <2>1, <2>2, SendInv
<1>5. CASE Disconnect(b)
  <2>1. sock' \in [Browsers -> Socks] /\ UNCHANGED <<device, gfig, up>>
    BY <1>5, PageTypes DEF Disconnect
  <2>2. <<>> \in Seq(Downloads)
    OBVIOUS
  <2>3. down' \in [Browsers -> Seq(Downloads)]
    BY <1>5, <2>2, PageTypes DEF Disconnect
  <2> QED
    BY <2>1, <2>3, PageKeeps, PageTypes
<1>6. CASE Reload(b)
  <2>1. /\ sock' \in [Browsers -> Socks] /\ gfig' \in [Browsers -> Configs \cup {Missing}]
        /\ UNCHANGED <<device, up>>
    BY <1>6, PageTypes DEF Reload
  <2>2. <<>> \in Seq(Downloads)
    OBVIOUS
  <2>3. down' \in [Browsers -> Seq(Downloads)]
    BY <1>6, <2>2, PageTypes DEF Reload
  <2> QED
    BY <2>1, <2>3, PageKeeps, PageTypes
<1>7. ASSUME NEW e \in Edits, Edit(b, e) PROVE SettingsInv'
  <2> DEFINE p == Packet(IF e.key = "password" THEN "update_secrets" ELSE "update_config",
                         <<Message(e.key, 0, e.val)>>)
  <2>1. e.key \in SetupKeys /\ e.val \in Chosen
    BY ChosenFacts
  <2>2. p \in Uploads
    BY <2>1, KeysFacts DEF Uploads
  <2> QED
    BY <1>7, <2>2, SendInv DEF Edit
<1> QED
  BY <1>1, <1>2, <1>3, <1>4, <1>5, <1>6, <1>7 DEF Page

-----------------------------------------------------------------------------
(* What follows *)

LEMMA InvInit == Init => SettingsInv
<1> SUFFICES ASSUME Init PROVE SettingsInv
  OBVIOUS
<1>1. /\ <<>> \in Seq(Operations) /\ <<>> \in Seq(Uploads) /\ <<>> \in Seq(Downloads)
      /\ 0 \in 0..MaxRetries
  BY BoundsAssumption
<1>2. Placed
  BY <1>1 DEF Init, Placed, Regions
<1>3. Booted /\ Counted
  BY <1>1 DEF Init, Booted, Counted
<1> QED
  BY <1>2, <1>3 DEF SettingsInv

LEMMA InvNext == SettingsInv /\ [Next]_vars => SettingsInv'
<1> SUFFICES ASSUME SettingsInv, [Next]_vars PROVE SettingsInv'
  OBVIOUS
<1>1. CASE Device
  BY <1>1, DeviceInv
<1>2. CASE PowerCut
  BY <1>2, PowerCutInv
<1>3. CASE \E b \in Browsers : Page(b)
  BY <1>3, PageInv
<1>4. CASE UNCHANGED vars
  BY <1>4, PageKeeps, PageTypes DEF vars, pages, device
<1> QED
  BY <1>1, <1>2, <1>3, <1>4 DEF Next

\* Packets and operations carry images.
LEMMA CarriedImages ==
    /\ \A p \in Uploads :
          /\ p \in [kind : {"upgrade", "save", "update_config", "update_secrets"}, msgs : Images]
          /\ p.msgs \in Configs \/ Len(p.msgs) \in {0, 1}
    /\ \A p \in Downloads : /\ p \in [kind : {"upgraded", "config"}, msgs : Images]
                             /\ p.msgs \in Configs \cup {<<>>}
    /\ \A w \in Operations : w \in [region : Regions, msgs : Images \cup {Blank}]
<1>1. <<>> \in Images /\ Len(<<>>) = 0
  BY DEF Images
<1>2. ASSUME NEW k \in SetupKeys, NEW v \in Chosen
      PROVE  <<Message(k, 0, v)>> \in Images /\ Len(<<Message(k, 0, v)>>) = 1
  <2>1. Message(k, 0, v) \in Messages
    BY MessageType
  <2> QED
    BY <2>1 DEF Images
<1>3. \A w \in Operations : w \in [region : Regions, msgs : Images \cup {Blank}]
  BY Stored DEF Operations, Operation, Regions
<1>4. \A p \in Downloads : /\ p \in [kind : {"upgraded", "config"}, msgs : Images]
                           /\ p.msgs \in Configs \cup {<<>>}
  BY <1>1, Stored DEF Downloads, Packet
<1>5. ASSUME NEW p \in Uploads
      PROVE  /\ p \in [kind : {"upgrade", "save", "update_config", "update_secrets"}, msgs : Images]
             /\ p.msgs \in Configs \/ Len(p.msgs) \in {0, 1}
  <2>1. /\ p.kind \in {"upgrade", "save", "update_config", "update_secrets"}
        /\ p = [kind |-> p.kind, msgs |-> p.msgs]
    BY DEF Uploads, Packet
  <2>2. p.msgs \in Configs \/ (p.msgs \in Images /\ Len(p.msgs) \in {0, 1})
    <3>1. \/ p.msgs = <<>> \/ p.msgs \in Configs
          \/ \E k \in SetupKeys, v \in Chosen : p.msgs = <<Message(k, 0, v)>>
      BY KeysFacts DEF Uploads, Packet
    <3> QED
      BY <1>1, <1>2, <3>1
  <2> QED
    BY <2>1, <2>2, Stored
<1> QED
  BY <1>3, <1>4, <1>5

LEMMA InvTypes == SettingsInv => TypeOK
<1> SUFFICES ASSUME SettingsInv PROVE TypeOK
  OBVIOUS
<1> DEFINE Up == [kind : {"upgrade", "save", "update_config", "update_secrets"}, msgs : Images]
           Down == [kind : {"upgraded", "config"}, msgs : Images]
<1>1. flash \in [Regions -> Images \cup {Blank}] /\ gfig \in [Browsers -> Images \cup {Missing}]
  BY Stored DEF SettingsInv, Placed
<1>2. writes \in Seq([region : Regions, msgs : Images \cup {Blank}])
  <2>1. Operations \subseteq [region : Regions, msgs : Images \cup {Blank}]
    BY CarriedImages
  <2> QED
    BY <2>1, SeqMonotonic DEF SettingsInv, Placed
<1>3. Uploads \subseteq Up /\ Downloads \subseteq Down
  BY CarriedImages
<1> HIDE DEF Up, Down
<1>4. \A b \in Browsers : up[b] \in Seq(Up) /\ down[b] \in Seq(Down)
  BY <1>3, SeqMonotonic, PageTypes
<1>5. up \in [Browsers -> Seq(Up)] /\ down \in [Browsers -> Seq(Down)]
  BY <1>4, PageTypes
<1> QED
  BY <1>1, <1>2, <1>5 DEF SettingsInv, Booted, Counted, TypeOK, Up, Down

\* Every image is one of the two regions', one message or none.
LEMMA KindsOfImages ==
    ASSUME SettingsInv, NEW msgs \in AllImages
    PROVE  msgs \in Configs \/ (msgs \in Images /\ Len(msgs) \in {0, 1})
<1> DEFINE Kind(m) == m \in Configs \/ (m \in Images /\ Len(m) \in {0, 1})
<1>1. \A m \in Secrets : Kind(m)
  <2>1. \A m \in Secrets : Len(m) = 1
    BY DEF Secrets
  <2> QED
    BY <2>1, Stored
<1>2. \A r \in Regions : flash[r] # Blank => Kind(flash[r])
  BY <1>1 DEF SettingsInv, Placed, Regions
<1>3. \A i \in DOMAIN writes : writes[i].msgs # Blank => Kind(writes[i].msgs)
  <2>1. \A i \in DOMAIN writes : writes[i] \in Operations
    BY ElementOfSeq, LenProperties DEF SettingsInv, Placed
  <2> QED
    BY <1>1, <2>1 DEF Operations, Operation
<1>4. \A b \in Browsers : gfig[b] # Missing => Kind(gfig[b])
  BY PageTypes
<1>5. ASSUME NEW b \in Browsers, NEW i \in DOMAIN up[b] PROVE Kind(up[b][i].msgs)
  <2>1. up[b] \in Seq(Uploads)
    BY PageTypes
  <2>2. up[b][i] \in Uploads
    BY <2>1, ElementOfSeq, LenProperties
  <2> QED
    BY <2>2, CarriedImages
<1>6. ASSUME NEW b \in Browsers, NEW i \in DOMAIN down[b] PROVE Kind(down[b][i].msgs)
  <2>1. down[b] \in Seq(Downloads)
    BY PageTypes
  <2>2. down[b][i] \in Downloads
    BY <2>1, ElementOfSeq, LenProperties
  <2>3. Len(<<>>) = 0
    OBVIOUS
  <2> QED
    BY <2>2, <2>3, CarriedImages
<1> HIDE DEF Kind
<1>7. Kind(msgs)
  <2> DEFINE InFlash == {flash[r] : r \in Regions}
             Written == {writes[i].msgs : i \in DOMAIN writes}
             Shown == {gfig[b] : b \in Browsers}
             Sent == UNION {{up[b][i].msgs : i \in DOMAIN up[b]} : b \in Browsers}
             Served == UNION {{down[b][i].msgs : i \in DOMAIN down[b]} : b \in Browsers}
  <2>0. AllImages = (InFlash \cup Written \cup Shown \cup Sent \cup Served) \ {Blank, Missing}
    BY DEF AllImages
  <2>1. msgs # Blank /\ msgs # Missing
    BY <2>0
  <2>2. CASE msgs \in InFlash
    BY <1>2, <2>1, <2>2
  <2>3. CASE msgs \in Written
    BY <1>3, <2>1, <2>3
  <2>4. CASE msgs \in Shown
    BY <1>4, <2>1, <2>4
  <2>5. CASE msgs \in Sent
    <3>1. PICK b \in Browsers : msgs \in {up[b][i].msgs : i \in DOMAIN up[b]}
      BY <2>5
    <3> QED
      BY <1>5, <3>1
  <2>6. CASE msgs \in Served
    <3>1. PICK b \in Browsers : msgs \in {down[b][i].msgs : i \in DOMAIN down[b]}
      BY <2>6
    <3> QED
      BY <1>6, <3>1
  <2> HIDE DEF InFlash, Written, Shown, Sent, Served
  <2> QED
    BY <2>0, <2>2, <2>3, <2>4, <2>5, <2>6
<1> QED
  BY <1>7 DEF Kind

LEMMA InvUnique == SettingsInv => NetKeysUnique
<1> SUFFICES ASSUME SettingsInv, NEW msgs \in AllImages, NEW i \in DOMAIN msgs,
                    NEW j \in DOMAIN msgs, msgs[i].key \in SetupKeys, msgs[i].key = msgs[j].key
             PROVE  i = j
  BY DEF NetKeysUnique
<1>1. CASE msgs \in Configs
  <2>1. msgs[i].key \in Fields
    BY <1>1, KeysFacts DEF Configs
  <2>2. PICK n \in DOMAIN msgs : At(msgs, msgs[i].key, n)
    BY <1>1, <2>1 DEF Configs
  <2> QED
    BY <2>2 DEF At
<1>2. CASE msgs \in Images /\ Len(msgs) \in {0, 1}
  <2>1. DOMAIN msgs = 1..Len(msgs)
    BY <1>2, ImageFacts
  <2> QED
    BY <1>2, <2>1
<1> QED
  BY <1>1, <1>2, KindsOfImages

LEMMA InvPrivate == SettingsInv => PasswordPrivate
<1> SUFFICES ASSUME SettingsInv PROVE PasswordPrivate
  OBVIOUS
<1> DEFINE Open(m) == m \notin {Blank, Missing} => \A i \in DOMAIN m : m[i].key # "password"
<1>1. \A m \in Configs : Open(m)
  BY DEF Configs
<1>2. Open(<<>>)
  OBVIOUS
<1>3. Open(flash["config"]) /\ \A b \in Browsers : Open(gfig[b])
  BY <1>1, PageTypes DEF SettingsInv, Placed
<1>4. ASSUME NEW b \in Browsers, NEW i \in DOMAIN down[b] PROVE Open(down[b][i].msgs)
  <2>1. down[b] \in Seq(Downloads)
    BY PageTypes
  <2>2. down[b][i] \in Downloads
    BY <2>1, ElementOfSeq, LenProperties
  <2>3. down[b][i].msgs \in Configs \cup {<<>>}
    BY <2>2, CarriedImages
  <2> HIDE DEF Open
  <2> QED
    BY <1>1, <1>2, <2>3
<1> HIDE DEF Open
<1>5. \A m \in {flash["config"]} \cup {gfig[b] : b \in Browsers}
                  \cup UNION {{down[b][i].msgs : i \in DOMAIN down[b]} : b \in Browsers} : Open(m)
  BY <1>3, <1>4
<1> QED
  BY <1>5 DEF PasswordPrivate, Open

\* Every reachable state is type-correct, whatever pages save and wherever power is cut.
THEOREM SettingsTypeCorrect == Spec => []TypeOK
<1> QED
  BY InvInit, InvNext, InvTypes, PTL DEF Spec

\* No image ever has two messages for one field of the network (graph.js:16-41,
\* network.js:113-134, config.c:158-202).
THEOREM NetKeysStayUnique == Spec => []NetKeysUnique
<1> QED
  BY InvInit, InvNext, InvUnique, PTL DEF Spec

\* The password is in no configuration that is stored, sent or shown (config.c:53-202).
THEOREM PasswordStaysPrivate == Spec => []PasswordPrivate
<1> QED
  BY InvInit, InvNext, InvPrivate, PTL DEF Spec

\* Whatever is joined or offered has all of its fields (wifi.c:63-140, config.c:629-691).
THEOREM SetupStaysWhole == Spec => []SetupWhole
<1>1. SettingsInv => SetupWhole
  BY DEF SettingsInv, Booted, SetupWhole
<1> QED
  BY <1>1, InvInit, InvNext, PTL DEF Spec

\* A controller that serves has a configuration to send (websockets.c:209-213).
THEOREM ServedStaysStored == Spec => []ServedStored
<1>1. SettingsInv => ServedStored
  <2> SUFFICES ASSUME SettingsInv, mode = "serving", writes = <<>> PROVE flash["config"] # Blank
    BY DEF ServedStored
  <2> QED
    BY FilledStored, Stored DEF SettingsInv, Booted
<1> QED
  BY <1>1, InvInit, InvNext, PTL DEF Spec
=============================================================================

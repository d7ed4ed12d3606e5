------------------------ MODULE ConfigElementsProofs ------------------------
(***************************************************************************)
(* For every image, every sequence of update packets and every region of   *)
(* at most 64 KiB: the state of ConfigElements has its types, the header   *)
(* always tells the length of the image, the iterator never passes the end *)
(* of the messages, and an update replaces one message and no other byte.  *)
(***************************************************************************)
EXTENDS ConfigElements, InductionTheorems, SequenceTheorems, TLAPS

-----------------------------------------------------------------------------
(* The image and its header *)

\* The header of an image tells its length.
Told(image) ==
    /\ image \in Seq(Byte)
    /\ Len(image) \in 3..FlashSize
    /\ Len(image) = 3 + image[2] * 256 + image[3]

\* The inductive invariant: while an update scans, the image is the one it was
\* called on, and there is room for the packet.
ElementsInv ==
    /\ TypeOK
    /\ Told(flash) /\ Told(before)
    /\ itr.pos <= Len(before) - 3
    /\ pc = "scan" => flash = before /\ Len(flash) + Len(new) <= FlashSize

-----------------------------------------------------------------------------

LEMMA ByteBounds == \A n : n \in Byte <=> n \in Int /\ 0 <= n /\ n <= 255
  BY DEF Byte

LEMMA ByteIsInt == \A n \in Byte : n \in Int /\ 0 <= n /\ n <= 255
  BY ByteBounds, Zenon

LEMMA SizeBounds == FlashSize \in Int /\ 3 <= FlashSize /\ FlashSize <= MaxImage /\ MaxImage \in Int
<1>1. MaxImage \in Int
  BY DEF MaxImage
<1> QED
  BY <1>1, FlashSizeAssumption

\* What an image that tells its length gives an arithmetic step.
LEMMA ToldFacts ==
    ASSUME NEW image, Told(image)
    PROVE  /\ image \in Seq(Byte)
           /\ Len(image) \in Int /\ 3 <= Len(image) /\ Len(image) <= FlashSize
           /\ 3 + image[2] * 256 + image[3] = Len(image)
<1>1. image \in Seq(Byte) /\ Len(image) \in 3..FlashSize
  BY DEF Told
<1>2. Len(image) = 3 + image[2] * 256 + image[3]
  BY DEF Told
<1>3. Len(image) \in Int /\ 3 <= Len(image) /\ Len(image) <= FlashSize
  BY <1>1, SizeBounds
<1> QED
  BY <1>1, <1>2, <1>3

\* A part of a sequence of bytes.
LEMMA PartOfBytes ==
    ASSUME NEW b \in Seq(Byte), NEW i \in Int, NEW j \in Int,
           1 <= i, i <= j + 1, j <= Len(b)
    PROVE  /\ SubSeq(b, i, j) \in Seq(Byte)
           /\ Len(SubSeq(b, i, j)) = j - i + 1
<1>1. SubSeq(b, i, j) \in Seq(Byte)
  OBVIOUS
<1>2. Len(SubSeq(b, i, j)) = j - i + 1
  OBVIOUS
<1> QED
  BY <1>1, <1>2

\* Two sequences of bytes one behind the other.
LEMMA ConcatBytes ==
    \A a, b \in Seq(Byte) :
        /\ a \o b \in Seq(Byte)
        /\ Len(a \o b) = Len(a) + Len(b)
        /\ \A i \in 1..Len(a) + Len(b) : (a \o b)[i] = IF i <= Len(a) THEN a[i] ELSE b[i - Len(a)]
<1> TAKE a, b \in Seq(Byte)
<1> QED
  BY ConcatProperties

\* The messages behind a header that tells the length are all the rest.
LEMMA DataOfTold ==
    ASSUME NEW image, Told(image)
    PROVE  Data(image) \in Seq(Byte) /\ Len(Data(image)) = Len(image) - 3
<1>1. /\ image \in Seq(Byte)
      /\ Len(image) \in Int /\ 3 <= Len(image)
      /\ 3 + image[2] * 256 + image[3] = Len(image)
  BY ToldFacts, Zenon
<1>2. Data(image) = SubSeq(image, 4, Len(image))
  BY <1>1, Zenon DEF Data
<1>3. /\ SubSeq(image, 4, Len(image)) \in Seq(Byte)
      /\ Len(SubSeq(image, 4, Len(image))) = Len(image) - 4 + 1
  <2>1. 4 \in Int /\ 1 <= 4 /\ 4 <= Len(image) + 1 /\ Len(image) <= Len(image)
    BY <1>1
  <2> QED
    BY <1>1, <2>1, PartOfBytes, Zenon
<1> QED
  BY <1>1, <1>2, <1>3

\* Two bytes tell any length up to 65535.
LEMMA TwoBytes ==
    ASSUME NEW n \in Int, 0 <= n, n + 3 <= MaxImage
    PROVE  /\ n \div 256 \in Byte /\ (n \div 256) % 256 = n \div 256
           /\ n % 256 \in Byte
           /\ (n \div 256) * 256 + (n % 256) = n
<1>1. n \div 256 \in Int /\ 0 <= n \div 256 /\ n \div 256 <= 255
  BY DEF MaxImage
<1>2. n % 256 \in Int /\ 0 <= n % 256 /\ n % 256 <= 255
  OBVIOUS
<1>3. (n \div 256) * 256 + (n % 256) = n
  OBVIOUS
<1>4. (n \div 256) % 256 = n \div 256
  BY <1>1
<1> QED
  BY <1>1, <1>2, <1>3, <1>4, ByteBounds

\* Once the header is rewritten it tells the length.
LEMMA HeaderRewritten ==
    ASSUME NEW image \in Seq(Byte), NEW n \in Int, 0 <= n, n + 3 <= MaxImage, Len(image) = n + 3,
           NEW hi \in Byte, NEW lo \in Byte, hi * 256 + lo = n
    PROVE  /\ [image EXCEPT ![2] = hi, ![3] = lo] \in Seq(Byte)
           /\ Len([image EXCEPT ![2] = hi, ![3] = lo]) = n + 3
           /\ [image EXCEPT ![2] = hi, ![3] = lo][2] = hi
           /\ [image EXCEPT ![2] = hi, ![3] = lo][3] = lo
<1> DEFINE first == [image EXCEPT ![2] = hi]
           both == [first EXCEPT ![3] = lo]
<1>1. 2 \in 1..Len(image) /\ 3 \in 1..Len(image)
  OBVIOUS
<1>2. first \in Seq(Byte) /\ Len(first) = Len(image) /\ first[2] = hi
  BY <1>1
<1> HIDE DEF first
<1>3. both \in Seq(Byte) /\ Len(both) = Len(first)
  BY <1>1, <1>2
<1>4. both[2] = hi /\ both[3] = lo
  BY <1>1, <1>2
<1> QED
  BY <1>2, <1>3, <1>4, Zenon DEF first

LEMMA SizedIsTold ==
    ASSUME NEW image \in Seq(Byte), 3 <= Len(image), Len(image) <= FlashSize
    PROVE  Told(Sized(image))
<1>1. PICK n \in Int : 0 <= n /\ n + 3 <= MaxImage /\ Len(image) = n + 3 /\ Len(image) - 3 = n
  <2>1. /\ Len(image) - 3 \in Int /\ 0 <= Len(image) - 3 /\ (Len(image) - 3) + 3 <= MaxImage
        /\ Len(image) = (Len(image) - 3) + 3
    BY SizeBounds
  <2> QED
    BY <2>1, Zenon
<1>2. /\ n \div 256 \in Byte /\ (n \div 256) % 256 = n \div 256
      /\ n % 256 \in Byte
      /\ (n \div 256) * 256 + (n % 256) = n
  BY <1>1, TwoBytes
<1>3. Sized(image) = [image EXCEPT ![2] = n \div 256, ![3] = n % 256]
  BY <1>1, <1>2, ZenonT(30) DEF Sized
<1>4. /\ Sized(image) \in Seq(Byte)
      /\ Len(Sized(image)) = n + 3
      /\ Sized(image)[2] = n \div 256 /\ Sized(image)[3] = n % 256
  BY <1>1, <1>2, <1>3, HeaderRewritten
<1>5. n + 3 = 3 + (n \div 256) * 256 + (n % 256) /\ n + 3 \in 3..FlashSize
  BY <1>1, <1>2, SizeBounds
<1> QED
  BY <1>4, <1>5, ZenonT(30) DEF Told

\* A message the iterator takes lies inside the payload.
LEMMA NextInside ==
    ASSUME NEW b \in Seq(Byte), NEW it, it.pos \in Nat, cei_has_next(b, it.pos)
    PROVE  /\ cei_next(b, it).len \in Byte
           /\ cei_next(b, it).pos = it.pos + 5 + cei_next(b, it).len
           /\ cei_next(b, it).pos <= Len(b)
           /\ cei_next(b, it).pay = it.pos + 5
<1>1. it.pos + 5 <= Len(b) /\ it.pos + 5 + b[it.pos + 5] <= Len(b)
  BY DEF cei_has_next
<1>2. it.pos + 5 \in 1..Len(b)
  BY <1>1
<1>3. b[it.pos + 5] \in Byte
  BY <1>2, ElementOfSeq
<1> QED
  BY <1>1, <1>3 DEF cei_next

LEMMA LengthInFlash ==
    ASSUME Told(flash)
    PROVE  data_length + 3 = Len(flash)
<1>1. flash \in Seq(Byte) /\ 3 <= Len(flash) /\ 3 + flash[2] * 256 + flash[3] = Len(flash)
  BY ToldFacts, Zenon
<1>2. flash[2] \in Byte /\ flash[3] \in Byte
  BY <1>1, ElementOfSeq
<1>3. flash[2] \in Int /\ flash[3] \in Int
  BY <1>2, ByteBounds
<1> QED
  BY <1>1, <1>3, SMTT(30) DEF data_length

\* The image an update programs keeps to its region and tells its length.
LEMMA AssembledIsTold ==
    ASSUME NEW it, Told(flash), NEW pos \in Int, NEW len \in Int, NEW u \in Seq(Byte),
           it.pos = pos, it.len = len, new = u, 0 <= len,
           len + 5 <= pos, pos <= Len(flash) - 3,
           Len(flash) + Len(u) <= FlashSize
    PROVE  Told(Assembled(it))
<1> DEFINE head == SubSeq(flash, 1, pos + 3 - len - 5)
           tail == SubSeq(flash, pos + 4, Len(flash))
<1>1. flash \in Seq(Byte) /\ Len(flash) \in Int /\ 3 <= Len(flash)
  BY ToldFacts, Zenon
<1>2. Assembled(it) = Sized((head \o u) \o tail)
  BY LengthInFlash, Zenon DEF Assembled
<1>3. head \in Seq(Byte) /\ Len(head) = pos - len - 2
  <2>1. SubSeq(flash, 1, pos + 3 - len - 5) \in Seq(Byte)
    BY <1>1
  <2>2. Len(SubSeq(flash, 1, pos + 3 - len - 5)) = pos - len - 2
    BY <1>1
  <2> QED
    BY <2>1, <2>2
<1>4. tail \in Seq(Byte) /\ Len(tail) = Len(flash) - pos - 3
  <2>1. SubSeq(flash, pos + 4, Len(flash)) \in Seq(Byte)
    BY <1>1
  <2>2. Len(SubSeq(flash, pos + 4, Len(flash))) = Len(flash) - pos - 3
    BY <1>1
  <2> QED
    BY <2>1, <2>2
<1> HIDE DEF head, tail
<1>0. u \in Seq(Byte)
  OBVIOUS
<1>5. head \o u \in Seq(Byte) /\ Len(head \o u) = Len(head) + Len(u)
  BY <1>3, <1>0, ConcatBytes, Zenon
<1>6. /\ (head \o u) \o tail \in Seq(Byte)
      /\ Len((head \o u) \o tail) = Len(head \o u) + Len(tail)
  BY <1>4, <1>5, ConcatBytes, Zenon
<1>7. /\ 3 <= Len((head \o u) \o tail)
      /\ Len((head \o u) \o tail) <= FlashSize
  BY <1>1, <1>3, <1>4, <1>5, <1>6, SizeBounds, SMTT(30)
<1> QED
  BY <1>2, <1>6, <1>7, SizedIsTold, Zenon

-----------------------------------------------------------------------------

\* An image tells its length from the start.
LEMMA ImageIsTold ==
    ASSUME NEW s \in Seq(Byte), Len(s) + 3 <= FlashSize
    PROVE  Told(Header(Len(s)) \o s)
<1>1. Len(s) \in Int /\ 0 <= Len(s) /\ Len(s) + 3 <= MaxImage
  BY SizeBounds
<1>2. /\ Len(s) \div 256 \in Byte /\ Len(s) % 256 \in Byte
      /\ (Len(s) \div 256) * 256 + (Len(s) % 256) = Len(s)
  BY <1>1, TwoBytes
<1>3. 10 \in Byte
  BY ByteBounds
<1> DEFINE h == Header(Len(s))
           image == h \o s
<1>4. h \in Seq(Byte) /\ Len(h) = 3 /\ h[2] = Len(s) \div 256 /\ h[3] = Len(s) % 256
  BY <1>2, <1>3 DEF Header
<1> HIDE DEF h
<1>5. /\ image \in Seq(Byte) /\ Len(image) = Len(h) + Len(s)
      /\ \A i \in 1..Len(h) + Len(s) : image[i] = IF i <= Len(h) THEN h[i] ELSE s[i - Len(h)]
  BY <1>4, ConcatBytes, ZenonT(30)
<1> HIDE DEF image
<1>6. image[2] = h[2] /\ image[3] = h[3]
  BY <1>1, <1>4, <1>5
<1>7. Len(image) \in 3..FlashSize /\ Len(image) = 3 + image[2] * 256 + image[3]
  BY <1>1, <1>2, <1>4, <1>5, <1>6, SizeBounds
<1> QED
  BY <1>5, <1>7, Zenon DEF Told, image, h

LEMMA LastId == MaxId = 65535
  BY DEF MaxId

LEMMA NoFieldSought == NoField \in Sought
<1>1. 0 \in Byte /\ 0 \in 0..MaxId
  BY ByteBounds, LastId
<1> QED
  BY <1>1 DEF NoField, Sought

\* Two bytes of an id.
LEMMA IdRange == \A a, b \in Byte : a * 256 + b \in 0..MaxId
<1>1. \A a, b \in Byte : a * 256 + b \in Nat /\ a * 256 + b <= 65535
  BY DEF Byte
<1>2. MaxId \in Int /\ \A a, b \in Byte : a * 256 + b <= MaxId
  BY <1>1, LastId
<1> QED
  BY <1>1, <1>2

\* What an update is compared by has its types.
LEMMA FirstMessageType ==
    ASSUME NEW u \in Seq(Byte), NEW behind \in Byte, NEW k \in FirstMessage(u, behind)
    PROVE  k \in Sought
<1>1. CASE cei_has_next(u, 0)
  <2>1. 5 <= Len(u)
    BY <1>1 DEF cei_has_next
  <2>2. u[1] \in Byte /\ u[3] \in Byte /\ u[4] \in Byte
    <3>1. 1 \in 1..Len(u) /\ 3 \in 1..Len(u) /\ 4 \in 1..Len(u)
      BY <2>1
    <3> QED
      BY <3>1, ElementOfSeq
  <2>3. u[3] * 256 + u[4] \in 0..MaxId
    BY <2>2, IdRange
  <2> DEFINE f == IF 5 < Len(u) THEN u[6] ELSE behind
  <2>4. f \in Byte
    <3>1. 5 < Len(u) => 6 \in 1..Len(u)
      BY <2>1
    <3> QED
      BY <3>1, ElementOfSeq
  <2>5. k = [type |-> u[1], id |-> u[3] * 256 + u[4], field |-> f]
    BY <1>1 DEF FirstMessage, cei_next, config_element_iterator_init
  <2> HIDE DEF f
  <2>6. [type |-> u[1], id |-> u[3] * 256 + u[4], field |-> f] \in Sought
    BY <2>2, <2>3, <2>4 DEF Sought
  <2> QED
    BY <2>5, <2>6
<1>2. CASE ~cei_has_next(u, 0)
  BY <1>2, LeftoversAssumption DEF FirstMessage
<1> QED
  BY <1>1, <1>2

LEMMA InvInit == Init => ElementsInv
<1> SUFFICES ASSUME Init PROVE ElementsInv
  OBVIOUS
<1>1. PICK s \in Stores : flash = Header(Len(s)) \o s
  BY DEF Init
<1>2. Told(flash) /\ Told(before)
  BY <1>1, StoresAssumption, ImageIsTold DEF Init
<1>3. /\ itr.pos = 0 /\ itr.len = 0 /\ itr.pay = 0 /\ pc = "idle" /\ calls = 0 /\ new = <<>>
      /\ want \in Sought
  BY NoFieldSought DEF Init, config_element_iterator_init
<1>4. TypeOK
  <2>1. 0 \in Byte /\ 0 \in 0..MaxUpdates
    BY MaxUpdatesAssumption, ByteBounds
  <2>2. new \in Seq(Byte)
    BY <1>3
  <2> QED
    BY <1>2, <1>3, <2>1, <2>2 DEF TypeOK, Told
<1>5. 0 <= Len(before) - 3
  BY <1>2, ToldFacts
<1> QED
  BY <1>2, <1>3, <1>4, <1>5 DEF ElementsInv

\* An update may be called with any packet.
LEMMA InvUpdateCalled ==
    ASSUME ElementsInv, NEW u \in Seq(Byte), NEW behind \in Byte, update_config(u, behind)
    PROVE  ElementsInv'
<1> USE DEF ElementsInv
<1>1. new' \in Seq(Byte) /\ Len(flash) + Len(new') <= FlashSize
  BY DEF update_config, Updatable
<1>2. itr'.pos = 0 /\ itr'.len \in Byte /\ itr'.pay \in Nat
  BY DEF update_config, config_element_iterator_init, Byte
<1>3. flash' = flash /\ before' = flash /\ pc' = "scan" /\ calls' \in 0..MaxUpdates
  BY MaxUpdatesAssumption DEF update_config, Updatable, TypeOK
<1>7. want' \in Sought
  BY FirstMessageType DEF update_config
<1>4. Told(flash') /\ Told(before')
  BY <1>3 DEF Told
<1>5. TypeOK'
  BY <1>1, <1>2, <1>3, <1>7 DEF TypeOK
<1>6. 0 <= Len(before') - 3
  BY <1>3, ToldFacts
<1> QED
  BY <1>1, <1>2, <1>3, <1>4, <1>5, <1>6

\* Any image that fits its region may be saved.
LEMMA InvSaved ==
    ASSUME ElementsInv, NEW s \in Seq(Byte), Len(s) + 3 <= FlashSize, apply_config(s)
    PROVE  ElementsInv'
<1> USE DEF ElementsInv
<1>1. Told(flash') /\ Told(before')
  BY ImageIsTold, ZenonT(30) DEF apply_config, Told
<1>2. /\ itr'.pos = 0 /\ itr'.len = 0 /\ itr'.pay = 0 /\ pc' = "idle" /\ new' = <<>> /\ calls' = calls
      /\ want' \in Sought
  BY NoFieldSought DEF apply_config, config_element_iterator_init
<1>3. TypeOK'
  <2>1. 0 \in Byte
    BY ByteBounds
  <2>2. new' \in Seq(Byte)
    BY <1>2
  <2> QED
    BY <1>1, <1>2, <2>1, <2>2 DEF TypeOK, Told
<1>4. 0 <= Len(before') - 3
  <2>1. Len(before') \in 3..FlashSize
    BY <1>1 DEF Told
  <2> QED
    BY <2>1, SizeBounds
<1> QED
  BY <1>1, <1>2, <1>3, <1>4

LEMMA InvNext == ElementsInv /\ [Next]_vars => ElementsInv'
<1> SUFFICES ASSUME ElementsInv, [Next]_vars PROVE ElementsInv'
  OBVIOUS
<1> USE DEF ElementsInv
<1>a. /\ flash \in Seq(Byte) /\ Len(flash) \in Nat /\ Len(flash) >= 3
      /\ itr.pos \in Nat
  BY FlashSizeAssumption DEF TypeOK
<1>1. CASE Call
  BY <1>1, UpdatesAssumption, InvUpdateCalled DEF Call
<1>0. CASE Save
  BY <1>0, StoresAssumption, InvSaved DEF Save
<1>2. ASSUME pc = "scan", cei_has_next(Data(flash), itr.pos), itr' = cei_next(Data(flash), itr)
      PROVE  /\ itr'.pos \in Nat /\ itr'.len \in Byte /\ itr'.pay \in Nat
             /\ itr'.len + 5 <= itr'.pos /\ itr'.pos <= Len(flash) - 3
  <2>1. Data(flash) \in Seq(Byte) /\ Len(Data(flash)) = Len(flash) - 3
    BY DataOfTold
  <2>2. /\ itr'.len \in Byte
        /\ itr'.pos = itr.pos + 5 + itr'.len
        /\ itr'.pos <= Len(flash) - 3
        /\ itr'.pay = itr.pos + 5
    BY <2>1, <1>2, <1>a, NextInside
  <2>3. itr'.len \in Int /\ 0 <= itr'.len
    BY <2>2, ByteBounds
  <2> QED
    BY <2>2, <2>3, <1>a, SMTT(30)
<1>3. CASE Skip
  <2>1. /\ pc = "scan" /\ cei_has_next(Data(flash), itr.pos)
        /\ itr' = cei_next(Data(flash), itr)
        /\ UNCHANGED <<flash, before, new, want, pc, calls>>
    BY <1>3 DEF Skip
  <2>2. TypeOK'
    BY <2>1, <1>2 DEF TypeOK
  <2> QED
    BY <2>1, <2>2, <1>2 DEF Told
<1>4. CASE Replace
  <2>1. /\ pc = "scan" /\ cei_has_next(Data(flash), itr.pos)
        /\ itr' = cei_next(Data(flash), itr)
        /\ flash' = Assembled(itr')
        /\ pc' = "done"
        /\ UNCHANGED <<before, new, want, calls>>
    BY <1>4 DEF Replace
  <2>2. Told(flash')
    <3>1. /\ itr'.pos \in Int /\ itr'.len \in Int /\ 0 <= itr'.len
          /\ itr'.len + 5 <= itr'.pos /\ itr'.pos <= Len(flash) - 3
      BY <2>1, <1>2, ByteBounds
    <3>2. new \in Seq(Byte) /\ Told(flash) /\ Len(flash) + Len(new) <= FlashSize
      BY <2>1 DEF TypeOK
    <3>3. Told(Assembled(itr'))
      BY <3>1, <3>2, AssembledIsTold, Zenon
    <3> QED
      BY <2>1, <3>3
  <2>3. TypeOK'
    BY <2>1, <2>2, <1>2 DEF TypeOK, Told
  <2> QED
    BY <2>1, <2>2, <2>3, <1>2 DEF Told
<1>5. CASE EndOfImage
  <2>1. pc' = "done" /\ UNCHANGED <<flash, before, new, itr, want, calls>>
    BY <1>5 DEF EndOfImage
  <2>2. TypeOK'
    BY <2>1 DEF TypeOK
  <2> QED
    BY <2>1, <2>2 DEF Told
<1>6. CASE UNCHANGED vars
  BY <1>6 DEF vars, TypeOK, Told
<1>7. CASE Fault
  <2>1. /\ pc = "scan" /\ cei_has_next(Data(flash), itr.pos)
        /\ itr' = cei_next(Data(flash), itr)
        /\ pc' = "fault" /\ UNCHANGED <<flash, before, new, want, calls>>
    BY <1>7 DEF Fault
  <2>2. TypeOK'
    BY <2>1, <1>2 DEF TypeOK
  <2> QED
    BY <2>1, <2>2, <1>2 DEF Told
<1> QED
  BY <1>1, <1>0, <1>3, <1>4, <1>5, <1>6, <1>7 DEF Next, Update

LEMMA InvImplies == ElementsInv => TypeOK /\ IteratorInside
<1> SUFFICES ASSUME ElementsInv PROVE IteratorInside
  BY DEF ElementsInv
<1>1. Len(Data(before)) = Len(before) - 3
  BY DataOfTold DEF ElementsInv
<1> QED
  BY <1>1, LengthInFlash DEF ElementsInv, IteratorInside

\* Whatever is stored or saved and however often it is updated, the image keeps to its
\* region (config.c:158-202).
THEOREM ElementsTypeCorrect == Spec => []TypeOK
  BY InvInit, InvNext, InvImplies, PTL DEF Spec

\* The iterator of an update never passes the end of the messages, and the header
\* always tells their length (config_iterator.c:40-72, config.c:184-192).
THEOREM IteratorStaysInside == Spec => []IteratorInside
  BY InvInit, InvNext, InvImplies, PTL DEF Spec

-----------------------------------------------------------------------------
(* The messages of a payload *)

\* The bytes of a message that is there lie in the payload, and those of the next
\* one behind them.
LEMMA EndInside ==
    ASSUME NEW b \in Seq(Byte), NEW p \in 0..Len(b), Whole(b, p)
    PROVE  /\ End(b, p) \in 0..Len(b) /\ p + 5 <= End(b, p) /\ End(b, p) <= Len(b)
           /\ End(b, p) = p + (5 + b[p + 5]) /\ b[p + 5] \in Int
           /\ 5 + b[p + 5] \in Nat /\ 5 <= 5 + b[p + 5]
           /\ p \in Nat /\ Len(b) \in Nat /\ End(b, p) \in Nat
           /\ SubSeq(b, p + 1, End(b, p)) \in Seq(Byte)
           /\ Len(SubSeq(b, p + 1, End(b, p))) = 5 + b[p + 5]
<1>0. p \in Int /\ 0 <= p /\ Len(b) \in Int
  OBVIOUS
<1>1. p + 5 \in 1..Len(b)
  BY <1>0 DEF Whole
<1>2. b[p + 5] \in Byte
  BY <1>1, ElementOfSeq
<1>3. b[p + 5] \in 0..255
  BY <1>2 DEF Byte
<1>4. End(b, p) = p + 5 + b[p + 5] /\ End(b, p) - 1 < Len(b)
  BY DEF Whole, End
<1>5. /\ End(b, p) \in Int /\ 1 <= p + 1 /\ p + 1 \in Int /\ p + 5 <= End(b, p)
      /\ p + 1 <= End(b, p) + 1 /\ End(b, p) <= Len(b)
      /\ End(b, p) - (p + 1) + 1 = 5 + b[p + 5]
  <2> HIDE DEF End
  <2>1. b[p + 5] \in Int /\ 0 <= b[p + 5]
    BY <1>2, ByteBounds
  <2> QED
    BY <1>0, <1>4, <2>1
<1>6. /\ SubSeq(b, p + 1, End(b, p)) \in Seq(Byte)
      /\ Len(SubSeq(b, p + 1, End(b, p))) = End(b, p) - (p + 1) + 1
  BY <1>5, PartOfBytes
<1>7. b[p + 5] \in Int /\ End(b, p) = p + (5 + b[p + 5]) /\ 5 + b[p + 5] \in Nat /\ 5 <= 5 + b[p + 5]
  <2> HIDE DEF End
  <2>1. b[p + 5] \in Int /\ 0 <= b[p + 5]
    BY <1>2, ByteBounds
  <2> QED
    BY <1>0, <1>4, <2>1
<1>8. End(b, p) \in 0..Len(b) /\ p \in Nat /\ Len(b) \in Nat /\ End(b, p) \in Nat
  <2> HIDE DEF End
  <2> QED
    BY <1>0, <1>5
<1> HIDE DEF End
<1> QED
  BY <1>5, <1>6, <1>7, <1>8

\* Messages are taken one after the other.
LEMMA MessagesStep ==
    ASSUME NEW b \in Seq(Byte)
    PROVE  /\ MessagesFrom(b) \in [0..Len(b) -> Seq(Seq(Byte))]
           /\ \A p \in 0..Len(b) :
                  MessagesFrom(b)[p] =
                      IF Whole(b, p)
                        THEN <<SubSeq(b, p + 1, End(b, p))>> \o MessagesFrom(b)[End(b, p)]
                        ELSE <<>>
<1> DEFINE D == 0..Len(b)
           X == Seq(Seq(Byte))
           first(p) == <<SubSeq(b, p + 1, End(b, p))>>
           stop == {p \in D : ~Whole(b, p)}
           next == [p \in D \ stop |-> End(b, p)]
           step == [q \in D \X X |-> IF q[1] \in stop THEN <<>> ELSE first(q[1]) \o q[2]]
           base == [p \in D |-> <<>>]
           rank == [p \in D |-> Len(b) - p]
           from[p \in 0..Len(b)] ==
               IF Whole(b, p) THEN <<SubSeq(b, p + 1, End(b, p))>> \o from[End(b, p)] ELSE <<>>
<1>1. ASSUME NEW p \in D \ stop
      PROVE  End(b, p) \in D /\ Len(b) - End(b, p) < Len(b) - p /\ first(p) \in X
  <2>1. End(b, p) \in 0..Len(b) /\ p + 5 <= End(b, p) /\ SubSeq(b, p + 1, End(b, p)) \in Seq(Byte)
    BY EndInside
  <2> QED
    BY <2>1
<1>2. PICK f \in [D -> X] : Solves(f, D, stop, base, next, step)
  <2>1. /\ rank \in [D -> 0..Len(b)] /\ stop \subseteq D /\ base \in [D -> X] /\ X # {}
        /\ Len(b) \in Nat
    <3>1. Len(b) \in Nat /\ \A p \in D : Len(b) - p \in 0..Len(b)
      OBVIOUS
    <3>2. <<>> \in X
      OBVIOUS
    <3> QED
      BY <3>1, <3>2
  <2>2. next \in [D \ stop -> D]
    BY <1>1
  <2>3. step \in [D \X X -> X]
    <3>1. ASSUME NEW q \in D \X X, q[1] \notin stop PROVE first(q[1]) \o q[2] \in X
      <4>1. q[1] \in D \ stop /\ q[2] \in X
        BY <3>1
      <4>2. first(q[1]) \in X
        BY <1>1, <4>1
      <4> HIDE DEF first
      <4> QED
        BY <4>1, <4>2, ConcatProperties
    <3>2. <<>> \in X
      OBVIOUS
    <3> HIDE DEF D, X, first, stop
    <3> QED
      BY <3>1, <3>2
  <2>4. \A p \in D \ stop : rank[next[p]] < rank[p]
    <3> TAKE p \in D \ stop
    <3>1. next[p] = End(b, p) /\ End(b, p) \in D /\ Len(b) - End(b, p) < Len(b) - p
      BY <1>1
    <3>2. rank[End(b, p)] = Len(b) - End(b, p) /\ rank[p] = Len(b) - p
      BY <3>1
    <3> QED
      BY <3>1, <3>2
  <2>5. WellRanked(D, X, stop, base, next, step, rank, Len(b))
    <3> HIDE DEF D, X, stop, base, next, step, rank
    <3> QED
      BY <2>1, <2>2, <2>3, <2>4 DEF WellRanked, Ranked
  <2> HIDE DEF D, X, stop, base, next, step, rank
  <2> QED
    BY <2>5, RecursionDefines
<1>3. ASSUME NEW p \in D
      PROVE  f[p] = IF Whole(b, p) THEN first(p) \o f[End(b, p)] ELSE <<>>
  <2>1. CASE p \in stop
    <3>1. f[p] = base[p]
      BY <1>2, <2>1 DEF Solves
    <3> QED
      BY <2>1, <3>1
  <2>2. CASE p \notin stop
    <3>1. p \in D \ stop /\ next[p] = End(b, p) /\ f[End(b, p)] \in X
      BY <1>1, <2>2
    <3>2. f[p] = step[<<p, f[next[p]]>>]
      <4> HIDE DEF stop, step, next, base
      <4> QED
        BY <1>2, <2>2 DEF Solves
    <3>3. <<p, f[End(b, p)]>> \in D \X X
      BY <3>1
    <3>4. step[<<p, f[End(b, p)]>>] = first(p) \o f[End(b, p)]
      <4> HIDE DEF D, X, first, stop
      <4> QED
        BY <2>2, <3>3
    <3> QED
      BY <3>1, <3>2, <3>4
  <2> QED
    BY <2>1, <2>2
<1>4. f = [p \in 0..Len(b) |->
               IF Whole(b, p) THEN <<SubSeq(b, p + 1, End(b, p))>> \o f[End(b, p)] ELSE <<>>]
  BY <1>2, <1>3
<1>5. from = [p \in 0..Len(b) |->
               IF Whole(b, p) THEN <<SubSeq(b, p + 1, End(b, p))>> \o from[End(b, p)] ELSE <<>>]
  BY <1>4
<1>6. MessagesFrom(b) = from
  BY DEF MessagesFrom
<1> DEFINE S == {p \in D : from[p] = f[p]}
<1>7. S = D
  <2>1. ASSUME NEW p \in D, \A q \in D : rank[q] < rank[p] => q \in S PROVE p \in S
    <3>1. CASE Whole(b, p)
      <4>1. End(b, p) \in D /\ rank[End(b, p)] < rank[p]
        BY <1>1, <3>1
      <4>2. from[End(b, p)] = f[End(b, p)]
        BY <2>1, <4>1
      <4> HIDE DEF from
      <4> QED
        BY <1>3, <1>5, <3>1, <4>2
    <3>2. CASE ~Whole(b, p)
      <4> HIDE DEF from
      <4> QED
        BY <1>3, <1>5, <3>2
    <3> QED
      BY <3>1, <3>2
  <2>2. rank \in [D -> 0..Len(b)] /\ S \in SUBSET D /\ Len(b) \in Nat
    <3>1. Len(b) \in Nat /\ \A p \in D : Len(b) - p \in 0..Len(b)
      OBVIOUS
    <3> QED
      BY <3>1
  <2> HIDE DEF D, S, rank
  <2>3. Ranked(D, rank, Len(b)) /\ Inductive(D, rank, S)
    BY <2>1, <2>2 DEF Ranked, Inductive
  <2> QED
    BY <2>3, RankInduction
<1>8. from = f
  <2>1. \A p \in D : from[p] = f[p]
    BY <1>7
  <2> HIDE DEF from
  <2> QED
    BY <1>2, <1>5, <2>1
<1> QED
  BY <1>2, <1>3, <1>6, <1>8

\* What they leave.
LEMMA RemainderStep ==
    ASSUME NEW b \in Seq(Byte)
    PROVE  /\ RemainderFrom(b) \in [0..Len(b) -> Seq(Byte)]
           /\ \A p \in 0..Len(b) :
                  RemainderFrom(b)[p] =
                      IF Whole(b, p) THEN RemainderFrom(b)[End(b, p)] ELSE SubSeq(b, p + 1, Len(b))
<1> DEFINE D == 0..Len(b)
           X == Seq(Byte)
           rest(p) == SubSeq(b, p + 1, Len(b))
           stop == {p \in D : ~Whole(b, p)}
           next == [p \in D \ stop |-> End(b, p)]
           step == [q \in D \X X |-> q[2]]
           base == [p \in D |-> rest(p)]
           rank == [p \in D |-> Len(b) - p]
           from[p \in 0..Len(b)] ==
               IF Whole(b, p) THEN from[End(b, p)] ELSE SubSeq(b, p + 1, Len(b))
<1>1. ASSUME NEW p \in D \ stop
      PROVE  End(b, p) \in D /\ Len(b) - End(b, p) < Len(b) - p
  <2>1. End(b, p) \in 0..Len(b) /\ p + 5 <= End(b, p)
    BY EndInside
  <2> QED
    BY <2>1
<1>2. PICK f \in [D -> X] : Solves(f, D, stop, base, next, step)
  <2>1. /\ rank \in [D -> 0..Len(b)] /\ stop \subseteq D /\ Len(b) \in Nat /\ X # {}
        /\ base \in [D -> X]
    <3>1. Len(b) \in Nat /\ \A p \in D : Len(b) - p \in 0..Len(b)
      OBVIOUS
    <3>2. \A p \in D : rest(p) \in X
      OBVIOUS
    <3> QED
      BY <3>1, <3>2
  <2>2. next \in [D \ stop -> D]
    BY <1>1
  <2>3. step \in [D \X X -> X]
    OBVIOUS
  <2>4. \A p \in D \ stop : rank[next[p]] < rank[p]
    <3> TAKE p \in D \ stop
    <3>1. next[p] = End(b, p) /\ End(b, p) \in D /\ Len(b) - End(b, p) < Len(b) - p
      BY <1>1
    <3>2. rank[End(b, p)] = Len(b) - End(b, p) /\ rank[p] = Len(b) - p
      BY <3>1
    <3> QED
      BY <3>1, <3>2
  <2>5. WellRanked(D, X, stop, base, next, step, rank, Len(b))
    <3> HIDE DEF D, X, stop, base, next, step, rank
    <3> QED
      BY <2>1, <2>2, <2>3, <2>4 DEF WellRanked, Ranked
  <2> HIDE DEF D, X, stop, base, next, step, rank
  <2> QED
    BY <2>5, RecursionDefines
<1>3. ASSUME NEW p \in D
      PROVE  f[p] = IF Whole(b, p) THEN f[End(b, p)] ELSE rest(p)
  <2>1. CASE p \in stop
    <3>1. f[p] = base[p]
      BY <1>2, <2>1 DEF Solves
    <3> QED
      BY <2>1, <3>1
  <2>2. CASE p \notin stop
    <3>1. p \in D \ stop /\ next[p] = End(b, p) /\ f[End(b, p)] \in X
      BY <1>1, <2>2
    <3>2. f[p] = step[<<p, f[next[p]]>>]
      <4> HIDE DEF stop, step, next, base
      <4> QED
        BY <1>2, <2>2 DEF Solves
    <3>3. <<p, f[End(b, p)]>> \in D \X X
      BY <3>1
    <3>4. step[<<p, f[End(b, p)]>>] = f[End(b, p)]
      BY <3>3
    <3> QED
      BY <3>1, <3>2, <3>4
  <2> QED
    BY <2>1, <2>2
<1>4. f = [p \in 0..Len(b) |->
               IF Whole(b, p) THEN f[End(b, p)] ELSE SubSeq(b, p + 1, Len(b))]
  BY <1>2, <1>3
<1>5. from = [p \in 0..Len(b) |->
               IF Whole(b, p) THEN from[End(b, p)] ELSE SubSeq(b, p + 1, Len(b))]
  BY <1>4
<1>6. RemainderFrom(b) = from
  BY DEF RemainderFrom
<1> DEFINE S == {p \in D : from[p] = f[p]}
<1>7. S = D
  <2>1. ASSUME NEW p \in D, \A q \in D : rank[q] < rank[p] => q \in S PROVE p \in S
    <3>1. CASE Whole(b, p)
      <4>1. End(b, p) \in D /\ rank[End(b, p)] < rank[p]
        BY <1>1, <3>1
      <4>2. from[End(b, p)] = f[End(b, p)]
        BY <2>1, <4>1
      <4> HIDE DEF from
      <4> QED
        BY <1>3, <1>5, <3>1, <4>2
    <3>2. CASE ~Whole(b, p)
      <4> HIDE DEF from
      <4> QED
        BY <1>3, <1>5, <3>2
    <3> QED
      BY <3>1, <3>2
  <2>2. rank \in [D -> 0..Len(b)] /\ S \in SUBSET D /\ Len(b) \in Nat
    <3>1. Len(b) \in Nat /\ \A p \in D : Len(b) - p \in 0..Len(b)
      OBVIOUS
    <3> QED
      BY <3>1
  <2> HIDE DEF D, S, rank
  <2>3. Ranked(D, rank, Len(b)) /\ Inductive(D, rank, S)
    BY <2>1, <2>2 DEF Ranked, Inductive
  <2> QED
    BY <2>3, RankInduction
<1>8. from = f
  <2>1. \A p \in D : from[p] = f[p]
    BY <1>7
  <2> HIDE DEF from
  <2> QED
    BY <1>2, <1>5, <2>1
<1> QED
  BY <1>2, <1>3, <1>6, <1>8, ZenonT(30)

\* The same bytes make the same message.
LEMMA SameMessage ==
    ASSUME NEW b \in Seq(Byte), NEW p \in 0..Len(b), Whole(b, p),
           NEW c \in Seq(Byte), NEW q \in 0..Len(c),
           q + (5 + b[p + 5]) <= Len(c),
           \A i \in 1..5 + b[p + 5] : c[q + i] = b[p + i]
    PROVE  /\ Whole(c, q) /\ End(c, q) = q + (5 + b[p + 5])
           /\ SubSeq(c, q + 1, End(c, q)) = SubSeq(b, p + 1, End(b, p))
<1> DEFINE n == 5 + b[p + 5]
<1>0. q \in Nat /\ Len(c) \in Nat
  OBVIOUS
<1>1. /\ End(b, p) = p + n /\ End(b, p) <= Len(b) /\ n \in Nat /\ 5 <= n
      /\ p \in Nat /\ Len(b) \in Nat
  BY EndInside
<1>2. c[q + 5] = b[p + 5]
  <2>1. 5 \in 1..n
    BY <1>1
  <2> QED
    BY <2>1
<1>3. End(c, q) = q + n
  <2>1. End(c, q) = (q + 5) + b[p + 5]
    BY <1>2 DEF End
  <2>2. b[p + 5] \in Int
    BY EndInside
  <2> QED
    BY <1>0, <2>1, <2>2
<1>4. Whole(c, q)
  <2>1. q + n <= Len(c)
    OBVIOUS
  <2> HIDE DEF n
  <2> QED
    BY <1>0, <1>1, <1>3, <2>1 DEF Whole
<1>5. SubSeq(c, q + 1, q + n) = SubSeq(b, p + 1, p + n)
  <2>1. \A i \in 1..n : c[q + i] = b[p + i]
    OBVIOUS
  <2>2. q + n <= Len(c)
    OBVIOUS
  <2> HIDE DEF n
  <2>3. /\ SubSeq(c, q + 1, q + n) = [i \in 1..n |-> c[q + i]]
        /\ SubSeq(b, p + 1, p + n) = [i \in 1..n |-> b[p + i]]
    BY <1>0, <1>1, <2>2
  <2> QED
    BY <2>1, <2>3
<1> QED
  BY <1>1, <1>3, <1>4, <1>5

\* What a walk takes from its first pos bytes, whatever follows them.
Passed(b, pos, done) ==
    \A c \in Seq(Byte) :
        pos <= Len(c) /\ (\A i \in 1..pos : c[i] = b[i])
            => /\ MessagesFrom(c)[0] = done \o MessagesFrom(c)[pos]
               /\ RemainderFrom(c)[0] = RemainderFrom(c)[pos]

LEMMA PassedNone == \A b : Passed(b, 0, <<>>)
<1> SUFFICES ASSUME NEW c \in Seq(Byte)
             PROVE  MessagesFrom(c)[0] = <<>> \o MessagesFrom(c)[0]
  BY DEF Passed
<1>1. 0 \in 0..Len(c)
  OBVIOUS
<1>2. MessagesFrom(c)[0] \in Seq(Seq(Byte))
  BY <1>1, MessagesStep
<1> QED
  BY <1>2, ConcatEmptySeq

LEMMA PassedMore ==
    ASSUME NEW b \in Seq(Byte), NEW pos \in 0..Len(b), NEW done \in Seq(Seq(Byte)),
           Passed(b, pos, done), Whole(b, pos)
    PROVE  Passed(b, End(b, pos), done \o <<SubSeq(b, pos + 1, End(b, pos))>>)
<1> DEFINE end == End(b, pos)
           m == SubSeq(b, pos + 1, end)
<1>1. /\ end \in 0..Len(b) /\ end = pos + (5 + b[pos + 5])
      /\ m \in Seq(Byte) /\ pos <= end /\ end \in Nat /\ pos \in Nat
  <2>1. /\ end \in 0..Len(b) /\ end = pos + (5 + b[pos + 5])
        /\ m \in Seq(Byte) /\ pos + 5 <= end /\ end \in Nat /\ pos \in Nat
    BY EndInside
  <2> HIDE DEF end, m
  <2> QED
    BY <2>1
<1> HIDE DEF end, m
<1> SUFFICES ASSUME NEW c \in Seq(Byte), end <= Len(c), \A i \in 1..end : c[i] = b[i]
             PROVE  /\ MessagesFrom(c)[0] = (done \o <<m>>) \o MessagesFrom(c)[end]
                    /\ RemainderFrom(c)[0] = RemainderFrom(c)[end]
  BY DEF Passed, end, m
<1>2. pos \in 0..Len(c) /\ end \in 0..Len(c) /\ pos <= Len(c)
  BY <1>1
<1>3. \A i \in 1..pos : c[i] = b[i]
  BY <1>1
<1>4. /\ MessagesFrom(c)[0] = done \o MessagesFrom(c)[pos]
      /\ RemainderFrom(c)[0] = RemainderFrom(c)[pos]
  BY <1>2, <1>3 DEF Passed
<1>5. /\ Whole(c, pos) /\ End(c, pos) = end /\ SubSeq(c, pos + 1, end) = m
  <2>1. \A i \in 1..5 + b[pos + 5] : c[pos + i] = b[pos + i]
    <3> DEFINE k == 5 + b[pos + 5]
    <3>1. k \in Nat /\ end = pos + k
      BY <1>1, EndInside
    <3> HIDE DEF k
    <3>2. \A i \in 1..k : c[pos + i] = b[pos + i]
      BY <1>1, <3>1
    <3> QED
      BY <3>2 DEF k
  <2>2. pos + (5 + b[pos + 5]) <= Len(c)
    BY <1>1
  <2>3. /\ Whole(c, pos) /\ End(c, pos) = pos + (5 + b[pos + 5])
        /\ SubSeq(c, pos + 1, End(c, pos)) = SubSeq(b, pos + 1, End(b, pos))
    BY <1>2, <2>1, <2>2, SameMessage
  <2> QED
    BY <1>1, <2>3 DEF m, end
<1>6. /\ MessagesFrom(c)[pos] = <<m>> \o MessagesFrom(c)[end]
      /\ RemainderFrom(c)[pos] = RemainderFrom(c)[end]
  BY <1>2, <1>5, MessagesStep, RemainderStep
<1>7. <<m>> \in Seq(Seq(Byte)) /\ MessagesFrom(c)[end] \in Seq(Seq(Byte))
  BY <1>1, <1>2, MessagesStep
<1>8. done \o (<<m>> \o MessagesFrom(c)[end]) = (done \o <<m>>) \o MessagesFrom(c)[end]
  <2> DEFINE X == Seq(Byte)
             rest == MessagesFrom(c)[end]
  <2>1. done \in Seq(X) /\ <<m>> \in Seq(X) /\ rest \in Seq(X)
    BY <1>7
  <2> HIDE DEF X, rest
  <2>2. (done \o <<m>>) \o rest = done \o (<<m>> \o rest)
    BY <2>1, ConcatAssociative
  <2> QED
    BY <2>2 DEF rest
<1> QED
  BY <1>4, <1>6, <1>8

LEMMA Cancelled == \A p, i, k, n \in Nat : (p + i) + k <= p + n => i + k <= n
  OBVIOUS

LEMMA Within == \A i, k, n \in Nat : i + k <= n => \A j \in 1..k : j \in Nat /\ i + j \in 1..n
  OBVIOUS

\* A walk over the same bytes at another place.
LEMMA SameWalk ==
    ASSUME NEW b \in Seq(Byte), NEW p \in 0..Len(b), NEW c \in Seq(Byte), NEW q \in 0..Len(c),
           NEW n \in Nat, Len(b) = p + n, Len(c) = q + n,
           \A i \in 1..n : c[q + i] = b[p + i]
    PROVE  /\ MessagesFrom(c)[q] = MessagesFrom(b)[p]
           /\ RemainderFrom(c)[q] = RemainderFrom(b)[p]
<1> DEFINE D == 0..n
           rank == [i \in D |-> n - i]
           S == {i \in D : /\ MessagesFrom(c)[q + i] = MessagesFrom(b)[p + i]
                           /\ RemainderFrom(c)[q + i] = RemainderFrom(b)[p + i]}
<1>1. p \in Nat /\ q \in Nat
  OBVIOUS
<1>2. ASSUME NEW i \in D, \A j \in D : rank[j] < rank[i] => j \in S PROVE i \in S
  <2>1. i \in Nat /\ i <= n /\ p + i \in 0..Len(b) /\ q + i \in 0..Len(c)
    BY <1>1
  <2>2. CASE Whole(b, p + i)
    <3> DEFINE k == 5 + b[(p + i) + 5]
    <3>1. k \in Nat /\ 5 <= k /\ End(b, p + i) = (p + i) + k /\ End(b, p + i) <= Len(b)
      BY <2>1, <2>2, EndInside
    <3>9. i + k <= n
      <4> HIDE DEF k
      <4>1. (p + i) + k <= p + n
        BY <3>1
      <4> QED
        BY <1>1, <2>1, <3>1, <4>1, Cancelled, Zenon
    <3>2. i + k \in D /\ rank[i + k] < rank[i] /\ p + (i + k) = (p + i) + k /\ q + (i + k) = (q + i) + k
      <4> HIDE DEF k
      <4>2. i + k \in 0..n /\ n - (i + k) < n - i
        BY <1>1, <2>1, <3>1, <3>9
      <4>3. p + (i + k) = (p + i) + k /\ q + (i + k) = (q + i) + k
        BY <1>1, <2>1, <3>1
      <4> QED
        BY <4>2, <4>3
    <3>3. /\ MessagesFrom(c)[(q + i) + k] = MessagesFrom(b)[(p + i) + k]
          /\ RemainderFrom(c)[(q + i) + k] = RemainderFrom(b)[(p + i) + k]
      <4> HIDE DEF k
      <4>1. i + k \in S
        BY <1>2, <3>2
      <4> QED
        BY <3>2, <4>1
    <3>4. /\ Whole(c, q + i) /\ End(c, q + i) = (q + i) + k
          /\ SubSeq(c, (q + i) + 1, End(c, q + i)) = SubSeq(b, (p + i) + 1, End(b, p + i))
      <4>1. \A j \in 1..k : c[(q + i) + j] = b[(p + i) + j]
        <5> HIDE DEF k
        <5> TAKE j \in 1..k
        <5>1. i + j \in 1..n /\ q + (i + j) = (q + i) + j /\ p + (i + j) = (p + i) + j
          <6>1. j \in Nat /\ i + j \in 1..n
            BY <2>1, <3>1, <3>9, Within, Zenon
          <6>2. q + (i + j) = (q + i) + j /\ p + (i + j) = (p + i) + j
            BY <1>1, <2>1, <6>1, SMTT(30)
          <6> QED
            BY <6>1, <6>2
        <5>2. c[q + (i + j)] = b[p + (i + j)]
          BY <5>1
        <5> QED
          BY <5>1, <5>2
      <4>2. (q + i) + k <= Len(c)
        <5> HIDE DEF k
        <5> QED
          BY <1>1, <2>1, <3>1
      <4> QED
        BY <2>1, <2>2, <4>1, <4>2, SameMessage
    <3> HIDE DEF k
    <3>5. /\ MessagesFrom(b)[p + i]
                = <<SubSeq(b, (p + i) + 1, End(b, p + i))>> \o MessagesFrom(b)[End(b, p + i)]
          /\ RemainderFrom(b)[p + i] = RemainderFrom(b)[End(b, p + i)]
      BY <2>1, <2>2, MessagesStep, RemainderStep
    <3>6. /\ MessagesFrom(c)[q + i]
                = <<SubSeq(c, (q + i) + 1, End(c, q + i))>> \o MessagesFrom(c)[End(c, q + i)]
          /\ RemainderFrom(c)[q + i] = RemainderFrom(c)[End(c, q + i)]
      BY <2>1, <3>4, MessagesStep, RemainderStep
    <3> QED
      BY <3>1, <3>3, <3>4, <3>5, <3>6
  <2>3. CASE ~Whole(b, p + i)
    <3>1. ~Whole(c, q + i)
      <4> SUFFICES ASSUME Whole(c, q + i) PROVE FALSE
        OBVIOUS
      <4> DEFINE k == 5 + c[(q + i) + 5]
      <4>1. k \in Nat /\ 5 <= k /\ End(c, q + i) = (q + i) + k /\ End(c, q + i) <= Len(c)
        BY <2>1, EndInside
      <4> HIDE DEF k
      <4>5. i + k <= n
        <5>1. (q + i) + k <= q + n
          BY <4>1
        <5> QED
          BY <1>1, <2>1, <4>1, <5>1, Cancelled, Zenon
      <4>2. \A j \in 1..k : b[(p + i) + j] = c[(q + i) + j]
        <5> TAKE j \in 1..k
        <5>1. i + j \in 1..n /\ q + (i + j) = (q + i) + j /\ p + (i + j) = (p + i) + j
          <6>1. i + j \in 1..n
            BY <2>1, <4>1, <4>5
          <6> QED
            BY <1>1, <2>1, <6>1
        <5>2. c[q + (i + j)] = b[p + (i + j)]
          BY <5>1
        <5> QED
          BY <5>1, <5>2
      <4>3. (p + i) + k <= Len(b)
        <5>1. (p + i) + k <= p + n
          BY <1>1, <2>1, <4>1, <4>5
        <5> QED
          BY <5>1
      <4>4. Whole(b, p + i)
        BY <2>1, <4>2, <4>3, SameMessage DEF k
      <4> QED
        BY <2>3, <4>4
    <3>2. MessagesFrom(b)[p + i] = <<>> /\ MessagesFrom(c)[q + i] = <<>>
      BY <2>1, <2>3, <3>1, MessagesStep
    <3>3. /\ RemainderFrom(b)[p + i] = SubSeq(b, (p + i) + 1, Len(b))
          /\ RemainderFrom(c)[q + i] = SubSeq(c, (q + i) + 1, Len(c))
      BY <2>1, <2>3, <3>1, RemainderStep
    <3>4. SubSeq(c, (q + i) + 1, Len(c)) = SubSeq(b, (p + i) + 1, Len(b))
      <4>1. /\ SubSeq(c, (q + i) + 1, Len(c)) = [j \in 1..n - i |-> c[(q + i) + j]]
            /\ SubSeq(b, (p + i) + 1, Len(b)) = [j \in 1..n - i |-> b[(p + i) + j]]
        <5>1. SubSeq(c, (q + i) + 1, q + n) = [j \in 1..n - i |-> c[(q + i) + j]]
          BY <1>1, <2>1
        <5>2. SubSeq(b, (p + i) + 1, p + n) = [j \in 1..n - i |-> b[(p + i) + j]]
          BY <1>1, <2>1
        <5> QED
          BY <5>1, <5>2
      <4>2. ASSUME NEW j \in 1..n - i PROVE c[(q + i) + j] = b[(p + i) + j]
        <5>1. i + j \in 1..n /\ q + (i + j) = (q + i) + j /\ p + (i + j) = (p + i) + j
          BY <1>1, <2>1
        <5>2. c[q + (i + j)] = b[p + (i + j)]
          BY <5>1
        <5> QED
          BY <5>1, <5>2
      <4> QED
        BY <4>1, <4>2
    <3> QED
      BY <3>2, <3>3, <3>4
  <2> QED
    BY <2>2, <2>3
<1>3. Ranked(D, rank, n) /\ S \subseteq D
  BY DEF Ranked
<1>4. Inductive(D, rank, S)
  BY <1>2, <1>3 DEF Inductive
<1>5. S = D
  <2> HIDE DEF S, D, rank
  <2> QED
    BY <1>3, <1>4, RankInduction
<1>6. 0 \in S /\ p + 0 = p /\ q + 0 = q
  <2> HIDE DEF S
  <2> QED
    BY <1>1, <1>5
<1> QED
  BY <1>6

-----------------------------------------------------------------------------
(* One message in the place of another *)

LEMMA OneIsOne ==
    ASSUME NEW u, OneMessage(u)
    PROVE  Messages(u) = <<u>> /\ Len(u) = 5 + u[5] /\ u \in Seq(Byte) /\ Len(u) > 5
<1>1. u \in Seq(Byte) /\ Whole(u, 0) /\ End(u, 0) = Len(u) /\ 0 \in 0..Len(u) /\ Len(u) > 5
  BY DEF OneMessage
<1>2. Len(u) = 5 + u[5] /\ Len(u) \in 0..Len(u)
  <2>1. End(u, 0) = 0 + (5 + u[0 + 5]) /\ End(u, 0) \in 0..Len(u) /\ 5 + u[0 + 5] \in Nat
    BY <1>1, EndInside
  <2> QED
    BY <1>1, <2>1
<1>3. ~Whole(u, Len(u))
  BY <1>1 DEF Whole
<1>4. MessagesFrom(u)[Len(u)] = <<>>
  BY <1>1, <1>2, <1>3, MessagesStep
<1>5. MessagesFrom(u)[0] = <<SubSeq(u, 0 + 1, Len(u))>> \o <<>>
  BY <1>1, <1>4, MessagesStep
<1>6. SubSeq(u, 0 + 1, Len(u)) = u
  BY <1>1
<1>7. <<u>> \o <<>> = <<u>>
  OBVIOUS
<1> QED
  BY <1>1, <1>2, <1>5, <1>6, <1>7 DEF Messages

\* c is b with u in the place of the message at pos.
Spliced(b, pos, u, c) ==
    /\ c \in Seq(Byte) /\ Len(c) = pos + Len(u) + (Len(b) - End(b, pos))
    /\ \A i \in 1..pos : c[i] = b[i]
    /\ \A i \in 1..Len(u) : c[pos + i] = u[i]
    /\ \A i \in 1..Len(b) - End(b, pos) : c[(pos + Len(u)) + i] = b[End(b, pos) + i]

\* The walk over what was replaced, and the walk over what came out of it.
Replacing(b, pos, done, u, c) ==
    /\ b \in Seq(Byte) /\ pos \in 0..Len(b) /\ Whole(b, pos)
    /\ done \in Seq(Seq(Byte)) /\ Passed(b, pos, done)
    /\ OneMessage(u) /\ Spliced(b, pos, u, c)

OnlyOneReplaced(b, pos, done, u, c) ==
    LET rest == MessagesFrom(b)[End(b, pos)]
    IN  /\ rest \in Seq(Seq(Byte))
        /\ Messages(b) = done \o (<<SubSeq(b, pos + 1, End(b, pos))>> \o rest)
        /\ Messages(c) = done \o (<<u>> \o rest)
        /\ Remainder(c) = Remainder(b)

LEMMA SplicedWalks ==
    ASSUME NEW b, NEW pos, NEW done, NEW u, NEW c, Replacing(b, pos, done, u, c)
    PROVE  OnlyOneReplaced(b, pos, done, u, c)
<1> USE DEF Replacing
<1> DEFINE end == End(b, pos)
           rest == MessagesFrom(b)[end]
<1>1. end \in 0..Len(b) /\ end \in Nat /\ pos \in Nat /\ Len(b) \in Nat /\ pos + 5 <= end
  BY EndInside
<1>2. rest \in Seq(Seq(Byte))
  BY <1>1, MessagesStep
<1>3. u \in Seq(Byte) /\ Len(u) = 5 + u[5] /\ Whole(u, 0) /\ End(u, 0) = Len(u) /\ 0 \in 0..Len(u)
  <2>1. u \in Seq(Byte) /\ Len(u) = 5 + u[5]
    BY OneIsOne
  <2>2. Whole(u, 0) /\ End(u, 0) = Len(u)
    BY DEF OneMessage
  <2> QED
    BY <2>1, <2>2
<1> HIDE DEF end
<1>4. /\ c \in Seq(Byte) /\ Len(c) = pos + Len(u) + (Len(b) - end)
      /\ \A i \in 1..pos : c[i] = b[i]
      /\ \A i \in 1..Len(u) : c[pos + i] = u[i]
      /\ \A i \in 1..Len(b) - end : c[(pos + Len(u)) + i] = b[end + i]
  BY DEF Spliced, end
<1>5. /\ pos \in 0..Len(c) /\ pos + Len(u) \in 0..Len(c) /\ pos <= Len(c)
      /\ Len(u) \in Nat /\ 0 \in 0..Len(c) /\ pos <= Len(b) /\ 0 \in 0..Len(b)
      /\ Len(b) - end \in Nat
      /\ Len(c) = (pos + Len(u)) + (Len(b) - end) /\ Len(b) = end + (Len(b) - end)
  <2>1. Len(u) \in Nat
    BY <1>3
  <2> QED
    BY <1>1, <1>4, <2>1, SMTT(30)
<1>6. /\ Messages(b) = done \o MessagesFrom(b)[pos] /\ Remainder(b) = RemainderFrom(b)[pos]
      /\ Messages(c) = done \o MessagesFrom(c)[pos] /\ Remainder(c) = RemainderFrom(c)[pos]
  BY <1>4, <1>5 DEF Passed, Messages, Remainder
<1>7. /\ MessagesFrom(b)[pos] = <<SubSeq(b, pos + 1, end)>> \o rest
      /\ RemainderFrom(b)[pos] = RemainderFrom(b)[end]
  BY MessagesStep, RemainderStep DEF end
<1>8. Whole(c, pos) /\ End(c, pos) = pos + Len(u) /\ SubSeq(c, pos + 1, End(c, pos)) = u
  <2>1. \A i \in 1..5 + u[0 + 5] : c[pos + i] = u[0 + i]
    <3>1. \A i \in 1..Len(u) : c[pos + i] = u[i]
      BY <1>4
    <3>2. 5 + u[0 + 5] = Len(u)
      BY <1>3
    <3>3. \A i \in 1..Len(u) : 0 + i = i
      OBVIOUS
    <3> QED
      BY <3>1, <3>2, <3>3
  <2>2. pos + (5 + u[0 + 5]) <= Len(c) /\ 5 + u[0 + 5] = Len(u)
    BY <1>3, <1>5
  <2>3. /\ Whole(c, pos) /\ End(c, pos) = pos + (5 + u[0 + 5])
        /\ SubSeq(c, pos + 1, End(c, pos)) = SubSeq(u, 0 + 1, End(u, 0))
    BY <1>3, <1>4, <1>5, <2>1, <2>2, SameMessage
  <2>4. SubSeq(u, 0 + 1, Len(u)) = u
    BY <1>3
  <2> QED
    BY <1>3, <2>2, <2>3, <2>4
<1>9. /\ MessagesFrom(c)[pos] = <<u>> \o MessagesFrom(c)[pos + Len(u)]
      /\ RemainderFrom(c)[pos] = RemainderFrom(c)[pos + Len(u)]
  BY <1>4, <1>5, <1>8, MessagesStep, RemainderStep
<1>10. /\ MessagesFrom(c)[pos + Len(u)] = rest
       /\ RemainderFrom(c)[pos + Len(u)] = RemainderFrom(b)[end]
  <2> DEFINE q == pos + Len(u)
             n == Len(b) - end
  <2>1. /\ end \in 0..Len(b) /\ q \in 0..Len(c) /\ n \in Nat /\ Len(b) = end + n /\ Len(c) = q + n
        /\ c \in Seq(Byte) /\ \A i \in 1..n : c[q + i] = b[end + i]
    BY <1>1, <1>4, <1>5
  <2> HIDE DEF q, n
  <2>2. MessagesFrom(c)[q] = MessagesFrom(b)[end] /\ RemainderFrom(c)[q] = RemainderFrom(b)[end]
    BY <2>1, SameWalk
  <2> QED
    BY <2>2 DEF q
<1> QED
  BY <1>2, <1>6, <1>7, <1>9, <1>10 DEF end, OnlyOneReplaced

\* In a list whose first entry with a key is known, that entry is the one replaced.
FirstOfKey(done, m, rest, u, old) ==
    /\ done \in Seq(Seq(Byte)) /\ m \in Seq(Byte) /\ rest \in Seq(Seq(Byte))
    /\ old = done \o (<<m>> \o rest)
    /\ Key(m) = Key(u) /\ \A j \in 1..Len(done) : Key(done[j]) # Key(u)

Hits(old, u) == {i \in DOMAIN old : Key(old[i]) = Key(u)}

LEMMA FirstHit ==
    ASSUME NEW done, NEW m, NEW rest, NEW u, NEW old, FirstOfKey(done, m, rest, u, old)
    PROVE  /\ Hits(old, u) # {}
           /\ (CHOOSE i \in Hits(old, u) : \A j \in Hits(old, u) : i <= j) = Len(done) + 1
           /\ SubSeq(old, 1, Len(done)) = done
           /\ SubSeq(old, Len(done) + 2, Len(old)) = rest
<1> DEFINE X == Seq(Byte)
<1>0. /\ done \in Seq(X) /\ m \in X /\ rest \in Seq(X)
      /\ Len(done) \in Nat /\ Len(rest) \in Nat
  BY DEF FirstOfKey
<1> HIDE DEF X
<1> DEFINE hits == Hits(old, u)
           k == Len(done) + 1
           tail == <<m>> \o rest
<1>1. tail \in Seq(X) /\ Len(tail) = 1 + Len(rest) /\ tail[1] = m
      /\ \A i \in 1..Len(rest) : tail[1 + i] = rest[i]
  BY <1>0
<1> HIDE DEF tail
<1>2. /\ old \in Seq(X) /\ Len(old) = Len(done) + Len(tail)
      /\ \A i \in 1..Len(done) : old[i] = done[i]
      /\ \A i \in 1..Len(tail) : old[Len(done) + i] = tail[i]
  <2>1. old = done \o tail
    BY DEF FirstOfKey, tail
  <2>2. done \in Seq(X) /\ tail \in Seq(X)
    BY <1>0, <1>1
  <2>3. /\ done \o tail \in Seq(X) /\ Len(done \o tail) = Len(done) + Len(tail)
        /\ \A i \in 1..Len(done) : (done \o tail)[i] = done[i]
    BY <2>2, ConcatProperties
  <2>4. \A i \in 1..Len(tail) : (done \o tail)[Len(done) + i] = tail[i]
    BY <2>2
  <2> QED
    BY <2>1, <2>3, <2>4
<1>3. k \in DOMAIN old /\ old[k] = m /\ k \in Nat
  BY <1>0, <1>1, <1>2
<1>4. \A i \in hits : i \in Nat /\ k <= i
  <2> TAKE i \in hits
  <2>1. i \in 1..Len(old) /\ Key(old[i]) = Key(u)
    BY <1>2 DEF Hits
  <2>2. ~(i \in 1..Len(done))
    BY <1>2, <2>1 DEF FirstOfKey
  <2> QED
    BY <1>0, <2>1, <2>2
<1>5. k \in hits
  BY <1>3 DEF FirstOfKey, Hits
<1> HIDE DEF k, hits
<1>6. (CHOOSE i \in hits : \A j \in hits : i <= j) = k
  <2>1. \A i \in hits : (\A j \in hits : i <= j) => i = k
    <3> TAKE i \in hits
    <3> HAVE \A j \in hits : i <= j
    <3>1. i <= k /\ k <= i /\ i \in Nat
      BY <1>4, <1>5
    <3> QED
      BY <1>3, <3>1
  <2>2. \A j \in hits : k <= j
    BY <1>4
  <2> QED
    BY <1>5, <2>1, <2>2
<1>7. SubSeq(old, 1, Len(done)) = done
  BY <1>0, <1>1, <1>2
<1>8. SubSeq(old, Len(done) + 2, Len(old)) = rest
  <2>1. Len(old) = Len(done) + (1 + Len(rest))
    BY <1>0, <1>1, <1>2
  <2>2. SubSeq(old, Len(done) + 2, Len(old)) = [i \in 1..Len(rest) |-> old[(Len(done) + 1) + i]]
    <3> DEFINE n == Len(done)
               r == Len(rest)
    <3>1. n \in Nat /\ r \in Nat /\ old \in Seq(X) /\ Len(old) = n + (1 + r)
      BY <1>0, <1>2, <2>1
    <3> HIDE DEF n, r
    <3>2. SubSeq(old, n + 2, Len(old)) = [i \in 1..r |-> old[(n + 1) + i]]
      BY <3>1
    <3> QED
      BY <3>2 DEF n, r
  <2>3. ASSUME NEW i \in 1..Len(rest) PROVE old[(Len(done) + 1) + i] = rest[i]
    <3>1. 1 + i \in 1..Len(tail) /\ Len(done) + (1 + i) = (Len(done) + 1) + i
      BY <1>0, <1>1
    <3>2. old[Len(done) + (1 + i)] = tail[1 + i] /\ tail[1 + i] = rest[i]
      BY <1>1, <1>2, <3>1
    <3> QED
      BY <3>1, <3>2
  <2>4. rest = [i \in 1..Len(rest) |-> rest[i]]
    BY <1>0
  <2> QED
    BY <2>2, <2>3, <2>4
<1> QED
  BY <1>5, <1>6, <1>7, <1>8 DEF k, hits

\* Behind the header, an image that tells its length is its messages.
LEMMA DataBytes ==
    ASSUME NEW image, Told(image)
    PROVE  /\ Len(Data(image)) = Len(image) - 3 /\ Len(image) \in Nat /\ 3 <= Len(image)
           /\ Data(image) \in Seq(Byte)
           /\ \A i \in 1..Len(image) - 3 : Data(image)[i] = image[i + 3]
<1>1. /\ image \in Seq(Byte) /\ Len(image) \in Int /\ 3 <= Len(image)
      /\ 3 + image[2] * 256 + image[3] = Len(image)
  BY ToldFacts, Zenon
<1>2. Data(image) = SubSeq(image, 4, Len(image))
  BY <1>1, Zenon DEF Data
<1>3. \A i \in 1..Len(image) - 3 : Data(image)[i] = image[i + 3]
  BY <1>1, <1>2
<1> QED
  BY <1>1, <1>3, DataOfTold

\* Rewriting the header leaves the messages.
LEMMA SizedBytes ==
    ASSUME NEW image \in Seq(Byte), 3 <= Len(image)
    PROVE  /\ Len(Sized(image)) = Len(image)
           /\ \A i \in 4..Len(image) : Sized(image)[i] = image[i]
<1> DEFINE hi == ((Len(image) - 3) \div 256) % 256
           lo == (Len(image) - 3) % 256
<1>1. Sized(image) = [image EXCEPT ![2] = hi, ![3] = lo]
  BY DEF Sized
<1> HIDE DEF hi, lo
<1>2. hi \in Byte /\ lo \in Byte
  BY ByteBounds DEF hi, lo
<1> QED
  BY <1>1, <1>2

\* A part of a known length.
LEMMA Slice ==
    \A b \in Seq(Byte) : \A i, k \in Nat : i + k <= Len(b) =>
        /\ SubSeq(b, i + 1, i + k) \in Seq(Byte) /\ Len(SubSeq(b, i + 1, i + k)) = k
        /\ \A j \in 1..k : SubSeq(b, i + 1, i + k)[j] = b[i + j]
<1> TAKE b \in Seq(Byte)
<1> TAKE i, k \in Nat
<1> HAVE i + k <= Len(b)
<1>1. i + 1 \in Int /\ i + k \in Int /\ 1 <= i + 1 /\ i + 1 <= (i + k) + 1 /\ (i + k) - (i + 1) + 1 = k
  OBVIOUS
<1>2. SubSeq(b, i + 1, i + k) \in Seq(Byte) /\ Len(SubSeq(b, i + 1, i + k)) = k
  BY <1>1, PartOfBytes
<1>3. \A j \in 1..k : SubSeq(b, i + 1, i + k)[j] = b[i + j]
  OBVIOUS
<1> QED
  BY <1>2, <1>3

\* The three parts an image is put together from.
Joins(x, a, u, t) ==
    /\ x \in Seq(Byte)
    /\ Len(x) = Len(a) + Len(u) + Len(t)
    /\ \A i \in 1..Len(a) : x[i] = a[i]
    /\ \A i \in 1..Len(u) : x[Len(a) + i] = u[i]
    /\ \A i \in 1..Len(t) : x[(Len(a) + Len(u)) + i] = t[i]

LEMMA ThreeParts == \A a, u, t \in Seq(Byte) : Joins((a \o u) \o t, a, u, t)
<1> TAKE a, u, t \in Seq(Byte)
<1> DEFINE h == a \o u
<1>1. /\ h \in Seq(Byte) /\ Len(h) = Len(a) + Len(u)
      /\ \A i \in 1..Len(a) + Len(u) : h[i] = IF i <= Len(a) THEN a[i] ELSE u[i - Len(a)]
  BY ConcatBytes, Zenon
<1> HIDE DEF h
<1>2. /\ h \o t \in Seq(Byte) /\ Len(h \o t) = Len(h) + Len(t)
      /\ \A i \in 1..Len(h) + Len(t) : (h \o t)[i] = IF i <= Len(h) THEN h[i] ELSE t[i - Len(h)]
  BY <1>1, ConcatBytes, Zenon
<1> DEFINE x == h \o t
<1> HIDE DEF x
<1>3. \A i \in 1..Len(a) : x[i] = a[i]
  BY <1>1, <1>2 DEF x
<1>4. \A i \in 1..Len(u) : x[Len(a) + i] = u[i]
  <2> TAKE i \in 1..Len(u)
  <2>1. Len(a) + i \in 1..Len(h) + Len(t) /\ Len(a) + i <= Len(h) /\ Len(a) + i \in 1..Len(a) + Len(u)
        /\ ~(Len(a) + i <= Len(a)) /\ (Len(a) + i) - Len(a) = i
    BY <1>1
  <2>2. x[Len(a) + i] = h[Len(a) + i]
    BY <1>2, <2>1 DEF x
  <2>3. h[Len(a) + i] = u[i]
    BY <1>1, <2>1
  <2> QED
    BY <2>2, <2>3
<1>5. \A i \in 1..Len(t) : x[(Len(a) + Len(u)) + i] = t[i]
  <2> TAKE i \in 1..Len(t)
  <2>1. /\ (Len(a) + Len(u)) + i \in 1..Len(h) + Len(t) /\ ~((Len(a) + Len(u)) + i <= Len(h))
        /\ ((Len(a) + Len(u)) + i) - Len(h) = i
    BY <1>1
  <2> QED
    BY <1>2, <2>1 DEF x
<1>6. x \in Seq(Byte) /\ Len(x) = Len(a) + Len(u) + Len(t)
  <2>1. Len(h \o t) = Len(a) + Len(u) + Len(t)
    BY <1>1, <1>2
  <2> QED
    BY <1>2, <2>1 DEF x
<1> QED
  BY <1>3, <1>4, <1>5, <1>6 DEF Joins, x, h

\* The update's turn: the iterator has read the message at pos, and there is room.
Turn(it, b, pos) ==
    /\ it.pos = End(b, pos) /\ it.len = b[pos + 5]
    /\ new \in Seq(Byte) /\ Len(flash) + Len(new) <= FlashSize

\* What update_config() programs is the image with the update in the message's place.
LEMMA AssembledSpliced ==
    ASSUME Told(flash), NEW b \in Seq(Byte), b = Data(flash), NEW pos \in 0..Len(b), Whole(b, pos),
           NEW it, Turn(it, b, pos)
    PROVE  Spliced(b, pos, new, Data(Assembled(it)))
<1>1. /\ b \in Seq(Byte) /\ Len(b) = Len(flash) - 3 /\ Len(flash) \in Nat /\ 3 <= Len(flash)
      /\ \A i \in 1..Len(flash) - 3 : b[i] = flash[i + 3]
  BY DataBytes
<1>2. PICK end \in Nat : /\ end = End(b, pos) /\ end <= Len(b) /\ pos \in Nat /\ pos <= end
                         /\ end = pos + (5 + b[pos + 5]) /\ b[pos + 5] \in Int
  <2>1. /\ End(b, pos) \in Nat /\ End(b, pos) <= Len(b) /\ pos \in Nat /\ pos + 5 <= End(b, pos)
        /\ End(b, pos) = pos + (5 + b[pos + 5]) /\ b[pos + 5] \in Int
    BY <1>1, EndInside
  <2> QED
    BY <2>1
<1>a. Len(b) \in Int /\ end <= Len(b) /\ pos \in Nat /\ pos <= end
  BY <1>1, <1>2
<1>b. \A i \in 1..Len(flash) - 3 : b[i] = flash[i + 3]
  BY <1>1
<1>c. Len(flash) = Len(b) + 3 /\ Len(flash) \in Nat
  BY <1>1
<1>3. PICK r \in Nat : Len(b) = end + r
  <2>1. Len(b) - end \in Nat /\ Len(b) = end + (Len(b) - end)
    BY <1>a
  <2> QED
    BY <2>1
<1>0. PICK l \in Nat : l = Len(new) /\ new \in Seq(Byte)
  BY DEF Turn
<1> DEFINE n == Len(flash)
           a == SubSeq(flash, 1, pos + 3)
           t == SubSeq(flash, end + 4, n)
           u == new
           x == (a \o u) \o t
           image == Assembled(it)
<1>4. /\ u \in Seq(Byte) /\ Len(u) = l /\ flash \in Seq(Byte) /\ n = Len(flash)
      /\ n = (end + r) + 3 /\ n - 3 = end + r /\ n \in Nat
  <2>1. n = (end + r) + 3 /\ n - 3 = end + r /\ n \in Nat
    BY <1>3, <1>c
  <2> QED
    BY <1>0, <2>1 DEF Told
<1> HIDE DEF n, u
<1>5. a \in Seq(Byte) /\ Len(a) = pos + 3 /\ \A i \in 1..pos + 3 : a[i] = flash[i]
  <2>1. 0 \in Nat /\ pos + 3 \in Nat /\ 0 + (pos + 3) <= Len(flash) /\ 0 + 1 = 1 /\ 0 + (pos + 3) = pos + 3
    BY <1>4, <1>a
  <2>2. /\ SubSeq(flash, 0 + 1, 0 + (pos + 3)) \in Seq(Byte)
        /\ Len(SubSeq(flash, 0 + 1, 0 + (pos + 3))) = pos + 3
        /\ \A j \in 1..pos + 3 : SubSeq(flash, 0 + 1, 0 + (pos + 3))[j] = flash[0 + j]
    <3>1. flash \in Seq(Byte)
      BY <1>4
    <3> QED
      BY <2>1, <3>1, Slice, ZenonT(30)
  <2>3. \A j \in 1..pos + 3 : 0 + j = j
    OBVIOUS
  <2> QED
    BY <2>1, <2>2, <2>3
<1>6. t \in Seq(Byte) /\ Len(t) = r /\ \A i \in 1..r : t[i] = flash[(end + 3) + i]
  <2>1. end + 3 \in Nat /\ (end + 3) + r <= Len(flash) /\ (end + 3) + 1 = end + 4 /\ (end + 3) + r = n
    BY <1>4
  <2>2. /\ SubSeq(flash, (end + 3) + 1, (end + 3) + r) \in Seq(Byte)
        /\ Len(SubSeq(flash, (end + 3) + 1, (end + 3) + r)) = r
        /\ \A j \in 1..r : SubSeq(flash, (end + 3) + 1, (end + 3) + r)[j] = flash[(end + 3) + j]
    <3>1. flash \in Seq(Byte)
      BY <1>4
    <3> QED
      BY <2>1, <3>1, Slice, ZenonT(30)
  <2> QED
    BY <2>1, <2>2
<1> HIDE DEF a, t
<1>7. image = Sized(x)
  <2>1. it.pos + 3 - it.len - 5 = pos + 3 /\ it.pos + 4 = end + 4
    <3>1. it.pos = end /\ it.len = b[pos + 5]
      BY <1>2 DEF Turn
    <3> QED
      BY <1>2, <3>1
  <2>2. data_length + 3 = n
    BY <1>4, LengthInFlash
  <2> QED
    BY <2>1, <2>2, Zenon DEF Assembled, a, t, u
<1>8. x = (a \o u) \o t
  BY DEF u
<1> HIDE DEF x
<1>9. /\ x \in Seq(Byte) /\ Len(x) = (pos + 3) + l + r
      /\ \A i \in 1..pos + 3 : x[i] = a[i]
      /\ \A i \in 1..l : x[(pos + 3) + i] = u[i]
      /\ \A i \in 1..r : x[((pos + 3) + l) + i] = t[i]
  <2>1. a \in Seq(Byte) /\ u \in Seq(Byte) /\ t \in Seq(Byte)
    BY <1>4, <1>5, <1>6
  <2>2. Joins(x, a, u, t)
    BY <2>1, ThreeParts, Zenon DEF x
  <2> QED
    BY <1>4, <1>5, <1>6, <2>2 DEF Joins
<1>10. 3 <= Len(x) /\ Len(x) <= FlashSize
  <2>1. n + l <= FlashSize
    BY <1>0 DEF n, Turn
  <2> QED
    BY <1>4, <1>9, <1>a, <2>1, SizeBounds
<1>11. Told(image)
  BY <1>7, <1>9, <1>10, SizedIsTold
<1>12. Len(image) = Len(x) /\ \A i \in 4..Len(x) : image[i] = x[i]
  BY <1>7, <1>9, <1>10, SizedBytes
<1> HIDE DEF image
<1> DEFINE c == Data(image)
<1>13. c \in Seq(Byte) /\ Len(c) = pos + l + r /\ \A i \in 1..pos + l + r : c[i] = x[i + 3]
  <2>1. /\ c \in Seq(Byte) /\ Len(c) = Len(image) - 3 /\ Len(image) \in Nat /\ 3 <= Len(image)
        /\ \A i \in 1..Len(image) - 3 : c[i] = image[i + 3]
    BY <1>11, DataBytes
  <2> HIDE DEF c
  <2>2. Len(image) - 3 = pos + l + r
    BY <1>4, <1>9, <1>a, <1>12
  <2>3. \A i \in 1..pos + l + r : i + 3 \in 4..Len(x)
    <3>1. Len(x) = (pos + 3) + l + r
      BY <1>9
    <3> QED
      BY <1>a, <3>1
  <2> QED
    BY <1>12, <2>1, <2>2, <2>3
<1> HIDE DEF c
<1>14. ASSUME NEW i \in 1..pos PROVE c[i] = b[i]
  <2>1. i + 3 \in 1..pos + 3 /\ i \in 1..pos + l + r /\ i \in 1..Len(flash) - 3
    BY <1>4, <1>a
  <2>2. c[i] = x[i + 3] /\ x[i + 3] = a[i + 3] /\ a[i + 3] = flash[i + 3] /\ b[i] = flash[i + 3]
    BY <1>5, <1>9, <1>13, <1>b, <2>1
  <2> QED
    BY <2>2
<1>15. ASSUME NEW i \in 1..l PROVE c[pos + i] = u[i]
  <2>1. pos + i \in 1..pos + l + r /\ (pos + i) + 3 = (pos + 3) + i
    BY <1>4, <1>a
  <2>2. c[pos + i] = x[(pos + i) + 3]
    BY <1>13, <2>1
  <2>3. x[(pos + 3) + i] = u[i]
    BY <1>9
  <2> QED
    BY <2>1, <2>2, <2>3
<1>16. ASSUME NEW i \in 1..r PROVE c[(pos + l) + i] = b[end + i]
  <2>1. /\ (pos + l) + i \in 1..pos + l + r
        /\ ((pos + l) + i) + 3 = ((pos + 3) + l) + i
        /\ end + i \in 1..Len(flash) - 3 /\ (end + i) + 3 = (end + 3) + i
    BY <1>4, <1>a
  <2>2. c[(pos + l) + i] = x[((pos + 3) + l) + i]
    BY <1>13, <2>1
  <2>3. x[((pos + 3) + l) + i] = t[i]
    BY <1>9
  <2>4. t[i] = flash[(end + 3) + i] /\ b[end + i] = flash[(end + i) + 3]
    BY <1>6, <1>b, <2>1
  <2> QED
    BY <2>1, <2>2, <2>3, <2>4
<1> QED
  <2>1. Len(b) - end = r
    BY <1>3
  <2> QED
    BY <1>0, <1>2, <1>13, <1>14, <1>15, <1>16, <2>1 DEF Spliced, c, image, u

-----------------------------------------------------------------------------
(* What an update does to the messages *)

\* What a scan has passed, it did not find.
NoHit(done) == \A i \in 1..Len(done) : Key(done[i]) # Key(new)
Scanned ==
    \E done \in Seq(Seq(Byte)) :
        Passed(Data(flash), itr.pos, done) /\ (FieldsTold => NoHit(done))

\* What an update of one field is compared by.
FieldSought == want = [type |-> new[1], id |-> new[3] * 256 + new[4], field |-> new[6]]

UpdatesInv ==
    /\ pc = "scan" /\ OneMessage(new) => FieldSought /\ Scanned
    /\ UpdateExact
    /\ WholeMessages

\* The iterator goes on over a message that is there.
LEMMA HasNext ==
    ASSUME NEW b \in Seq(Byte), NEW pos \in 0..Len(b)
    PROVE  cei_has_next(b, pos) <=> Whole(b, pos)
<1>1. CASE pos + 5 <= Len(b)
  <2>1. pos + 5 \in 1..Len(b)
    BY <1>1
  <2>2. b[pos + 5] \in Byte
    BY <2>1, ElementOfSeq
  <2>3. b[pos + 5] \in Int
    BY <2>2, ByteBounds
  <2> QED
    BY <1>1, <2>3 DEF cei_has_next, Whole, End
<1>2. CASE ~(pos + 5 <= Len(b))
  BY <1>2 DEF cei_has_next, Whole
<1> QED
  BY <1>1, <1>2

\* What the iterator makes of a message m in b.
ReadAs(it, m, b) ==
    /\ it.type = m[1] /\ it.id = m[3] * 256 + m[4]
    /\ Len(m) > 5 => it.pay < Len(b) /\ b[it.pay + 1] = m[6]

LEMMA MessageRead ==
    ASSUME NEW b \in Seq(Byte), NEW pos \in 0..Len(b), Whole(b, pos),
           NEW it, it.type = b[pos + 1], it.id = b[pos + 3] * 256 + b[pos + 4], it.pay = pos + 5
    PROVE  LET m == SubSeq(b, pos + 1, End(b, pos))
           IN  m \in Seq(Byte) /\ 5 <= Len(m) /\ ReadAs(it, m, b)
<1> DEFINE k == 5 + b[pos + 5]
           m == SubSeq(b, pos + 1, pos + k)
<1>1. /\ k \in Nat /\ 5 <= k /\ pos \in Nat /\ pos + k <= Len(b) /\ End(b, pos) = pos + k
  BY EndInside
<1> HIDE DEF k
<1>2. m \in Seq(Byte) /\ Len(m) = k /\ \A i \in 1..k : m[i] = b[pos + i]
  BY <1>1, Slice, ZenonT(30)
<1> HIDE DEF m
<1>3. m[1] = b[pos + 1] /\ m[3] = b[pos + 3] /\ m[4] = b[pos + 4]
  <2>1. 1 \in 1..k /\ 3 \in 1..k /\ 4 \in 1..k
    BY <1>1
  <2> QED
    BY <1>2, <2>1
<1>4. k > 5 => it.pay < Len(b) /\ b[it.pay + 1] = m[6]
  <2> SUFFICES ASSUME k > 5 PROVE pos + 5 < Len(b) /\ b[(pos + 5) + 1] = m[6]
    OBVIOUS
  <2>1. pos + 5 < Len(b)
    BY <1>1
  <2>2. 6 \in 1..k /\ (pos + 5) + 1 = pos + 6
    BY <1>1
  <2> QED
    BY <1>2, <2>1, <2>2
<1>5. ReadAs(it, m, b)
  BY <1>2, <1>3, <1>4 DEF ReadAs
<1> QED
  BY <1>1, <1>2, <1>5 DEF m

\* A message that tells its field is compared by its type, id and field.
MatchIsTold(it, m) ==
    /\ TRUE \in Matches(it) => Key(m) = Key(new)
    /\ FALSE \in Matches(it) => Key(m) # Key(new)

SameIds(a, b, c, d) == (a * 256 + b = c * 256 + d) <=> (a = c /\ b = d)

LEMMA SameId == \A a, b, c, d \in Byte : SameIds(a, b, c, d)
<1> TAKE a, b, c, d \in Byte
<1>1. /\ a \in Int /\ b \in Int /\ c \in Int /\ d \in Int
      /\ 0 <= b /\ b <= 255 /\ 0 <= d /\ d <= 255
  BY ByteBounds
<1> QED
  BY <1>1 DEF SameIds

LEMMA MatchesKey ==
    ASSUME NEW m \in Seq(Byte), 5 <= Len(m), NEW it, ReadAs(it, m, Data(flash)),
           new \in Seq(Byte), Len(new) > 5, FieldSought,
           SameElement(m, new) => Len(m) > 5
    PROVE  MatchIsTold(it, m)
<1>1. m[3] \in Byte /\ m[4] \in Byte
  <2>1. 3 \in 1..Len(m) /\ 4 \in 1..Len(m)
    OBVIOUS
  <2> QED
    BY <2>1, ElementOfSeq
<1>2. new[3] \in Byte /\ new[4] \in Byte
  <2>1. 3 \in 1..Len(new) /\ 4 \in 1..Len(new)
    OBVIOUS
  <2> QED
    BY <2>1, ElementOfSeq
<1>3. (m[3] * 256 + m[4] = new[3] * 256 + new[4]) <=> (m[3] = new[3] /\ m[4] = new[4])
  <2>1. SameIds(m[3], m[4], new[3], new[4])
    BY <1>1, <1>2, SameId, Zenon
  <2> QED
    BY <2>1, Zenon DEF SameIds
<1>4. it.type = want.type /\ it.id = want.id <=> SameElement(m, new)
  <2>1. /\ it.type = m[1] /\ it.id = m[3] * 256 + m[4]
        /\ want.type = new[1] /\ want.id = new[3] * 256 + new[4]
    BY DEF ReadAs, FieldSought
  <2> QED
    BY <1>3, <2>1 DEF SameElement
<1>5. want.field = new[6]
  BY DEF FieldSought
<1>6. CASE SameElement(m, new)
  <2>1. Len(m) > 5
    BY <1>6
  <2>2. FieldsOf(Data(flash), it) = {m[6]}
    BY <2>1 DEF FieldsOf, ReadAs
  <2>3. \A v \in Matches(it) : v = (m[6] = new[6])
    <3>1. Matches(it) = {f = want.field : f \in FieldsOf(Data(flash), it)}
      BY <1>4, <1>6, Zenon DEF Matches
    <3>2. \A v \in Matches(it) : \E f \in {m[6]} : v = (f = want.field)
      BY <2>2, <3>1, Zenon
    <3> QED
      BY <1>5, <3>2
  <2>4. Key(m) = Key(new) <=> m[6] = new[6]
    BY <1>6, <2>1 DEF Key, SameElement
  <2> QED
    BY <2>3, <2>4 DEF MatchIsTold
<1>7. CASE ~SameElement(m, new)
  <2>1. Matches(it) = {FALSE}
    BY <1>4, <1>7, Zenon DEF Matches
  <2>2. Key(m) # Key(new)
    BY <1>7 DEF Key, SameElement
  <2> QED
    BY <2>1, <2>2 DEF MatchIsTold
<1> QED
  BY <1>6, <1>7

\* A scan starts with nothing passed.
LEMMA UpdatesCalled ==
    ASSUME NEW u \in Seq(Byte), NEW behind \in Byte, update_config(u, behind)
    PROVE  UpdatesInv'
<1>1. /\ new' = u /\ want' \in FirstMessage(u, behind) /\ pc' = "scan"
      /\ itr'.pos = 0 /\ flash' = flash /\ before' = flash
  BY DEF update_config, config_element_iterator_init
<1>2. Scanned'
  <2>1. Passed(Data(flash'), 0, <<>>)
    BY PassedNone
  <2>2. NoHit(<<>>)'
    BY DEF NoHit
  <2>3. <<>> \in Seq(Seq(Byte))
    OBVIOUS
  <2> QED
    BY <1>1, <2>1, <2>2, <2>3 DEF Scanned
<1>3. UpdateExact' /\ WholeMessages'
  BY <1>1 DEF UpdateExact, WholeMessages
<1>4. ASSUME OneMessage(u)
      PROVE  want' = [type |-> u[1], id |-> u[3] * 256 + u[4], field |-> u[6]]
  <2>1. 0 \in 0..Len(u) /\ Len(u) > 5 /\ Whole(u, 0)
    BY <1>4 DEF OneMessage
  <2>2. cei_has_next(u, 0)
    BY <2>1, HasNext
  <2> QED
    BY <1>1, <2>1, <2>2 DEF FirstMessage, cei_next, config_element_iterator_init
<1> QED
  BY <1>1, <1>2, <1>3, <1>4 DEF UpdatesInv, FieldSought

LEMMA UpdatesSaved ==
    ASSUME NEW s, apply_config(s)
    PROVE  UpdatesInv'
<1>1. pc' = "idle" /\ before' = flash'
  BY DEF apply_config
<1> QED
  BY <1>1 DEF UpdatesInv, UpdateExact, WholeMessages

\* What the iterator has read, where the scan stands.
LEMMA Read ==
    ASSUME ElementsInv, UpdatesInv, pc = "scan", cei_has_next(Data(flash), itr.pos),
           OneMessage(new), NEW it, it = cei_next(Data(flash), itr)
    PROVE  LET b == Data(flash)
               m == SubSeq(b, itr.pos + 1, End(b, itr.pos))
           IN  /\ b \in Seq(Byte) /\ b = Data(before) /\ itr.pos \in 0..Len(b)
               /\ Whole(b, itr.pos)
               /\ it.pos = End(b, itr.pos) /\ it.len = b[itr.pos + 5]
               /\ FieldsTold => MatchIsTold(it, m)
<1> DEFINE b == Data(flash)
           pos == itr.pos
           m == SubSeq(b, pos + 1, End(b, pos))
<1>1. b \in Seq(Byte) /\ Len(b) = Len(flash) - 3 /\ flash = before /\ Len(flash) \in Nat
  BY DataBytes DEF ElementsInv
<1>2. pos \in 0..Len(b)
  BY <1>1 DEF ElementsInv, TypeOK
<1>3. Whole(b, pos)
  BY <1>1, <1>2, HasNext
<1>4. /\ it.type = b[pos + 1] /\ it.id = b[pos + 3] * 256 + b[pos + 4]
      /\ it.pay = pos + 5 /\ it.pos = pos + 5 + b[pos + 5] /\ it.len = b[pos + 5]
  BY DEF cei_next
<1>5. it.pos = End(b, pos)
  BY <1>4 DEF End
<1>6. FieldSought
  BY DEF UpdatesInv
<1>7. m \in Seq(Byte) /\ 5 <= Len(m) /\ ReadAs(it, m, b)
  <2> HIDE DEF b, pos
  <2> QED
    BY <1>1, <1>2, <1>3, <1>4, MessageRead
<1>8. new \in Seq(Byte) /\ Len(new) > 5
  BY OneIsOne
<1> DEFINE rest == MessagesFrom(b)[End(b, pos)]
<1>9. ASSUME FieldsTold PROVE SameElement(m, new) => Len(m) > 5
  <2>1. PICK done \in Seq(Seq(Byte)) : Passed(b, pos, done)
    BY DEF UpdatesInv, Scanned
  <2>2. rest \in Seq(Seq(Byte)) /\ MessagesFrom(b)[pos] = <<m>> \o rest
    <3> HIDE DEF b, pos
    <3> QED
      BY <1>1, <1>2, <1>3, EndInside, MessagesStep
  <2> HIDE DEF b, pos, m, rest
  <2>3. Messages(b) = done \o MessagesFrom(b)[pos]
    <3>1. pos <= Len(b) /\ \A i \in 1..pos : b[i] = b[i]
      BY <1>2
    <3> QED
      BY <1>1, <2>1, <3>1, Zenon DEF Passed, Messages
  <2>4. Messages(b) = done \o (<<m>> \o rest)
    BY <2>2, <2>3
  <2>5. Len(done) + 1 \in DOMAIN Messages(b) /\ Messages(b)[Len(done) + 1] = m
    <3>1. <<m>> \in Seq(Seq(Byte)) /\ rest \in Seq(Seq(Byte))
      BY <1>7, <2>2
    <3> QED
      BY <2>4, <3>1
  <2>6. b = Data(before)
    BY <1>1 DEF b
  <2> QED
    BY <1>9, <2>5, <2>6 DEF FieldsTold
<1> HIDE DEF m
<1>10. FieldsTold => MatchIsTold(it, m)
  BY <1>6, <1>7, <1>8, <1>9, MatchesKey
<1> QED
  BY <1>1, <1>2, <1>3, <1>4, <1>5, <1>10 DEF b, pos, m

\* What the scan had not found when it came to the end, or to the message at pos.
LEMMA Unfound ==
    ASSUME NEW b \in Seq(Byte), NEW pos \in 0..Len(b), ~Whole(b, pos),
           NEW done \in Seq(Seq(Byte)), Passed(b, pos, done)
    PROVE  Messages(b) = done
<1>1. MessagesFrom(b)[pos] = <<>>
  BY MessagesStep
<1>2. pos <= Len(b) /\ \A i \in 1..pos : b[i] = b[i]
  OBVIOUS
<1>3. Messages(b) = done \o MessagesFrom(b)[pos]
  BY <1>2 DEF Passed, Messages
<1>4. done \o <<>> = done
  BY ConcatProperties
<1> QED
  BY <1>1, <1>3, <1>4

\* The scan goes on.
LEMMA UpdatesSkip ==
    ASSUME ElementsInv, UpdatesInv, Skip, OneMessage(new)
    PROVE  UpdatesInv'
<1> DEFINE b == Data(flash)
           pos == itr.pos
           it == cei_next(Data(flash), itr)
           m == SubSeq(b, pos + 1, End(b, pos))
<1>1. pc = "scan" /\ cei_has_next(Data(flash), itr.pos) /\ itr' = it /\ FALSE \in Matches(it)
  BY DEF Skip
<1>2. flash' = flash /\ before' = before /\ new' = new /\ want' = want /\ pc' = pc
  BY DEF Skip
<1>3. /\ b \in Seq(Byte) /\ pos \in 0..Len(b) /\ Whole(b, pos)
      /\ it.pos = End(b, pos) /\ (FieldsTold => MatchIsTold(it, m))
  BY <1>1, Read
<1>4. PICK done \in Seq(Seq(Byte)) : Passed(b, pos, done) /\ (FieldsTold => NoHit(done))
  BY <1>1 DEF UpdatesInv, Scanned
<1>5. m \in Seq(Byte)
  BY <1>3, EndInside, Zenon
<1> DEFINE more == done \o <<m>>
<1>6. Passed(b, End(b, pos), more)
  <2> HIDE DEF b, pos
  <2> QED
    BY <1>3, <1>4, PassedMore
<1>7. FieldsTold => NoHit(more)
  <2> SUFFICES ASSUME FieldsTold PROVE NoHit(more)
    OBVIOUS
  <2>1. Key(m) # Key(new)
    BY <1>1, <1>3 DEF MatchIsTold
  <2>2. \A i \in 1..Len(done) : Key(done[i]) # Key(new)
    BY <1>4 DEF NoHit
  <2> HIDE DEF m
  <2>3. Len(more) = Len(done) + 1 /\ more[Len(done) + 1] = m /\ \A i \in 1..Len(done) : more[i] = done[i]
    BY <1>4, <1>5
  <2>4. Len(done) \in Nat
    BY <1>4
  <2> HIDE DEF more
  <2>5. \A i \in 1..Len(more) : i = Len(done) + 1 \/ i \in 1..Len(done)
    BY <2>3, <2>4
  <2> QED
    BY <2>1, <2>2, <2>3, <2>5, Zenon DEF NoHit
<1>8. more \in Seq(Seq(Byte))
  <2> HIDE DEF m
  <2> QED
    BY <1>4, <1>5
<1>9. FieldsTold' <=> FieldsTold
  BY <1>2 DEF FieldsTold
<1>10. Scanned'
  <2>1. Data(flash') = b /\ itr'.pos = End(b, pos)
    BY <1>1, <1>2, <1>3
  <2> HIDE DEF b, pos, it, m, more
  <2>2. Passed(Data(flash'), itr'.pos, more)
    BY <1>6, <2>1
  <2>3. FieldsTold' => \A i \in 1..Len(more) : Key(more[i]) # Key(new')
    BY <1>2, <1>7, <1>9 DEF NoHit
  <2> QED
    BY <1>8, <2>2, <2>3 DEF Scanned, NoHit
<1>11. UpdateExact' /\ WholeMessages'
  <2>1. pc' # "done"
    BY <1>1, <1>2
  <2>2. WholeMessages'
    BY <1>2 DEF UpdatesInv, WholeMessages
  <2> QED
    BY <2>1, <2>2 DEF UpdateExact
<1>12. FieldSought'
  BY <1>1, <1>2 DEF UpdatesInv, FieldSought
<1> QED
  BY <1>10, <1>11, <1>12 DEF UpdatesInv

\* The message found is the first of its key, and the only one that changes.
LEMMA UpdatesReplace ==
    ASSUME ElementsInv, UpdatesInv, Replace, OneMessage(new)
    PROVE  UpdatesInv'
<1> DEFINE b == Data(flash)
           pos == itr.pos
           it == cei_next(Data(flash), itr)
           m == SubSeq(b, pos + 1, End(b, pos))
           c == Data(Assembled(it))
           rest == MessagesFrom(b)[End(b, pos)]
<1>1. /\ pc = "scan" /\ cei_has_next(Data(flash), itr.pos) /\ itr' = it /\ TRUE \in Matches(it)
      /\ flash' = Assembled(it)
  BY DEF Replace
<1>2. before' = before /\ new' = new /\ pc' = "done"
  BY DEF Replace
<1>3. /\ b \in Seq(Byte) /\ b = Data(before) /\ pos \in 0..Len(b) /\ Whole(b, pos)
      /\ it.pos = End(b, pos) /\ it.len = b[pos + 5]
      /\ (FieldsTold => MatchIsTold(it, m))
  BY <1>1, Read
<1>4. PICK done \in Seq(Seq(Byte)) : Passed(b, pos, done) /\ (FieldsTold => NoHit(done))
  BY <1>1 DEF UpdatesInv, Scanned
<1>5. Spliced(b, pos, new, c)
  <2>1. Told(flash) /\ new \in Seq(Byte) /\ Len(flash) + Len(new) <= FlashSize
    BY <1>1 DEF ElementsInv, TypeOK
  <2>2. Turn(it, b, pos)
    BY <1>3, <2>1 DEF Turn
  <2> HIDE DEF it, pos
  <2> QED
    BY <1>3, <2>1, <2>2, AssembledSpliced
<1>6. /\ rest \in Seq(Seq(Byte)) /\ Messages(b) = done \o (<<m>> \o rest)
      /\ Messages(c) = done \o (<<new>> \o rest) /\ Remainder(c) = Remainder(b)
  <2>1. Replacing(b, pos, done, new, c)
    BY <1>3, <1>4, <1>5, Zenon DEF Replacing
  <2> HIDE DEF b, pos, c
  <2>2. OnlyOneReplaced(b, pos, done, new, c)
    BY <2>1, SplicedWalks
  <2> QED
    BY <2>2 DEF OnlyOneReplaced
<1>7. m \in Seq(Byte)
  BY <1>3, EndInside, Zenon
<1>8. Data(flash') = c /\ Data(before') = b
  BY <1>1, <1>2, <1>3
<1>9. new \in Seq(Byte)
  BY OneIsOne
<1>10. WholeMessages'
  <2>1. Remainder(Data(flash')) = Remainder(Data(before'))
    <3> HIDE DEF b, c
    <3> QED
      BY <1>6, <1>8
  <2> QED
    BY <2>1 DEF WholeMessages
<1>11. UpdateExact'
  <2> SUFFICES ASSUME FieldsTold' PROVE UpdateExact'
    BY Zenon DEF UpdateExact
  <2>1. FieldsTold
    BY <1>2 DEF FieldsTold
  <2>2. Key(m) = Key(new) /\ \A j \in 1..Len(done) : Key(done[j]) # Key(new)
    BY <1>1, <1>3, <1>4, <2>1 DEF MatchIsTold, NoHit
  <2> DEFINE old == Messages(b)
             hits == Hits(old, new)
             first == CHOOSE i \in hits : \A j \in hits : i <= j
  <2>3. /\ hits # {} /\ first = Len(done) + 1 /\ SubSeq(old, 1, Len(done)) = done
        /\ SubSeq(old, Len(done) + 2, Len(old)) = rest
    <3> HIDE DEF m, rest, b, old
    <3>1. FirstOfKey(done, m, rest, new, old)
      BY <1>4, <1>6, <1>7, <2>2 DEF FirstOfKey, old
    <3> QED
      BY <3>1, FirstHit
  <2>4. Len(done) \in Nat
    BY <1>4
  <2> HIDE DEF b, c, m, rest, hits, first
  <2>5. SubSeq(old, 1, first - 1) = done /\ SubSeq(old, first + 1, Len(old)) = rest
    <3>1. first - 1 = Len(done) /\ first + 1 = Len(done) + 2
      BY <2>3, <2>4
    <3> QED
      BY <2>3, <3>1
  <2> HIDE DEF old
  <2>6. Messages(c) = SubSeq(old, 1, first - 1) \o <<new>> \o SubSeq(old, first + 1, Len(old))
    <3>1. <<new>> \in Seq(Seq(Byte))
      BY <1>9
    <3> DEFINE X == Seq(Byte)
    <3>2. done \in Seq(X) /\ <<new>> \in Seq(X) /\ rest \in Seq(X)
      BY <1>4, <1>6, <3>1 DEF rest
    <3> HIDE DEF X
    <3>3. done \o (<<new>> \o rest) = (done \o <<new>>) \o rest
      BY <3>2, ConcatAssociative, SMTT(30)
    <3> QED
      BY <1>6, <2>5, <3>3
  <2>7. new' = new
    BY <1>2
  <2>8. Messages(Data(flash')) =
            IF hits = {} THEN old
            ELSE SubSeq(old, 1, first - 1) \o <<new>> \o SubSeq(old, first + 1, Len(old))
    BY <1>8, <2>3, <2>6
  <2>9. old = Messages(Data(before'))
    BY <1>8 DEF old
  <2>10. hits = {i \in DOMAIN old : Key(old[i]) = Key(new')}
    BY <2>7 DEF hits, Hits
  <2> QED
    BY <2>7, <2>8, <2>9, <2>10, Zenon DEF UpdateExact, first
<1>12. pc' # "scan"
  BY <1>2
<1> QED
  BY <1>10, <1>11, <1>12 DEF UpdatesInv

\* Nothing has the key: nothing is written.
LEMMA UpdatesMissed ==
    ASSUME ElementsInv, UpdatesInv, EndOfImage, OneMessage(new)
    PROVE  UpdatesInv'
<1> DEFINE b == Data(flash)
           pos == itr.pos
<1>1. pc = "scan" /\ ~cei_has_next(b, pos) /\ pc' = "done"
  BY DEF EndOfImage
<1>2. flash' = flash /\ before' = before /\ new' = new
  BY DEF EndOfImage
<1>3. b \in Seq(Byte) /\ b = Data(before) /\ pos \in 0..Len(b)
  <2>1. b \in Seq(Byte) /\ Len(b) = Len(flash) - 3 /\ flash = before /\ Len(flash) \in Nat
    BY <1>1, DataBytes DEF ElementsInv
  <2> QED
    BY <2>1 DEF ElementsInv, TypeOK
<1>4. ~Whole(b, pos)
  <2> HIDE DEF b, pos
  <2> QED
    BY <1>1, <1>3, HasNext
<1>5. PICK done \in Seq(Seq(Byte)) : Passed(b, pos, done) /\ (FieldsTold => NoHit(done))
  BY <1>1 DEF UpdatesInv, Scanned
<1>6. Messages(b) = done
  <2> HIDE DEF b, pos
  <2> QED
    BY <1>3, <1>4, <1>5, Unfound
<1>8. UpdateExact'
  <2> SUFFICES ASSUME FieldsTold' PROVE UpdateExact'
    BY Zenon DEF UpdateExact
  <2>1. \A i \in 1..Len(done) : Key(done[i]) # Key(new)
    BY <1>2, <1>5 DEF FieldsTold, NoHit
  <2> DEFINE old == Messages(b)
             hits == {i \in DOMAIN old : Key(old[i]) = Key(new)}
  <2>2. DOMAIN old = 1..Len(done)
    BY <1>5, <1>6
  <2>3. hits = {}
    BY <1>6, <2>1, <2>2
  <2>4. Data(flash') = b /\ Data(before') = b
    BY <1>2, <1>3
  <2> HIDE DEF b
  <2>5. Messages(Data(flash')) = old /\ Messages(Data(before')) = old /\ new' = new
    BY <1>2, <2>4
  <2> HIDE DEF old
  <2> QED
    BY <2>3, <2>5, Zenon DEF UpdateExact, hits
<1>9. WholeMessages'
  BY <1>2 DEF UpdatesInv, WholeMessages
<1> QED
  BY <1>1, <1>8, <1>9 DEF UpdatesInv

LEMMA UpdatesStep == ElementsInv /\ UpdatesInv /\ Update => UpdatesInv'
<1> SUFFICES ASSUME ElementsInv, UpdatesInv, Update PROVE UpdatesInv'
  OBVIOUS
<1>1. new' = new /\ (OneMessage(new') <=> OneMessage(new))
  BY Zenon DEF Update, Skip, Replace, EndOfImage, Fault
<1>2. CASE ~OneMessage(new)
  BY <1>1, <1>2, Zenon DEF UpdatesInv, UpdateExact, WholeMessages
<1>3. CASE Fault
  <2>1. pc' = "fault" /\ flash' = flash /\ before' = before
    BY <1>3 DEF Fault
  <2> QED
    BY <1>1, <2>1 DEF UpdatesInv, UpdateExact, WholeMessages
<1> QED
  BY <1>2, <1>3, UpdatesSkip, UpdatesReplace, UpdatesMissed DEF Update

\* Whatever leaves the store alone leaves this.
LEMMA UpdatesKept ==
    UpdatesInv /\ UNCHANGED <<flash, before, new, itr, want, pc>> => UpdatesInv'
<1> SUFFICES ASSUME UpdatesInv, UNCHANGED <<flash, before, new, itr, want, pc>>
             PROVE  UpdatesInv'
  OBVIOUS
<1>1. /\ flash' = flash /\ before' = before /\ new' = new /\ itr' = itr /\ want' = want
      /\ pc' = pc
  OBVIOUS
<1>2. FieldsTold' <=> FieldsTold
  BY <1>1 DEF FieldsTold
<1>3. \A done : NoHit(done)' <=> NoHit(done)
  BY <1>1 DEF NoHit
<1>4. Scanned => Scanned'
  BY <1>1, <1>2, <1>3 DEF Scanned, NoHit
<1>5. (UpdateExact' <=> UpdateExact) /\ (WholeMessages' <=> WholeMessages)
  BY <1>1, <1>2, Zenon DEF UpdateExact, WholeMessages
<1> QED
  BY <1>1, <1>4, <1>5 DEF UpdatesInv, FieldSought

\* At boot nothing has been updated.
LEMMA UpdatesInit == Init => UpdatesInv
  BY DEF Init, UpdatesInv, UpdateExact, WholeMessages
=============================================================================

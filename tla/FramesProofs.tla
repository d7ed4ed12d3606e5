---------------------------- MODULE FramesProofs ----------------------------
(***************************************************************************)
(* For every stored image, every field a user may type, every mask and     *)
(* every order of edits, saves, reloads and segments: the controller takes *)
(* a packet for what the page meant, byte for byte as far as its length is *)
(* told, and a page receives what is stored, and the key it has asked for. *)
(***************************************************************************)
EXTENDS Frames, ConfigElementsProofs

-----------------------------------------------------------------------------
(* The key of an answer: base64_encode() loses nothing, whatever the length. *)

\* Characters are below Pad, and each byte is in two of them.
LEMMA CharacterRange ==
    ASSUME NEW a \in 0..255, NEW b \in 0..255, NEW c \in 0..255
    PROVE  \A k \in {0, 1, 2, 3} :
               Characters(a, b, c)[k + 1] \in Int /\ Characters(a, b, c)[k + 1] < Pad
<1>1. Characters(a, b, c)[0 + 1] = a \div 4
  BY DEF Characters
<1>2. Characters(a, b, c)[1 + 1] = (a % 4) * 16 + (b \div 16)
  BY DEF Characters
<1>3. Characters(a, b, c)[2 + 1] = (b % 16) * 4 + (c \div 64)
  BY DEF Characters
<1>4. Characters(a, b, c)[3 + 1] = c % 64
  BY DEF Characters
<1> QED
  BY <1>1, <1>2, <1>3, <1>4 DEF Pad

ReadBack(a, b, c) ==
    /\ ByteFrom(Characters(a, b, c)[1], Characters(a, b, c)[2], 0) = a
    /\ ByteFrom(Characters(a, b, c)[2], Characters(a, b, c)[3], 1) = b
    /\ ByteFrom(Characters(a, b, c)[3], Characters(a, b, c)[4], 2) = c

LEMMA CharactersBack == \A a, b, c \in 0..255 : ReadBack(a, b, c)
<1> TAKE a, b, c \in 0..255
<1> DEFINE s == Characters(a, b, c)
<1>1. s[1] = a \div 4 /\ s[2] = (a % 4) * 16 + (b \div 16)
  BY DEF Characters
<1>2. s[3] = (b % 16) * 4 + (c \div 64) /\ s[4] = c % 64
  BY DEF Characters
<1> HIDE DEF s
<1>3. s[1] * 4 + (s[2] \div 16) = a
  BY <1>1
<1>4. (s[2] % 16) * 16 + (s[3] \div 4) = b
  BY <1>1, <1>2
<1>5. (s[3] % 4) * 64 + s[4] = c
  BY <1>2
<1> QED
  BY <1>3, <1>4, <1>5 DEF ReadBack, ByteFrom, s

\* Where a byte and its characters are.
LEMMA Places ==
    ASSUME NEW n \in Nat, NEW i \in 1..n
    PROVE  LET q == (i - 1) \div 3
               k == (i - 1) % 3
               j == 4 * q + k + 1
           IN  /\ q \in Nat /\ k \in {0, 1, 2} /\ i = 3 * q + k + 1 /\ j \in Int
               /\ j \in 1..4 * ((n + 2) \div 3) /\ j + 1 \in 1..4 * ((n + 2) \div 3)
               /\ (j - 1) \div 4 = q /\ (j - 1) % 4 = k
               /\ ((j + 1) - 1) \div 4 = q /\ ((j + 1) - 1) % 4 = k + 1
<1> DEFINE q == (i - 1) \div 3
           k == (i - 1) % 3
<1>1. q \in Nat /\ k \in {0, 1, 2} /\ i = 3 * q + k + 1
  OBVIOUS
<1> HIDE DEF q, k
<1>2. 4 * q + k + 1 <= 4 * ((n + 2) \div 3) /\ 4 * q + k + 2 <= 4 * ((n + 2) \div 3)
  <2>1. q + 1 <= (n + 2) \div 3
    BY <1>1
  <2> QED
    BY <1>1, <2>1
<1>3. /\ ((4 * q + k + 1) - 1) \div 4 = q /\ ((4 * q + k + 1) - 1) % 4 = k
      /\ ((4 * q + k + 1 + 1) - 1) \div 4 = q /\ ((4 * q + k + 1 + 1) - 1) % 4 = k + 1
  BY <1>1
<1> QED
  BY <1>1, <1>2, <1>3 DEF q, k

\* The padding of the last group tells how many bytes it has.
LEMMA Lengths ==
    ASSUME NEW bytes \in Seq(0..255)
    PROVE  /\ Len(base64_encode(bytes)) = 4 * ((Len(bytes) + 2) \div 3)
           /\ 3 * (Len(base64_encode(bytes)) \div 4) - Pads(base64_encode(bytes)) = Len(bytes)
<1> DEFINE n == Len(bytes)
           m == (n + 2) \div 3
           byte(i) == IF i <= n THEN bytes[i] ELSE 0
           character(done, k) ==
               IF done + k > n THEN Pad
               ELSE Characters(byte(done + 1), byte(done + 2), byte(done + 3))[k + 1]
           text == base64_encode(bytes)
<1>1. n \in Nat /\ \A i \in Nat : 1 <= i => byte(i) \in 0..255
  <2>1. \A i \in 1..n : bytes[i] \in 0..255
    BY ElementOfSeq
  <2> QED
    BY <2>1
<1>2. m \in Nat /\ (n = 3 * m \/ n = 3 * m - 1 \/ n = 3 * m - 2) /\ 4 * m \in Nat
  BY <1>1
<1>3. text = [j \in 1..4 * m |-> character(3 * ((j - 1) \div 4), (j - 1) % 4)]
  BY DEF base64_encode
<1>4. \A done \in Nat : \A k \in {0, 1, 2, 3} : (character(done, k) = Pad) <=> done + k > n
  <2> TAKE done \in Nat
  <2> TAKE k \in {0, 1, 2, 3}
  <2>1. byte(done + 1) \in 0..255 /\ byte(done + 2) \in 0..255 /\ byte(done + 3) \in 0..255
    BY <1>1
  <2> HIDE DEF byte
  <2>2. /\ Characters(byte(done + 1), byte(done + 2), byte(done + 3))[k + 1] \in Int
        /\ Characters(byte(done + 1), byte(done + 2), byte(done + 3))[k + 1] < Pad
    BY <2>1, CharacterRange, ZenonT(30)
  <2> QED
    BY <2>2 DEF Pad
<1> HIDE DEF character, text, m, n
<1>5. Len(text) = 4 * m
  BY <1>2, <1>3
<1>6. CASE m = 0
  <2>1. text = <<>> /\ n = 0
    BY <1>1, <1>2, <1>3, <1>6
  <2> QED
    BY <1>5, <1>6, <2>1 DEF Pads, text, n, m
<1>7. CASE 0 < m
  <2>1. /\ 4 * m \in 1..4 * m /\ 4 * m - 1 \in 1..4 * m
        /\ 3 * ((4 * m - 1) \div 4) = 3 * m - 3 /\ (4 * m - 1) % 4 = 3
        /\ 3 * (((4 * m - 1) - 1) \div 4) = 3 * m - 3 /\ ((4 * m - 1) - 1) % 4 = 2
        /\ 3 * m - 3 \in Nat
    BY <1>2, <1>7
  <2>2. text[4 * m] = character(3 * m - 3, 3) /\ text[4 * m - 1] = character(3 * m - 3, 2)
    BY <1>3, <2>1
  <2>3. /\ (text[4 * m] = Pad) <=> 3 * m > n
        /\ (text[4 * m - 1] = Pad) <=> 3 * m - 1 > n
    <3>1. (character(3 * m - 3, 3) = Pad) <=> (3 * m - 3) + 3 > n
      BY <1>4, <2>1
    <3>2. (character(3 * m - 3, 2) = Pad) <=> (3 * m - 3) + 2 > n
      BY <1>4, <2>1
    <3> QED
      BY <1>2, <2>2, <3>1, <3>2
  <2>4. text # <<>>
    BY <1>2, <1>5, <1>7
  <2>5. Pads(text) = IF text[4 * m] # Pad THEN 0 ELSE IF text[4 * m - 1] # Pad THEN 1 ELSE 2
    BY <1>5, <2>4 DEF Pads
  <2>6. Pads(text) = 3 * m - n
    BY <1>1, <1>2, <2>3, <2>5
  <2>7. (4 * m) \div 4 = m
    BY <1>2
  <2> QED
    BY <1>1, <1>2, <1>5, <2>6, <2>7 DEF text, n, m
<1> QED
  BY <1>2, <1>6, <1>7

\* Whatever its length, the digest is read as it was encoded (websockets.c:36-75).
THEOREM Base64Back ==
    ASSUME NEW bytes \in Seq(0..255)
    PROVE  Decoded(base64_encode(bytes)) = bytes
<1> DEFINE n == Len(bytes)
           m == (n + 2) \div 3
           byte(i) == IF i <= n THEN bytes[i] ELSE 0
           character(done, k) ==
               IF done + k > n THEN Pad
               ELSE Characters(byte(done + 1), byte(done + 2), byte(done + 3))[k + 1]
           text == base64_encode(bytes)
           back(i) ==
               LET k == (i - 1) % 3
                   j == 4 * ((i - 1) \div 3) + k + 1
               IN  ByteFrom(text[j], text[j + 1], k)
<1>1. n \in Nat /\ \A i \in Nat : 1 <= i => byte(i) \in 0..255
  <2>1. \A i \in 1..n : bytes[i] \in 0..255
    BY ElementOfSeq
  <2> QED
    BY <2>1
<1>2. text = [j \in 1..4 * m |-> character(3 * ((j - 1) \div 4), (j - 1) % 4)]
  BY DEF base64_encode
<1>3. ASSUME NEW i \in 1..n PROVE back(i) = bytes[i]
  <2> DEFINE q == (i - 1) \div 3
             k == (i - 1) % 3
             j == 4 * q + k + 1
             s == Characters(byte(3 * q + 1), byte(3 * q + 2), byte(3 * q + 3))
  <2>1. /\ q \in Nat /\ k \in {0, 1, 2} /\ i = 3 * q + k + 1 /\ j \in Int
        /\ j \in 1..4 * m /\ j + 1 \in 1..4 * m
        /\ (j - 1) \div 4 = q /\ (j - 1) % 4 = k
        /\ ((j + 1) - 1) \div 4 = q /\ ((j + 1) - 1) % 4 = k + 1
    BY <1>1, Places
  <2> HIDE DEF m, n
  <2>2. /\ byte(3 * q + 1) \in 0..255 /\ byte(3 * q + 2) \in 0..255 /\ byte(3 * q + 3) \in 0..255
    <3> HIDE DEF byte, q, k, j
    <3> QED
      BY <1>1, <2>1, SMTT(30)
  <2>3. text[j] = character(3 * q, k) /\ text[j + 1] = character(3 * q, k + 1)
    <3> HIDE DEF character, text, q, k, j
    <3> QED
      BY <1>2, <2>1
  <2>4. back(i) = ByteFrom(text[j], text[j + 1], k)
    OBVIOUS
  <2> HIDE DEF q, j, k, back, text
  <2>5. i <= n /\ 3 * q + k <= n /\ 3 * q + (k + 1) <= n
    <3>1. i <= n
      BY DEF n
    <3> QED
      BY <1>1, <2>1, <3>1
  <2>6. text[j] = s[k + 1] /\ text[j + 1] = s[(k + 1) + 1]
    <3> HIDE DEF byte
    <3> QED
      BY <1>1, <2>1, <2>3, <2>5
  <2>7. ByteFrom(s[1], s[2], 0) = byte(3 * q + 1) /\ ByteFrom(s[2], s[3], 1) = byte(3 * q + 2)
        /\ ByteFrom(s[3], s[4], 2) = byte(3 * q + 3)
    <3> DEFINE x == byte(3 * q + 1)
               y == byte(3 * q + 2)
               z == byte(3 * q + 3)
    <3>1. x \in 0..255 /\ y \in 0..255 /\ z \in 0..255
      BY <2>2
    <3>2. s = Characters(x, y, z)
      OBVIOUS
    <3> HIDE DEF byte, s, x, y, z
    <3>3. ReadBack(x, y, z)
      BY <3>1, CharactersBack
    <3>4. ByteFrom(s[1], s[2], 0) = x /\ ByteFrom(s[2], s[3], 1) = y /\ ByteFrom(s[3], s[4], 2) = z
      BY <3>2, <3>3 DEF ReadBack
    <3> QED
      BY <3>4 DEF x, y, z
  <2>8. bytes[i] = byte(i)
    BY <2>5
  <2> HIDE DEF s, byte
  <2>9. CASE k = 0
    BY <2>1, <2>4, <2>6, <2>7, <2>8, <2>9
  <2>10. CASE k = 1
    BY <2>1, <2>4, <2>6, <2>7, <2>8, <2>10
  <2>11. CASE k = 2
    BY <2>1, <2>4, <2>6, <2>7, <2>8, <2>11
  <2> QED
    BY <2>1, <2>9, <2>10, <2>11
<1>4. 3 * (Len(text) \div 4) - Pads(text) = n
  BY Lengths
<1>5. Decoded(text) = [i \in 1..n |-> back(i)]
  <2>1. Decoded(text) = [i \in 1..3 * (Len(text) \div 4) - Pads(text) |-> back(i)]
    BY DEF Decoded
  <2> HIDE DEF text, back, n
  <2> QED
    BY <1>4, <2>1
<1> HIDE DEF back
<1>6. [i \in 1..n |-> back(i)] = [i \in 1..n |-> bytes[i]]
  BY <1>3
<1> QED
  BY <1>5, <1>6

-----------------------------------------------------------------------------
(* Masking *)

\* The bits of a byte, highest first, are what its quotients leave.
LEMMA BitsOf ==
    ASSUME NEW a \in Int, 0 <= a, a <= 255
    PROVE  /\ a \div 1 = a
           /\ a = 2 * (a \div 2) + ((a \div 1) % 2)
           /\ a \div 2 = 2 * (a \div 4) + ((a \div 2) % 2)
           /\ a \div 4 = 2 * (a \div 8) + ((a \div 4) % 2)
           /\ a \div 8 = 2 * (a \div 16) + ((a \div 8) % 2)
           /\ a \div 16 = 2 * (a \div 32) + ((a \div 16) % 2)
           /\ a \div 32 = 2 * (a \div 64) + ((a \div 32) % 2)
           /\ a \div 64 = 2 * (a \div 128) + ((a \div 64) % 2)
           /\ a \div 128 = (a \div 128) % 2
  OBVIOUS

\* Adding a bit twice, with whatever lies above it, changes nothing.
LEMMA Twice ==
    \A i, j, k \in Int : (((i + j) % 2) + 2 * k + j) % 2 = i % 2
  OBVIOUS

LEMMA Binary == \A n \in Int : n % 2 \in 0..1
  OBVIOUS

LEMMA XorBack ==
    ASSUME NEW a \in Byte, NEW m \in Byte
    PROVE  Xor(a, m) \in Byte /\ Xor(Xor(a, m), m) = a
<1> DEFINE q(w) == (a \div w + m \div w) % 2
           x == Xor(a, m)
<1>1. /\ a \in Int /\ 0 <= a /\ a <= 255 /\ m \in Int
      /\ \A w \in {1, 2, 4, 8, 16, 32, 64, 128} : a \div w \in Int /\ m \div w \in Int
  BY DEF Byte
<1>2. /\ q(1) \in 0..1 /\ q(2) \in 0..1 /\ q(4) \in 0..1 /\ q(8) \in 0..1
      /\ q(16) \in 0..1 /\ q(32) \in 0..1 /\ q(64) \in 0..1 /\ q(128) \in 0..1
  BY <1>1, Binary
<1>3. x = 1 * q(1) + 2 * q(2) + 4 * q(4) + 8 * q(8) + 16 * q(16) + 32 * q(32) + 64 * q(64)
            + 128 * q(128)
  BY DEF Xor
<1>4. x \in Int /\ x = q(1) + 2 * q(2) + 4 * q(4) + 8 * q(8) + 16 * q(16) + 32 * q(32)
            + 64 * q(64) + 128 * q(128)
  <2> HIDE DEF q, x
  <2> QED
    BY <1>2, <1>3
<1> HIDE DEF x
<1>5. 0 <= x /\ x <= 255
  <2> HIDE DEF q
  <2> QED
    BY <1>2, <1>4
<1>6. \A w \in {1, 2, 4, 8, 16, 32, 64, 128} :
          \E k \in Int : x \div w = q(w) + 2 * k
  <2> DEFINE k32 == q(64) + 2 * q(128)
             k16 == q(32) + 2 * k32
             k8 == q(16) + 2 * k16
             k4 == q(8) + 2 * k8
             k2 == q(4) + 2 * k4
             k1 == q(2) + 2 * k2
  <2> HIDE DEF q
  <2>1. /\ k1 \in Int /\ k2 \in Int /\ k4 \in Int /\ k8 \in Int /\ k16 \in Int /\ k32 \in Int
        /\ q(128) \in Int /\ 0 \in Int
    BY <1>2
  <2>2. /\ x \div 1 = q(1) + 2 * k1
        /\ x \div 2 = q(2) + 2 * k2
        /\ x \div 4 = q(4) + 2 * k4
        /\ x \div 8 = q(8) + 2 * k8
        /\ x \div 16 = q(16) + 2 * k16
        /\ x \div 32 = q(32) + 2 * k32
        /\ x \div 64 = q(64) + 2 * q(128)
        /\ x \div 128 = q(128) + 2 * 0
    BY <1>2, <1>4
  <2> HIDE DEF k1, k2, k4, k8, k16, k32
  <2>3. /\ \E k \in Int : x \div 1 = q(1) + 2 * k
        /\ \E k \in Int : x \div 2 = q(2) + 2 * k
        /\ \E k \in Int : x \div 4 = q(4) + 2 * k
        /\ \E k \in Int : x \div 8 = q(8) + 2 * k
        /\ \E k \in Int : x \div 16 = q(16) + 2 * k
        /\ \E k \in Int : x \div 32 = q(32) + 2 * k
        /\ \E k \in Int : x \div 64 = q(64) + 2 * k
        /\ \E k \in Int : x \div 128 = q(128) + 2 * k
    BY <2>1, <2>2, ZenonT(30)
  <2> QED
    BY <2>3
<1>7. \A w \in {1, 2, 4, 8, 16, 32, 64, 128} : (x \div w + m \div w) % 2 = (a \div w) % 2
  <2> TAKE w \in {1, 2, 4, 8, 16, 32, 64, 128}
  <2>1. PICK k \in Int : x \div w = q(w) + 2 * k
    BY <1>6
  <2>2. a \div w \in Int /\ m \div w \in Int
    BY <1>1
  <2> QED
    BY <2>1, <2>2, Twice
<1>8. Xor(x, m) = 1 * ((a \div 1) % 2) + 2 * ((a \div 2) % 2) + 4 * ((a \div 4) % 2)
          + 8 * ((a \div 8) % 2) + 16 * ((a \div 16) % 2) + 32 * ((a \div 32) % 2)
          + 64 * ((a \div 64) % 2) + 128 * ((a \div 128) % 2)
  BY <1>7 DEF Xor
<1>9. Xor(x, m) = a
  BY <1>1, <1>8, BitsOf
<1> QED
  BY <1>4, <1>5, <1>9, ByteBounds DEF x

\* The bytes the browser masks are bytes again, and the code gets back what they were.
LEMMA MaskUndone ==
    ASSUME NEW p \in Seq(Byte)
    PROVE  /\ Masked(p) \in Seq(Byte) /\ Len(Masked(p)) = Len(p)
           /\ unmask_payload(Masked(p), Mask) = p
<1> DEFINE m(i) == Mask[((i - 1) % 4) + 1]
           keys == {Mask[i] : i \in 1..4}
<1>1. \A i \in 1..Len(p) : m(i) \in keys /\ m(i) \in Byte
  <2> TAKE i \in 1..Len(p)
  <2>1. ((i - 1) % 4) + 1 \in 1..4
    OBVIOUS
  <2>2. m(i) \in keys
    BY <2>1
  <2>3. m(i) \in Byte
    BY <2>1, MaskAssumption, ElementOfSeq
  <2> QED
    BY <2>2, <2>3
<1>2. \A b \in Byte : \A k \in keys : k \in Byte => XorTable[b][k] = Xor(b, k)
  BY DEF XorTable
<1> HIDE DEF m, keys
<1>3. \A i \in 1..Len(p) :
         /\ XorTable[p[i]][m(i)] \in Byte
         /\ XorTable[XorTable[p[i]][m(i)]][m(i)] = p[i]
  <2> TAKE i \in 1..Len(p)
  <2>1. p[i] \in Byte
    BY ElementOfSeq
  <2>2. XorTable[p[i]][m(i)] = Xor(p[i], m(i))
    BY <1>1, <1>2, <2>1
  <2>3. Xor(p[i], m(i)) \in Byte /\ Xor(Xor(p[i], m(i)), m(i)) = p[i]
    BY <1>1, <2>1, XorBack
  <2>4. XorTable[Xor(p[i], m(i))][m(i)] = Xor(Xor(p[i], m(i)), m(i))
    BY <1>1, <1>2, <2>3
  <2> QED
    BY <2>2, <2>3, <2>4
<1>4. Masked(p) = [i \in 1..Len(p) |-> XorTable[p[i]][m(i)]]
  BY DEF Masked, m
<1>5. Masked(p) \in Seq(Byte) /\ Len(Masked(p)) = Len(p)
  BY <1>3, <1>4
<1>6. DOMAIN Masked(p) = 1..Len(p)
  BY <1>4
<1>7. unmask_payload(Masked(p), Mask) = [i \in 1..Len(p) |-> XorTable[Masked(p)[i]][m(i)]]
  BY <1>6 DEF unmask_payload, m
<1>8. \A i \in 1..Len(p) : XorTable[Masked(p)[i]][m(i)] = p[i]
  BY <1>3, <1>4
<1>9. p = [i \in 1..Len(p) |-> p[i]]
  OBVIOUS
<1> QED
  BY <1>5, <1>7, <1>8, <1>9

-----------------------------------------------------------------------------
(* Frames and packets *)

\* A sequence is found again behind another one, and in front of it.
LEMMA Parts ==
    ASSUME NEW a \in Seq(Byte), NEW b \in Seq(Byte)
    PROVE  /\ SubSeq(a \o b, Len(a) + 1, Len(a) + Len(b)) = b
           /\ SubSeq(a \o b, 1, Len(a)) = a
<1>1. /\ a \o b \in Seq(Byte)
      /\ Len(a \o b) = Len(a) + Len(b)
      /\ \A i \in 1..Len(a) + Len(b) : (a \o b)[i] = IF i <= Len(a) THEN a[i] ELSE b[i - Len(a)]
  BY ConcatBytes, Zenon
<1> DEFINE c == a \o b
<1> HIDE DEF c
<1>2. SubSeq(c, Len(a) + 1, Len(a) + Len(b)) = b
  BY <1>1 DEF c
<1>3. SubSeq(c, 1, Len(a)) = a
  BY <1>1 DEF c
<1> QED
  BY <1>2, <1>3 DEF c

\* Two bytes tell a length.
LEMMA TwoByteLength ==
    ASSUME NEW n \in Nat, n < 65536
    PROVE  High(n) \in Byte /\ Low(n) \in Byte /\ High(n) * 256 + Low(n) = n
<1>1. n \in Int /\ 0 <= n /\ n + 3 <= MaxImage
  BY DEF MaxImage
<1>2. /\ n \div 256 \in Byte /\ (n \div 256) % 256 = n \div 256
      /\ n % 256 \in Byte
      /\ (n \div 256) * 256 + (n % 256) = n
  BY <1>1, TwoBytes
<1> QED
  BY <1>2 DEF High, Low

\* The header of a frame, short or long, tells the length of what follows.
LEMMA ShortHeader ==
    \A x \in Byte : <<130, x>> \in Seq(Byte) /\ Len(<<130, x>>) = 2 /\ <<130, x>>[2] = x
<1>1. 130 \in Byte
  BY ByteBounds
<1> QED
  BY <1>1

LEMMA LongHeader ==
    ASSUME NEW x \in Byte, NEW hi \in Byte, NEW lo \in Byte
    PROVE  LET h == <<130, x, hi, lo>>
           IN  h \in Seq(Byte) /\ Len(h) = 4 /\ h[2] = x /\ h[3] = hi /\ h[4] = lo
<1>1. 130 \in Byte
  BY ByteBounds
<1> QED
  BY <1>1

\* A sequence behind another one of a known length.
LEMMA Joint ==
    ASSUME NEW a \in Seq(Byte), NEW b \in Seq(Byte), NEW k \in Nat, Len(a) = k
    PROVE  /\ a \o b \in Seq(Byte) /\ Len(a \o b) = k + Len(b)
           /\ \A i \in 1..k : (a \o b)[i] = a[i]
           /\ SubSeq(a \o b, k + 1, k + Len(b)) = b
<1>1. /\ a \o b \in Seq(Byte) /\ Len(a \o b) = Len(a) + Len(b)
      /\ \A i \in 1..Len(a) + Len(b) : (a \o b)[i] = IF i <= Len(a) THEN a[i] ELSE b[i - Len(a)]
  BY ConcatBytes, Zenon
<1>2. \A i \in 1..k : (a \o b)[i] = a[i]
  BY <1>1
<1>3. SubSeq(a \o b, Len(a) + 1, Len(a) + Len(b)) = b
  BY Parts, Zenon
<1> QED
  BY <1>1, <1>2, <1>3

\* What a receiver sees of a frame: a short header and a payload, or a long one.
LEMMA ShortFrame ==
    ASSUME NEW x \in Byte, NEW p \in Seq(Byte), NEW n \in Nat, Len(p) = n
    PROVE  LET b == <<130, x>> \o p
           IN  /\ b \in Seq(Byte) /\ Len(b) = 2 + n /\ b[2] = x
               /\ SubSeq(b, 3, 2 + n) = p
<1> DEFINE h == <<130, x>>
<1>1. h \in Seq(Byte) /\ Len(h) = 2 /\ h[2] = x
  BY ShortHeader
<1> HIDE DEF h
<1>2. h \in Seq(Byte) /\ 2 \in Nat /\ Len(h) = 2
  BY <1>1
<1>3. /\ h \o p \in Seq(Byte) /\ Len(h \o p) = 2 + Len(p)
      /\ \A i \in 1..2 : (h \o p)[i] = h[i]
      /\ SubSeq(h \o p, 2 + 1, 2 + Len(p)) = p
  BY <1>2, Joint, Zenon
<1> QED
  BY <1>1, <1>3 DEF h

LEMMA LongFrame ==
    ASSUME NEW x \in Byte, NEW hi \in Byte, NEW lo \in Byte,
           NEW p \in Seq(Byte), NEW n \in Nat, Len(p) = n
    PROVE  LET b == <<130, x, hi, lo>> \o p
           IN  /\ b \in Seq(Byte) /\ Len(b) = 4 + n /\ b[2] = x /\ b[3] = hi /\ b[4] = lo
               /\ SubSeq(b, 5, 4 + n) = p
<1> DEFINE h == <<130, x, hi, lo>>
<1>1. h \in Seq(Byte) /\ Len(h) = 4 /\ h[2] = x /\ h[3] = hi /\ h[4] = lo
  BY LongHeader
<1> HIDE DEF h
<1>2. h \in Seq(Byte) /\ 4 \in Nat /\ Len(h) = 4
  BY <1>1
<1>3. /\ h \o p \in Seq(Byte) /\ Len(h \o p) = 4 + Len(p)
      /\ \A i \in 1..4 : (h \o p)[i] = h[i]
      /\ SubSeq(h \o p, 4 + 1, 4 + Len(p)) = p
  BY <1>2, Joint, Zenon
<1> QED
  BY <1>1, <1>3 DEF h

\* A part of the payload is a part of the frame.
LEMMA PartOfFrame ==
    ASSUME NEW b \in Seq(Byte), NEW q \in Seq(Byte), NEW k \in Nat, NEW m \in Nat,
           Len(b) = k + m, Len(q) = m, SubSeq(b, k + 1, k + m) = q,
           NEW i \in Nat, NEW j \in Nat, 1 <= i, j <= m
    PROVE  SubSeq(b, k + i, k + j) = SubSeq(q, i, j)
  OBVIOUS

LEMMA Marks == 126 \in Byte /\ 254 \in Byte
  BY DEF Byte

\* A browser finds in a frame of the controller the packet that was put into it.
LEMMA ServerFrameTaken ==
    ASSUME NEW p \in Seq(Byte), NEW n \in Nat, Len(p) = n, n < 65536
    PROVE  PayloadOf(send_websocket_binary(p)) = p
<1> DEFINE b == send_websocket_binary(p)
<1>1. CASE n <= 125
  <2>1. n \in Byte
    BY <1>1, ByteBounds
  <2>2. b = <<130, n>> \o p
    BY <1>1 DEF send_websocket_binary, ServerHeader
  <2>3. Len(b) = 2 + n /\ b[2] = n /\ SubSeq(b, 3, 2 + n) = p
    BY <2>1, <2>2, ShortFrame
  <2> HIDE DEF b
  <2>4. PayloadStart(b) = 2 /\ PayloadEnd(b) = 2 + n
    BY <1>1, <2>3 DEF PayloadStart, PayloadEnd
  <2>5. PayloadOf(b) = p
    BY <2>3, <2>4 DEF PayloadOf
  <2> QED
    BY <1>1, <2>3, <2>5 DEF b
<1>2. CASE 125 < n
  <2>1. High(n) \in Byte /\ Low(n) \in Byte /\ High(n) * 256 + Low(n) = n
    BY TwoByteLength
  <2>2. 126 \in Byte /\ High(n) \in Int /\ Low(n) \in Int
    <3>1. High(n) \in Int /\ Low(n) \in Int
      BY <2>1, ByteIsInt, SMTT(30)
    <3> QED
      BY <3>1, Marks
  <2>3. b = <<130, 126, High(n), Low(n)>> \o p
    BY <1>2 DEF send_websocket_binary, ServerHeader
  <2>4. /\ Len(b) = 4 + n /\ b[2] = 126 /\ b[3] = High(n) /\ b[4] = Low(n)
        /\ SubSeq(b, 5, 4 + n) = p
    BY <2>1, <2>2, <2>3, LongFrame
  <2> HIDE DEF b
  <2>5. PayloadStart(b) = 4 /\ PayloadEnd(b) = 4 + n
    BY <2>1, <2>2, <2>4 DEF PayloadStart, PayloadEnd
  <2>6. PayloadOf(b) = p
    BY <2>4, <2>5 DEF PayloadOf
  <2> QED
    BY <1>2, <2>4, <2>6 DEF b
<1> QED
  BY <1>1, <1>2

\* The mask and the masked bytes, both found again.
LEMMA MaskedPart ==
    ASSUME NEW p \in Seq(Byte), NEW n \in Nat, Len(p) = n
    PROVE  LET q == Mask \o Masked(p)
           IN  /\ q \in Seq(Byte) /\ Len(q) = 4 + n
               /\ SubSeq(q, 1, 4) = Mask /\ SubSeq(q, 5, 4 + n) = Masked(p)
<1> DEFINE m == Masked(p)
           q == Mask \o m
<1>1. Mask \in Seq(Byte) /\ Len(Mask) = 4 /\ 4 \in Nat
  BY MaskAssumption
<1>2. m \in Seq(Byte) /\ Len(m) = n
  BY MaskUndone
<1> HIDE DEF m
<1>3. m \in Seq(Byte)
  BY <1>2
<1>4. /\ q \in Seq(Byte) /\ Len(q) = 4 + Len(m)
      /\ SubSeq(q, 4 + 1, 4 + Len(m)) = m
  BY <1>1, <1>3, Joint, ZenonT(30)
<1>5. SubSeq(q, 1, Len(Mask)) = Mask
  BY <1>1, <1>3, Parts, Zenon
<1> HIDE DEF q
<1>6. SubSeq(q, 1, 4) = Mask /\ Len(q) = 4 + n /\ SubSeq(q, 5, 4 + n) = m
  BY <1>1, <1>2, <1>4, <1>5
<1> QED
  BY <1>4, <1>6 DEF q, m

\* The controller finds in a frame of a browser the packet that was put into it, and
\* nothing of the frame is left over.
LEMMA ClientFrameTaken ==
    ASSUME NEW p \in Seq(Byte), NEW n \in Nat, Len(p) = n, n < 65536
    PROVE  /\ Payload(ClientFrame(p)) = p
           /\ HeaderSize(ClientFrame(p)) + PayloadLength(ClientFrame(p)) = Len(ClientFrame(p))
           /\ Len(ClientFrame(p)) = IF n <= 125 THEN 6 + n ELSE 8 + n
           /\ ClientFrame(p) \in Seq(Byte)
<1> DEFINE b == ClientFrame(p)
           q == Mask \o Masked(p)
<1>1. unmask_payload(Masked(p), Mask) = p
  BY MaskUndone
<1>2. /\ q \in Seq(Byte) /\ Len(q) = 4 + n
      /\ SubSeq(q, 1, 4) = Mask /\ SubSeq(q, 5, 4 + n) = Masked(p)
  BY MaskedPart, SMTT(30)
<1>5. b = ClientHeader(n) \o q
  BY DEF ClientFrame
<1> HIDE DEF q, b
<1>6. q \in Seq(Byte) /\ Len(q) = 4 + n /\ 4 + n \in Nat
  BY <1>2
<1>7. ASSUME NEW k \in {2, 4}, b \in Seq(Byte), Len(b) = k + (4 + n), SubSeq(b, k + 1, k + (4 + n)) = q,
             HeaderSize(b) = k + 4, PayloadLength(b) = n, b[2] >= 128
      PROVE  /\ Payload(b) = p
             /\ HeaderSize(b) + PayloadLength(b) = Len(b)
             /\ Len(b) = k + (4 + n)
             /\ b \in Seq(Byte)
  <2>1. SubSeq(b, k + 1, k + 4) = SubSeq(q, 1, 4)
    BY <1>6, <1>7, PartOfFrame
  <2>2. SubSeq(b, k + 5, k + (4 + n)) = SubSeq(q, 5, 4 + n)
    BY <1>6, <1>7, PartOfFrame
  <2>3. SubSeq(b, HeaderSize(b) - 3, HeaderSize(b)) = Mask
    BY <1>2, <1>7, <2>1
  <2>4. SubSeq(b, HeaderSize(b) + 1, HeaderSize(b) + PayloadLength(b)) = Masked(p)
    <3>1. HeaderSize(b) + 1 = k + 5 /\ HeaderSize(b) + PayloadLength(b) = k + (4 + n)
      BY <1>7
    <3> DEFINE first == HeaderSize(b) + 1
               last == HeaderSize(b) + PayloadLength(b)
    <3>2. first = k + 5 /\ last = k + (4 + n)
      BY <3>1
    <3> HIDE DEF first, last
    <3>3. SubSeq(b, first, last) = SubSeq(q, 5, 4 + n)
      BY <2>2, <3>2
    <3>4. SubSeq(b, first, last) = Masked(p)
      BY <1>2, <3>3
    <3> QED
      BY <3>4 DEF first, last
  <2> DEFINE part == SubSeq(b, HeaderSize(b) + 1, HeaderSize(b) + PayloadLength(b))
             key == SubSeq(b, HeaderSize(b) - 3, HeaderSize(b))
  <2>5. Payload(b) = unmask_payload(part, key)
    BY <1>7 DEF Payload
  <2>6. part = Masked(p) /\ key = Mask
    BY <2>3, <2>4
  <2> HIDE DEF part, key
  <2>7. Payload(b) = p
    BY <1>1, <2>5, <2>6
  <2> QED
    BY <1>7, <2>7
<1>8. CASE n <= 125
  <2>1. 128 + n \in Byte
    BY <1>8, ByteBounds
  <2>2. b = <<130, 128 + n>> \o q
    BY <1>5, <1>8 DEF ClientHeader
  <2>3. b \in Seq(Byte) /\ Len(b) = 2 + (4 + n) /\ b[2] = 128 + n /\ SubSeq(b, 3, 2 + (4 + n)) = q
    BY <1>6, <2>1, <2>2, ShortFrame
  <2>4. (128 + n) % 128 = n
    BY <1>8
  <2>5. HeaderSize(b) = 6 /\ PayloadLength(b) = n /\ b[2] >= 128
    BY <1>8, <2>3, <2>4 DEF HeaderSize, PayloadLength
  <2> QED
    BY <1>7, <1>8, <2>3, <2>5 DEF b
<1>9. CASE 125 < n
  <2>1. High(n) \in Byte /\ Low(n) \in Byte /\ High(n) * 256 + Low(n) = n
    BY TwoByteLength
  <2>2. 254 \in Byte /\ High(n) \in Int /\ Low(n) \in Int
    <3>1. High(n) \in Int /\ Low(n) \in Int
      BY <2>1, ByteIsInt, SMTT(30)
    <3> QED
      BY <3>1, Marks
  <2>3. b = <<130, 254, High(n), Low(n)>> \o q
    BY <1>5, <1>9 DEF ClientHeader
  <2>4. /\ b \in Seq(Byte) /\ Len(b) = 4 + (4 + n)
        /\ b[2] = 254 /\ b[3] = High(n) /\ b[4] = Low(n)
        /\ SubSeq(b, 5, 4 + (4 + n)) = q
    BY <1>6, <2>1, <2>2, <2>3, LongFrame
  <2>5. HeaderSize(b) = 8 /\ PayloadLength(b) = n /\ b[2] >= 128
    BY <2>1, <2>2, <2>4 DEF HeaderSize, PayloadLength
  <2> QED
    BY <1>7, <1>9, <2>4, <2>5 DEF b
<1> QED
  BY <1>8, <1>9

LEMMA ZeroByte == 0 \in Byte
  BY ByteBounds

\* A packet is taken for what it is, as far as its header tells its length.
LEMMA PacketTaken ==
    ASSUME NEW x \in Byte, NEW hi \in Byte, NEW lo \in Byte,
           NEW data \in Seq(Byte), NEW told \in Nat,
           hi * 256 + lo = told, told <= Len(data)
    PROVE  /\ Packet(<<x, hi, lo>> \o data) = [kind |-> x, data |-> SubSeq(data, 1, told)]
           /\ Behind(<<x, hi, lo>> \o data) \in Byte
           /\ <<x, hi, lo>> \o data \in Seq(Byte)
           /\ Len(<<x, hi, lo>> \o data) = 3 + Len(data)
<1> DEFINE h == <<x, hi, lo>>
           p == h \o data
<1>1. h \in Seq(Byte) /\ Len(h) = 3 /\ 3 \in Nat
  OBVIOUS
<1>2. h[1] = x /\ h[2] = hi /\ h[3] = lo
  OBVIOUS
<1> HIDE DEF h
<1>3. /\ p \in Seq(Byte) /\ Len(p) = 3 + Len(data)
      /\ \A i \in 1..3 : p[i] = h[i]
      /\ SubSeq(p, 3 + 1, 3 + Len(data)) = data
  BY <1>1, Joint, ZenonT(30)
<1> HIDE DEF p
<1>4. p[1] = x /\ p[2] = hi /\ p[3] = lo
  <2>1. p[1] = h[1] /\ p[2] = h[2] /\ p[3] = h[3]
    BY <1>3
  <2> QED
    BY <1>2, <2>1
<1>5. PacketEnd(p) = 3 + told
  <2>1. hi \in Int /\ lo \in Int
    BY ByteIsInt, SMTT(30)
  <2> QED
    BY <1>4, <2>1 DEF PacketEnd
<1>6. SubSeq(p, 4, 3 + told) = SubSeq(data, 1, told)
  <2>1. Len(data) \in Nat
    OBVIOUS
  <2>2. SubSeq(p, 3 + 1, 3 + told) = SubSeq(data, 1, told)
    BY <1>3, <2>1, PartOfFrame
  <2> QED
    BY <2>2
<1>7. Packet(p) = [kind |-> x, data |-> SubSeq(data, 1, told)]
  BY <1>4, <1>5, <1>6 DEF Packet
<1>8. Behind(p) \in Byte
  <2>1. p \in Seq(Byte) /\ Len(p) \in Nat /\ PacketEnd(p) \in Nat
    BY <1>3, <1>5
  <2> HIDE DEF p
  <2>2. ASSUME PacketEnd(p) < Len(p) PROVE p[PacketEnd(p) + 1] \in Byte
    <3>1. PacketEnd(p) + 1 \in 1..Len(p)
      BY <2>1, <2>2
    <3> QED
      BY <2>1, <3>1, ElementOfSeq
  <2> QED
    BY <2>2, ZeroByte, Zenon DEF Behind
<1> QED
  BY <1>3, <1>7, <1>8 DEF p, h

\* No packet tells more than it has, and only an update may tell less.
LEMMA ToldLength ==
    ASSUME NEW x \in Byte, NEW data \in Seq(Byte)
    PROVE  LET told == LengthTold([kind |-> x, data |-> data])
           IN  /\ told \in Nat /\ told <= Len(data)
               /\ x = 11 => told = Len(data) % 256
               /\ x # 11 => told = Len(data)
<1>1. Len(data) \in Nat /\ \A n \in Nat : n % 256 \in Nat /\ n % 256 <= n
  OBVIOUS
<1> QED
  BY <1>1 DEF LengthTold

\* The message of a field, and the byte its packet tells its length with.
LEMMA FieldPacket ==
    ASSUME NEW f \in Fields
    PROVE  /\ FieldMessage(f) \in Seq(Byte)
           /\ Len(FieldMessage(f)) + 3 < 65536
           /\ Low(6 + Len(f.value)) = Len(FieldMessage(f)) % 256
           /\ Low(6 + Len(f.value)) \in Byte
<1> DEFINE h == <<f.type, 0, 0, 0, Low(Len(f.value) + 1), f.field>>
           v == f.value
<1>1. f.type \in Byte /\ f.field \in Byte /\ v \in Seq(Byte) /\ Len(v) + 9 < 65536
  BY FieldsAssumption
<1>2. 0 \in Byte /\ \A n \in Nat : Low(n) \in Byte
  BY ByteBounds DEF Low
<1>3. h \in Seq(Byte) /\ Len(h) = 6
  <2>1. Len(v) + 1 \in Nat
    BY <1>1
  <2> QED
    BY <1>1, <1>2, <2>1
<1>4. FieldMessage(f) = h \o v
  BY DEF FieldMessage
<1> HIDE DEF h, v
<1> DEFINE d == h \o v
<1>5. d \in Seq(Byte) /\ Len(d) = 6 + Len(v)
  <2>1. h \in Seq(Byte) /\ v \in Seq(Byte)
    BY <1>1, <1>3
  <2>2. d \in Seq(Byte) /\ Len(d) = Len(h) + Len(v)
    BY <2>1, ConcatBytes, Zenon
  <2> QED
    BY <1>3, <2>2
<1> HIDE DEF d
<1> DEFINE n == 6 + Len(v)
<1>6. n \in Nat /\ n + 3 < 65536
  BY <1>1
<1>7. Low(n) = n % 256
  BY Zenon DEF Low
<1> HIDE DEF n
<1>8. Low(n) \in Byte
  BY <1>2, <1>6
<1>9. Len(d) = n
  BY <1>5, Zenon DEF n
<1>10. d \in Seq(Byte) /\ Len(d) + 3 < 65536 /\ Low(n) = Len(d) % 256 /\ Low(n) \in Byte
  BY <1>5, <1>6, <1>7, <1>8, <1>9
<1>11. FieldMessage(f) = d
  BY <1>4, Zenon DEF d
<1>12. Low(6 + Len(f.value)) = Low(n)
  BY DEF n, v
<1> QED
  BY <1>10, <1>11, <1>12

LEMMA Grown == \A l, m, n \in Nat : l <= m => m + n \in Nat /\ l <= m + n
  OBVIOUS

\* What is joined has the bytes of the first frame, at least.
LEMMA JoinedBytes ==
    ASSUME NEW n \in Nat, 1 <= n, \A i \in 1..n : Len(net[i].bytes) \in Nat
    PROVE  Joined(n) \in Nat /\ Len(net[1].bytes) <= Joined(n)
<1> DEFINE bytes[i \in 0..n] == IF i = 0 THEN 0 ELSE bytes[i - 1] + Len(net[i].bytes)
           D == 0..n
           step == [q \in D \X Nat |-> IF q[1] = 0 THEN 0 ELSE q[2] + Len(net[q[1]].bytes)]
           next == [i \in D \ {0} |-> i - 1]
           base == [i \in D |-> 0]
           rank == [i \in D |-> i]
<1>1. PICK f \in [D -> Nat] : Solves(f, D, {0}, base, next, step)
  <2>1. /\ rank \in [D -> 0..n] /\ {0} \in SUBSET D /\ base \in [D -> Nat]
        /\ next \in [D \ {0} -> D]
    OBVIOUS
  <2>2. step \in [D \X Nat -> Nat]
    OBVIOUS
  <2>3. \A p \in D \ {0} : rank[next[p]] < rank[p]
    OBVIOUS
  <2>4. WellRanked(D, Nat, {0}, base, next, step, rank, n)
    BY <2>1, <2>2, <2>3 DEF WellRanked, Ranked
  <2> HIDE DEF D, step, next, base, rank
  <2> QED
    BY <2>4, RecursionDefines
<1>2. f = [i \in 0..n |-> IF i = 0 THEN 0 ELSE f[i - 1] + Len(net[i].bytes)]
  <2>1. ASSUME NEW p \in D PROVE f[p] = IF p = 0 THEN 0 ELSE f[p - 1] + Len(net[p].bytes)
    <3>1. CASE p = 0
      BY <1>1, <3>1 DEF Solves
    <3>2. CASE p # 0
      <4>1. p \in D \ {0} /\ next[p] = p - 1 /\ f[next[p]] \in Nat
        BY <3>2
      <4>2. f[p] = step[<<p, f[next[p]]>>]
        BY <1>1, <3>2 DEF Solves
      <4>3. <<p, f[next[p]]>> \in D \X Nat
        BY <4>1
      <4> QED
        BY <3>2, <4>1, <4>2, <4>3
    <3> QED
      BY <3>1, <3>2
  <2> QED
    BY <1>1, <2>1
<1>3. bytes = [i \in 0..n |-> IF i = 0 THEN 0 ELSE bytes[i - 1] + Len(net[i].bytes)]
  BY <1>2
<1>4. Joined(n) = bytes[n]
  BY DEF Joined
<1> DEFINE L == Len(net[1].bytes)
           S == {k \in Nat : k + 1 <= n => bytes[k + 1] \in Nat /\ L <= bytes[k + 1]}
<1>5. bytes[0] = 0 /\ \A i \in 1..n : bytes[i] = bytes[i - 1] + Len(net[i].bytes)
  <2> HIDE DEF bytes
  <2> QED
    BY <1>3
<1> HIDE DEF bytes
<1>6. 0 \in S
  BY <1>5
<1>7. ASSUME NEW k \in S PROVE k + 1 \in S
  <2>1. k \in Nat /\ k + 1 \in Nat
    OBVIOUS
  <2> SUFFICES ASSUME (k + 1) + 1 <= n PROVE bytes[(k + 1) + 1] \in Nat /\ L <= bytes[(k + 1) + 1]
    BY <2>1
  <2>2. (k + 1) + 1 \in 1..n /\ ((k + 1) + 1) - 1 = k + 1 /\ k + 1 <= n
    BY <2>1
  <2>3. bytes[(k + 1) + 1] = bytes[k + 1] + Len(net[(k + 1) + 1].bytes)
    BY <1>5, <2>2
  <2>4. Len(net[(k + 1) + 1].bytes) \in Nat
    BY <2>2
  <2>5. bytes[k + 1] \in Nat /\ L <= bytes[k + 1] /\ L \in Nat
    BY <2>2
  <2> QED
    BY <2>3, <2>4, <2>5, Grown, Zenon
<1>8. S = Nat
  <2>1. S \in SUBSET Nat
    OBVIOUS
  <2> HIDE DEF S
  <2> QED
    BY <1>6, <1>7, <2>1, SetInduction
<1>9. n - 1 \in Nat /\ (n - 1) + 1 = n
  OBVIOUS
<1>10. n - 1 \in S
  <2> HIDE DEF S
  <2> QED
    BY <1>8, <1>9
<1> QED
  BY <1>4, <1>9, <1>10

\* How long the frame of an answer is.
LEMMA AnswerLength ==
    ASSUME NEW p \in Seq(Byte), NEW n \in Nat, Len(p) = n
    PROVE  Len(send_websocket_binary(p)) = IF n <= 125 THEN 2 + n ELSE 4 + n
<1>1. CASE n <= 125
  <2>1. n \in Byte
    BY <1>1, ByteBounds
  <2>2. send_websocket_binary(p) = <<130, n>> \o p
    BY <1>1 DEF send_websocket_binary, ServerHeader
  <2> QED
    BY <1>1, <2>1, <2>2, ShortFrame
<1>2. CASE 125 < n
  <2>1. High(n) \in Byte /\ Low(n) \in Byte /\ 126 \in Byte
    BY ByteBounds DEF High, Low
  <2>2. send_websocket_binary(p) = <<130, 126, High(n), Low(n)>> \o p
    BY <1>2 DEF send_websocket_binary, ServerHeader
  <2> QED
    BY <1>2, <2>1, <2>2, LongFrame
<1> QED
  BY <1>1, <1>2

-----------------------------------------------------------------------------
(* The inductive invariant *)

\* What a page sends: a packet with a length, in a frame, with what it means.
Means(e, x, hi, lo, data) ==
    /\ hi * 256 + lo = LengthTold([kind |-> x, data |-> data])
    /\ Len(data) + 3 < 65536
    /\ e.bytes = ClientFrame(<<x, hi, lo>> \o data)
    /\ e.meaning = [kind |-> x, data |-> data]
FromPage(e) == \E x, hi, lo \in Byte : \E data \in Seq(Byte) : Means(e, x, hi, lo, data)

Entries == {e \in [bytes : Seq(Byte), meaning : [kind : Byte, data : Seq(Byte)]] : FromPage(e)}

\* While an image is on its way nothing is stored, for the page has nothing to send
\* before it arrives.
ImageOnItsWay ==
    /\ down = send_websocket_binary(flash) /\ Len(flash) < 65536
    /\ gfig = NotYet /\ net = <<>> /\ pc # "scan"

FramesInv ==
    /\ ElementsInv
    /\ net \in Seq(Entries)
    /\ gfig # NotYet => gfig \in Seq(Byte) /\ Len(gfig) + 3 <= FlashSize
    /\ down # NotYet => ImageOnItsWay
    /\ HandledAsTold
    /\ KeyAccepted

LEMMA MeantByPage ==
    \A e : \A x, hi, lo \in Byte : \A data \in Seq(Byte) :
        Means(e, x, hi, lo, data) => FromPage(e)
  BY Zenon DEF FromPage

\* A packet joins the others on the wire.
LEMMA Sent ==
    ASSUME net \in Seq(Entries), NEW x \in Byte, NEW hi \in Byte, NEW lo \in Byte,
           NEW data \in Seq(Byte), hi * 256 + lo = LengthTold([kind |-> x, data |-> data]),
           Len(data) + 3 < 65536, Transmit(<<x, hi, lo>> \o data, x, data)
    PROVE  net' \in Seq(Entries)
<1> DEFINE p == <<x, hi, lo>> \o data
           e == [bytes |-> ClientFrame(p), meaning |-> [kind |-> x, data |-> data]]
           told == LengthTold([kind |-> x, data |-> data])
<1>1. p \in Seq(Byte) /\ Len(p) = 3 + Len(data)
  <2>1. told \in Nat /\ told <= Len(data) /\ hi * 256 + lo = told
    BY ToldLength
  <2> HIDE DEF told
  <2> QED
    BY <2>1, PacketTaken
<1>2. Len(p) \in Nat /\ Len(p) < 65536
  BY <1>1
<1>3. ClientFrame(p) \in Seq(Byte)
  <2> HIDE DEF p
  <2> QED
    BY <1>1, <1>2, ClientFrameTaken
<1>4. FromPage(e)
  <2>1. Means(e, x, hi, lo, data)
    BY DEF Means
  <2> HIDE DEF e
  <2> QED
    BY <2>1, MeantByPage
<1>5. e \in Entries
  BY <1>3, <1>4 DEF Entries
<1>6. net' = Append(net, e)
  BY DEF Transmit
<1> HIDE DEF e
<1> QED
  BY <1>5, <1>6

\* How the controller takes the frame of a packet of type x with such data.
FrameSize(n) == IF n <= 125 THEN 6 + n ELSE 8 + n
ToldPart(e) == SubSeq(e.meaning.data, 1, LengthTold(e.meaning))
FrameEnd(b) == HeaderSize(b) + PayloadLength(b)
Framed(data) == FrameSize(3 + Len(data))
Short(data) == Len(data) + 3 < 65536
WholeFrame(e, data) ==
    /\ e.bytes \in Seq(Byte) /\ FrameEnd(e.bytes) = Len(e.bytes)
    /\ Len(e.bytes) = Framed(data) /\ Short(data)
PartTold(e, x, data) ==
    /\ Behind(Payload(e.bytes)) \in Byte
    /\ ToldPart(e) \in Seq(Byte) /\ Len(ToldPart(e)) <= Len(data)
    /\ x # 11 => Len(ToldPart(e)) = Len(data)
Taken(e, x, data) ==
    /\ e.meaning = [kind |-> x, data |-> data]
    /\ Packet(Payload(e.bytes)) = [kind |-> x, data |-> ToldPart(e)]
    /\ PartTold(e, x, data)
    /\ WholeFrame(e, data)

LEMMA WholeFits ==
    ASSUME NEW b, NEW n, FrameEnd(b) = Len(b)
    PROVE  Fits(b, n) <=> n < BufSize /\ Len(b) < BufSize
BY DEF Fits, FrameEnd

LEMMA FrameTaken ==
    ASSUME NEW e \in Entries
    PROVE  \E x \in Byte : \E data \in Seq(Byte) : Taken(e, x, data)
<1>1. PICK x \in Byte, hi \in Byte, lo \in Byte, data \in Seq(Byte) : Means(e, x, hi, lo, data)
  <2>1. FromPage(e)
    BY DEF Entries
  <2> QED
    BY <2>1, Zenon DEF FromPage
<1> DEFINE m == [kind |-> x, data |-> data]
           p == <<x, hi, lo>> \o data
           told == LengthTold(m)
           q == SubSeq(data, 1, told)
<1>2. hi * 256 + lo = told /\ Short(data)
  BY <1>1 DEF Means, Short
<1>3. e.bytes = ClientFrame(p)
  BY <1>1 DEF Means
<1>4. e.meaning = m
  BY <1>1 DEF Means
<1>5. told \in Nat /\ told <= Len(data) /\ (x # 11 => told = Len(data))
  BY ToldLength
<1>6. m.data = data
  OBVIOUS
<1> HIDE DEF m
<1>7. ToldPart(e) = q
  BY <1>4, <1>6, Zenon DEF ToldPart
<1> HIDE DEF told
<1>8. q \in Seq(Byte) /\ Len(q) = told
  BY <1>5
<1>9. /\ Packet(p) = [kind |-> x, data |-> q] /\ Behind(p) \in Byte
      /\ p \in Seq(Byte) /\ Len(p) = 3 + Len(data)
  BY <1>2, <1>5, PacketTaken
<1> HIDE DEF p, q
<1>10. Len(p) \in Nat /\ Len(p) < 65536
  BY <1>2, <1>9 DEF Short
<1>11. /\ Payload(ClientFrame(p)) = p /\ ClientFrame(p) \in Seq(Byte)
       /\ FrameEnd(ClientFrame(p)) = Len(ClientFrame(p))
       /\ Len(ClientFrame(p)) = FrameSize(Len(p))
  BY <1>9, <1>10, ClientFrameTaken DEF FrameSize, FrameEnd
<1>12. Len(ClientFrame(p)) = Framed(data)
  BY <1>9, <1>11 DEF Framed
<1>13. WholeFrame(e, data)
  BY <1>2, <1>3, <1>11, <1>12, Zenon DEF WholeFrame
<1>14. Payload(e.bytes) = p
  BY <1>3, <1>11, Zenon
<1>15. PartTold(e, x, data)
  <2>1. Behind(Payload(e.bytes)) \in Byte
    BY <1>9, <1>14
  <2>2. ToldPart(e) \in Seq(Byte) /\ Len(ToldPart(e)) = told
    BY <1>7, <1>8, Zenon
  <2> QED
    BY <1>5, <2>1, <2>2, Zenon DEF PartTold
<1>16. Packet(Payload(e.bytes)) = [kind |-> x, data |-> ToldPart(e)]
  <2>1. Packet(p) = [kind |-> x, data |-> q]
    BY <1>9
  <2> QED
    BY <1>7, <1>14, <2>1, Zenon
<1>17. e.meaning = [kind |-> x, data |-> data]
  BY <1>4, Zenon DEF m
<1> QED
  BY <1>13, <1>15, <1>16, <1>17, Zenon DEF Taken

\* What a page sends is stored, looked for or dropped as far as it told.
LEMMA Handled ==
    ASSUME FramesInv, Handle
    PROVE  FramesInv'
<1> DEFINE e == net[1]
           q == ToldPart(e)
<1>1. PICK n \in 1..Len(net) :
          /\ net' = SubSeq(net, n + 1, Len(net))
          /\ inside' = Fits(e.bytes, Joined(n))
          /\ IF inside'
               THEN /\ handled' = Packet(Payload(e.bytes))
                    /\ meant' = e.meaning
                    /\ Dispatch(handled', Behind(Payload(e.bytes)))
               ELSE UNCHANGED <<store, handled, meant>>
  BY DEF Handle
<1>2. gfig' = gfig /\ down' = down /\ KeyAccepted'
  BY DEF Handle, FramesInv, KeyAccepted
<1>3. net \in Seq(Entries) /\ net # <<>> /\ e \in Entries /\ down = NotYet
  BY ElementOfSeq DEF FramesInv, ImageOnItsWay
<1>4. net' \in Seq(Entries)
  BY <1>1, <1>3
<1> HIDE DEF e
<1>5. PICK x \in Byte, data \in Seq(Byte) : Taken(e, x, data)
  BY <1>3, FrameTaken
<1>6. CASE ~inside'
  <2>1. UNCHANGED <<store, handled, meant>>
    BY <1>1, <1>6
  <2>2. ElementsInv'
    BY <2>1 DEF FramesInv, ElementsInv, TypeOK, Told, store
  <2> QED
    BY <1>2, <1>3, <1>4, <2>1, <2>2 DEF FramesInv, HandledAsTold
<1>7. CASE inside'
  <2>1. handled' = [kind |-> x, data |-> q] /\ meant' = e.meaning /\ e.meaning.kind = x
    <3>1. /\ e.meaning = [kind |-> x, data |-> data]
          /\ Packet(Payload(e.bytes)) = [kind |-> x, data |-> q]
      BY <1>5, Zenon DEF Taken
    <3>2. handled' = Packet(Payload(e.bytes)) /\ meant' = e.meaning
      BY <1>1, <1>7, Zenon
    <3>3. e.meaning.kind = x
      BY <3>1
    <3> QED
      BY <3>1, <3>2, <3>3, Zenon
  <2>2. HandledAsTold'
    <3>1. handled' = [kind |-> e.meaning.kind, data |-> q]
      BY <2>1, Zenon
    <3>2. q = SubSeq(e.meaning.data, 1, LengthTold(e.meaning))
      BY DEF ToldPart
    <3> HIDE DEF q
    <3>3. handled' = [kind |-> e.meaning.kind, data |-> SubSeq(e.meaning.data, 1, LengthTold(e.meaning))]
      BY <3>1, <3>2, Zenon
    <3>4. meant' = e.meaning
      BY <2>1
    <3> QED
      BY <3>3, <3>4, Zenon DEF HandledAsTold
  <2>3. q \in Seq(Byte) /\ Len(q) + 3 <= FlashSize
    <3>1. Len(e.bytes) < BufSize
      <4>1. Fits(e.bytes, Joined(n))
        BY <1>1, <1>7, Zenon
      <4>2. FrameEnd(e.bytes) = Len(e.bytes)
        BY <1>5, Zenon DEF Taken, WholeFrame
      <4> QED
        BY <4>1, <4>2, WholeFits
    <3>2. Len(e.bytes) = Framed(data) /\ q \in Seq(Byte) /\ Len(q) <= Len(data)
      BY <1>5, Zenon DEF Taken, WholeFrame, PartTold
    <3> HIDE DEF q
    <3>3. Len(q) \in Nat /\ Len(data) \in Nat /\ Len(q) + 3 < BufSize
      BY <3>1, <3>2, SizesAssumption DEF Framed, FrameSize
    <3> QED
      BY <3>2, <3>3, SizesAssumption, SizeBounds
  <2>4. Dispatch([kind |-> x, data |-> q], Behind(Payload(e.bytes)))
    BY <1>1, <1>7, <2>1
  <2>5. Behind(Payload(e.bytes)) \in Byte
    BY <1>5, Zenon DEF Taken, PartTold
  <2> HIDE DEF q
  <2>6. ElementsInv'
    <3>1. CASE apply_config(q)
      BY <2>3, <3>1, InvSaved DEF FramesInv
    <3>2. CASE update_config(q, Behind(Payload(e.bytes)))
      BY <2>3, <2>5, <3>2, InvUpdateCalled DEF FramesInv
    <3> QED
      BY <2>4, <3>1, <3>2 DEF Dispatch
  <2> QED
    BY <1>2, <1>3, <1>4, <2>2, <2>6 DEF FramesInv
<1> QED
  BY <1>6, <1>7

LEMMA NoAnswerAccepted == Decoded(NoAnswer.accept) = NoAnswer.digest
<1>1. NoAnswer.accept = <<>> /\ NoAnswer.digest = <<>>
  BY DEF NoAnswer
<1>2. Len(<<>>) = 0 /\ Pads(<<>>) = 0
  BY DEF Pads
<1>3. 3 * (0 \div 4) - 0 = 0
  OBVIOUS
<1> QED
  BY <1>1, <1>2, <1>3 DEF Decoded

LEMMA FramesInvInit == FramesInit => FramesInv
<1> SUFFICES ASSUME FramesInit PROVE FramesInv
  OBVIOUS
<1>1. ElementsInv
  BY InvInit DEF FramesInit
<1>2. <<>> \in Seq(Entries)
  OBVIOUS
<1>3. HandledAsTold
  <2>1. LengthTold(Nothing) = 0 /\ SubSeq(Nothing.data, 1, 0) = <<>>
    BY DEF LengthTold, Nothing
  <2> QED
    BY <2>1 DEF FramesInit, HandledAsTold, Nothing
<1> QED
  BY <1>1, <1>2, <1>3, NoAnswerAccepted DEF FramesInit, FramesInv, KeyAccepted

LEMMA FramesInvNext == FramesInv /\ [FramesNext]_<<store, wire>> => FramesInv'
<1> SUFFICES ASSUME FramesInv, [FramesNext]_<<store, wire>> PROVE FramesInv'
  OBVIOUS
<1>1. ASSUME UNCHANGED store PROVE ElementsInv'
  BY <1>1 DEF FramesInv, ElementsInv, TypeOK, Told, store
<1>2. Told(flash)
  BY DEF FramesInv, ElementsInv
<1>3. /\ flash \in Seq(Byte) /\ Len(flash) \in Nat /\ 3 <= Len(flash) /\ Len(flash) <= FlashSize
      /\ 3 + flash[2] * 256 + flash[3] = Len(flash)
  <2>1. /\ flash \in Seq(Byte) /\ Len(flash) \in Int /\ 3 <= Len(flash) /\ Len(flash) <= FlashSize
        /\ 3 + flash[2] * 256 + flash[3] = Len(flash)
    BY <1>2, ToldFacts, Zenon
  <2> QED
    BY <2>1
<1>4. CASE Connect
  <2>1. UNCHANGED <<store, gfig, net, handled, meant>> /\ gfig = NotYet /\ net = <<>> /\ pc # "scan"
    BY <1>4 DEF Connect, Ready
  <2>2. down' = NotYet \/ (down' = send_websocket_binary(flash) /\ Len(send_websocket_binary(flash)) <= BufSize)
    BY <1>4 DEF Connect
  <2>3. down' # NotYet => Len(flash) < 65536
    BY <1>3, <2>2, AnswerLength, SizesAssumption
  <2>4. KeyAccepted'
    <3>1. PICK d \in Digests : answer' \in {NoAnswer, [digest |-> d, accept |-> base64_encode(d)]}
      BY <1>4 DEF Connect
    <3>2. Decoded(base64_encode(d)) = d
      BY DigestsAssumption, Base64Back DEF Byte
    <3> QED
      BY <3>1, <3>2, NoAnswerAccepted DEF KeyAccepted
  <2> QED
    BY <1>1, <2>1, <2>2, <2>3, <2>4 DEF FramesInv, HandledAsTold, ImageOnItsWay, store
<1>5. CASE Receive
  <2>1. UNCHANGED <<store, net, handled, meant>> /\ down' = NotYet /\ ImageOnItsWay
    BY <1>5 DEF Receive, FramesInv
  <2>2. PayloadOf(down) = flash
    BY <1>3, <2>1, ServerFrameTaken DEF ImageOnItsWay
  <2>3. gfig' = SubSeq(flash, 4, Len(flash))
    BY <1>5, <2>2 DEF Receive
  <2>4. gfig' \in Seq(Byte) /\ Len(gfig') + 3 <= FlashSize
    BY <1>3, <2>3, PartOfBytes, SizeBounds
  <2>5. KeyAccepted'
    BY <1>5, NoAnswerAccepted DEF Receive, KeyAccepted
  <2> QED
    BY <1>1, <2>1, <2>4, <2>5 DEF FramesInv, HandledAsTold
<1>6. CASE Edit
  <2>1. PICK f \in Fields : Transmit(UpdatePacket(f), 11, FieldMessage(f))
    BY <1>6 DEF Edit
  <2> DEFINE d == FieldMessage(f)
             lo == Low(6 + Len(f.value))
  <2>2. d \in Seq(Byte) /\ Len(d) + 3 < 65536 /\ lo = Len(d) % 256 /\ lo \in Byte
    BY FieldPacket
  <2>3. UpdatePacket(f) = <<11, 0, lo>> \o d
    BY DEF UpdatePacket
  <2>4. Transmit(<<11, 0, lo>> \o d, 11, d)
    BY <2>1, <2>3
  <2> HIDE DEF d, lo
  <2>5. /\ 11 \in Byte /\ 0 \in Byte
        /\ 0 * 256 + lo = LengthTold([kind |-> 11, data |-> d])
    <3>1. 11 \in Byte /\ 0 \in Byte
      BY ByteBounds
    <3>2. LengthTold([kind |-> 11, data |-> d]) = Len(d) % 256
      BY DEF LengthTold
    <3>3. lo \in Int
      BY <2>2, ByteIsInt, SMTT(30)
    <3> QED
      BY <2>2, <3>1, <3>2, <3>3
  <2>6. net' \in Seq(Entries)
    BY <2>2, <2>4, <2>5, Sent DEF FramesInv
  <2>7. gfig # NotYet /\ UNCHANGED <<store, gfig, answer, down, handled, meant>>
    BY <2>1 DEF Transmit
  <2> QED
    BY <1>1, <2>6, <2>7 DEF FramesInv, HandledAsTold, ImageOnItsWay, KeyAccepted
<1>7. CASE SaveGraph
  <2>1. PICK g \in Graphs : Transmit(SavePacket(gfig \o g), 10, gfig \o g)
    BY <1>7 DEF SaveGraph
  <2>2. g \in Seq(Byte) /\ Len(g) + FlashSize < 65536 /\ gfig \in Seq(Byte) /\ Len(gfig) + 3 <= FlashSize
    BY <2>1, GraphsAssumption DEF Transmit, FramesInv
  <2> DEFINE d == gfig \o g
  <2>3. d \in Seq(Byte) /\ Len(d) = Len(gfig) + Len(g)
    <3>1. gfig \in Seq(Byte) /\ g \in Seq(Byte)
      BY <2>2
    <3> QED
      BY <3>1, ConcatBytes, Zenon
  <2>4. SavePacket(d) = <<10, High(Len(d)), Low(Len(d))>> \o d
    BY DEF SavePacket
  <2>5. Transmit(SavePacket(d), 10, d)
    BY <2>1
  <2>6. Len(d) + 3 < 65536 /\ Len(d) \in Nat
    BY <2>2, <2>3, SizeBounds
  <2> HIDE DEF d
  <2>7. High(Len(d)) \in Byte /\ Low(Len(d)) \in Byte /\ High(Len(d)) * 256 + Low(Len(d)) = Len(d)
    BY <2>6, TwoByteLength
  <2>8. 10 \in Byte
    BY ByteBounds
  <2>9. net' \in Seq(Entries)
    <3> DEFINE hi == High(Len(d))
               lo == Low(Len(d))
    <3>1. Transmit(<<10, hi, lo>> \o d, 10, d)
      BY <2>4, <2>5
    <3>2. net \in Seq(Entries) /\ hi \in Byte /\ lo \in Byte /\ hi * 256 + lo = Len(d)
      BY <2>7 DEF FramesInv
    <3>3. LengthTold([kind |-> 10, data |-> d]) = Len(d)
      BY DEF LengthTold
    <3> HIDE DEF hi, lo
    <3> QED
      BY <2>3, <2>6, <2>8, <3>1, <3>2, <3>3, Sent
  <2>10. gfig # NotYet /\ UNCHANGED <<store, gfig, answer, down, handled, meant>>
    BY <2>5 DEF Transmit
  <2> QED
    BY <1>1, <2>9, <2>10 DEF FramesInv, HandledAsTold, ImageOnItsWay, KeyAccepted
<1>8. CASE Leave
  <2>1. UNCHANGED <<store, net, answer, down, handled, meant>> /\ gfig # NotYet /\ gfig' = NotYet
    BY <1>8 DEF Leave
  <2> QED
    BY <1>1, <2>1 DEF FramesInv, HandledAsTold, ImageOnItsWay, KeyAccepted
<1>9. CASE Handle
  BY <1>9, Handled
<1>10. CASE Update /\ UNCHANGED wire
  <2>1. ElementsInv'
    BY <1>10, InvNext DEF FramesInv, Next
  <2>2. pc = "scan" /\ UNCHANGED <<gfig, net, answer, down, handled, meant>>
    BY <1>10 DEF Update, Skip, Replace, EndOfImage, Fault, wire
  <2> QED
    BY <2>1, <2>2 DEF FramesInv, HandledAsTold, ImageOnItsWay, KeyAccepted
<1>11. CASE UNCHANGED <<store, wire>>
  <2>1. UNCHANGED store /\ UNCHANGED <<gfig, net, answer, down, handled, meant, pc, flash>>
    BY <1>11 DEF store, wire
  <2> QED
    BY <1>1, <2>1 DEF FramesInv, HandledAsTold, ImageOnItsWay, KeyAccepted
<1> QED
  BY <1>4, <1>5, <1>6, <1>7, <1>8, <1>9, <1>10, <1>11 DEF FramesNext

\* An image that a page saved came in a frame that fits the buffer.
Received == saved = 0 \/ FrameSize(saved) < BufSize

BuffersInv ==
    /\ saved \in Nat /\ longest \in Nat /\ inside \in BOOLEAN
    /\ Received
    /\ ~inside => pc # "scan"
    /\ BufferInside

LEMMA Longer ==
    ASSUME NEW m \in Nat, NEW n \in Nat
    PROVE  MaxOf(m, n) \in Nat /\ m <= MaxOf(m, n) /\ n <= MaxOf(m, n)
  BY DEF MaxOf

\* Neither a request nor an image of the length of a saved one leaves its buffer.
LEMMA ConnectInside ==
    ASSUME FramesInv, BuffersInv, Connect
    PROVE  BuffersInv'
<1>1. PICK n \in Requests :
          /\ inside' = (n < BufSize /\ Len(send_websocket_binary(flash)) <= BufSize)
          /\ longest' = MaxOf(n, longest)
  BY DEF Connect
<1>2. /\ n \in Nat /\ longest' \in Nat /\ n <= longest' /\ BufSize \in Nat
  BY <1>1, SizesAssumption, Longer DEF BuffersInv
<1>3. UNCHANGED <<flash, saved, pc>> /\ pc # "scan"
  BY DEF Connect, Ready, store
<1>4. Told(flash)
  BY DEF FramesInv, ElementsInv
<1>5. flash \in Seq(Byte) /\ Len(flash) \in Nat /\ 3 <= Len(flash)
  <2>1. flash \in Seq(Byte) /\ Len(flash) \in Int /\ 3 <= Len(flash)
    BY <1>4, ToldFacts, Zenon
  <2> QED
    BY <2>1
<1>6. Len(send_websocket_binary(flash)) = IF Len(flash) <= 125 THEN 2 + Len(flash) ELSE 4 + Len(flash)
  BY <1>5, AnswerLength
<1>7. CASE n < BufSize /\ Len(flash) <= saved
  <2>1. FrameSize(saved) < BufSize
    BY <1>5, <1>7 DEF BuffersInv, Received
  <2>2. Len(send_websocket_binary(flash)) <= BufSize
    BY <1>2, <1>5, <1>6, <1>7, <2>1 DEF FrameSize, BuffersInv
  <2>3. inside'
    BY <1>1, <1>7, <2>2
  <2> QED
    BY <1>1, <1>2, <1>3, <2>3 DEF BuffersInv, Received, BufferInside
<1>8. CASE ~(n < BufSize)
  <2>1. longest' >= BufSize
    BY <1>2, <1>8
  <2> QED
    BY <1>1, <1>2, <1>3, <2>1 DEF BuffersInv, Received, BufferInside
<1>9. CASE ~(Len(flash) <= saved)
  <2>1. Len(flash) > saved
    BY <1>5, <1>9 DEF BuffersInv
  <2> QED
    BY <1>1, <1>2, <1>3, <2>1 DEF BuffersInv, Received, BufferInside
<1> QED
  BY <1>7, <1>8, <1>9

\* A frame that is not longer than the segment tells no payload behind it.
LEMMA HandleInside ==
    ASSUME FramesInv, BuffersInv, Handle
    PROVE  BuffersInv'
<1> DEFINE e == net[1]
<1>1. PICK n \in 1..Len(net) :
          /\ longest' = MaxOf(Joined(n), longest)
          /\ inside' = Fits(e.bytes, Joined(n))
          /\ IF inside'
               THEN /\ handled' = Packet(Payload(e.bytes))
                    /\ Dispatch(handled', Behind(Payload(e.bytes)))
                    /\ saved' = IF handled'.kind = 10 THEN Len(flash') ELSE saved
               ELSE UNCHANGED <<store, handled, meant, saved>>
  BY DEF Handle
<1>2. pc # "scan" /\ inside
  BY DEF Handle, Ready
<1>3. net \in Seq(Entries) /\ net # <<>> /\ \A i \in 1..n : net[i] \in Entries
  BY ElementOfSeq DEF FramesInv
<1>4. \A i \in 1..n : Len(net[i].bytes) \in Nat
  <2> TAKE i \in 1..n
  <2>1. net[i].bytes \in Seq(Byte)
    BY <1>3 DEF Entries
  <2> QED
    BY <2>1
<1>5. e \in Entries
  BY <1>3
<1> DEFINE k == Joined(n)
<1>6. k \in Nat /\ Len(e.bytes) <= k /\ Len(e.bytes) \in Nat
  <2>1. n \in Nat /\ 1 <= n
    BY <1>3
  <2>2. k \in Nat /\ Len(net[1].bytes) <= k
    BY <1>4, <2>1, JoinedBytes
  <2>3. Len(net[1].bytes) \in Nat
    BY <1>4, <2>1
  <2> QED
    BY <2>2, <2>3
<1>7. longest' = MaxOf(k, longest) /\ inside' = Fits(e.bytes, k)
  BY <1>1
<1> HIDE DEF e, k
<1>8. PICK x \in Byte, data \in Seq(Byte) : Taken(e, x, data)
  BY <1>5, FrameTaken
<1>9. FrameEnd(e.bytes) = Len(e.bytes) /\ Len(e.bytes) = Framed(data) /\ Short(data)
  BY <1>8, Zenon DEF Taken, WholeFrame
<1>10. longest' \in Nat /\ k <= longest'
  BY <1>6, <1>7, Longer DEF BuffersInv
<1>11. CASE ~inside'
  <2>1. UNCHANGED <<saved, pc>>
    BY <1>1, <1>11 DEF store
  <2>2. ~(k < BufSize) \/ ~(Len(e.bytes) < BufSize)
    <3>1. ~Fits(e.bytes, k)
      BY <1>7, <1>11, Zenon
    <3> QED
      BY <1>9, <3>1, WholeFits
  <2>3. longest' >= BufSize
    BY <1>6, <1>10, <2>2, SizesAssumption
  <2>4. inside' \in BOOLEAN
    BY <1>7 DEF Fits
  <2>5. BufferInside'
    BY <2>3 DEF BufferInside
  <2>6. saved' \in Nat /\ Received' /\ (~inside' => pc' # "scan")
    BY <1>2, <2>1 DEF BuffersInv, Received
  <2> QED
    BY <1>10, <2>4, <2>5, <2>6 DEF BuffersInv
<1>12. CASE inside'
  <2> DEFINE q == ToldPart(e)
  <2>1. handled' = [kind |-> x, data |-> q] /\ q \in Seq(Byte) /\ (x # 11 => Len(q) = Len(data))
    BY <1>1, <1>8, <1>12, Zenon DEF Taken, PartTold
  <2>2. Framed(data) < BufSize
    <3>1. Fits(e.bytes, k)
      BY <1>7, <1>12, Zenon
    <3>2. Len(e.bytes) < BufSize
      BY <1>9, <3>1, WholeFits
    <3> QED
      BY <1>9, <3>2, Zenon
  <2>3. Dispatch([kind |-> x, data |-> q], Behind(Payload(e.bytes)))
    BY <1>1, <1>12, <2>1
  <2> HIDE DEF q
  <2>4. CASE x = 10
    <3>1. apply_config(q)
      BY <2>3, <2>4 DEF Dispatch
    <3>2. Len(flash') = 3 + Len(data)
      <4>1. flash' = Header(Len(q)) \o q /\ Len(q) = Len(data) /\ q \in Seq(Byte)
        BY <2>1, <2>4, <3>1 DEF apply_config
      <4>2. Len(Header(Len(q))) = 3 /\ Len(Header(Len(q)) \o q) = Len(Header(Len(q))) + Len(q)
        <5>1. Len(q) \in Int /\ 0 <= Len(q) /\ Len(q) + 3 <= MaxImage
          BY <1>9, <4>1 DEF MaxImage, Short
        <5>2. Len(q) \div 256 \in Byte /\ Len(q) % 256 \in Byte
          BY <5>1, TwoBytes
        <5>3. 10 \in Byte
          BY ByteBounds
        <5>4. Header(Len(q)) \in Seq(Byte) /\ Len(Header(Len(q))) = 3
          BY <5>2, <5>3 DEF Header
        <5> QED
          BY <4>1, <5>4, ConcatBytes
      <4> QED
        BY <4>1, <4>2
    <3>3. saved' = 3 + Len(data) /\ 3 + Len(data) \in Nat
      BY <1>1, <1>12, <2>1, <2>4, <3>2
    <3> QED
      BY <1>10, <1>12, <2>2, <3>3 DEF BuffersInv, Received, BufferInside, Framed
  <2>5. CASE x # 10
    <3>1. saved' = saved
      BY <1>1, <1>12, <2>1, <2>5
    <3> QED
      BY <1>10, <1>12, <3>1 DEF BuffersInv, Received, BufferInside
  <2> QED
    BY <2>4, <2>5
<1> QED
  BY <1>11, <1>12

LEMMA BuffersInvInit == FramesInit => BuffersInv
  BY DEF FramesInit, BuffersInv, Received, BufferInside

LEMMA BuffersInvNext == FramesInv /\ BuffersInv /\ [FramesNext]_<<store, wire>> => BuffersInv'
<1> SUFFICES ASSUME FramesInv, BuffersInv, [FramesNext]_<<store, wire>> PROVE BuffersInv'
  OBVIOUS
<1>1. CASE Connect
  BY <1>1, ConnectInside
<1>2. CASE Handle
  BY <1>2, HandleInside
<1>3. CASE Update /\ UNCHANGED wire
  <2>1. pc = "scan" /\ UNCHANGED <<inside, longest, saved>>
    BY <1>3 DEF Update, Skip, Replace, EndOfImage, Fault, wire
  <2>2. inside
    BY <2>1 DEF BuffersInv
  <2> QED
    BY <2>1, <2>2 DEF BuffersInv, Received, BufferInside
<1>4. ASSUME UNCHANGED <<flash, pc, inside, longest, saved>> PROVE BuffersInv'
  BY <1>4 DEF BuffersInv, Received, BufferInside
<1>5. CASE Receive
  BY <1>4, <1>5 DEF Receive, store
<1>6. CASE Edit
  BY <1>4, <1>6 DEF Edit, Transmit, store
<1>7. CASE SaveGraph
  BY <1>4, <1>7 DEF SaveGraph, Transmit, store
<1>8. CASE Leave
  BY <1>4, <1>8 DEF Leave, store
<1>9. CASE UNCHANGED <<store, wire>>
  BY <1>4, <1>9 DEF store, wire
<1> QED
  BY <1>1, <1>2, <1>3, <1>5, <1>6, <1>7, <1>8, <1>9 DEF FramesNext

-----------------------------------------------------------------------------
(* What updates do to the messages *)

LEMMA HandleUpdates ==
    ASSUME FramesInv, UpdatesInv, Handle
    PROVE  UpdatesInv'
<1> DEFINE e == net[1]
<1>1. PICK n \in 1..Len(net) :
          /\ inside' = Fits(e.bytes, Joined(n))
          /\ IF inside'
               THEN /\ handled' = Packet(Payload(e.bytes))
                    /\ Dispatch(handled', Behind(Payload(e.bytes)))
               ELSE UNCHANGED <<store, handled, meant, saved>>
  BY DEF Handle
<1>2. e \in Entries
  BY ElementOfSeq DEF FramesInv
<1> HIDE DEF e
<1>3. PICK x \in Byte, data \in Seq(Byte) : Taken(e, x, data)
  BY <1>2, FrameTaken
<1>4. CASE ~inside'
  BY <1>1, <1>4, UpdatesKept DEF store
<1>5. CASE inside'
  <2> DEFINE q == ToldPart(e)
  <2>1. /\ Dispatch([kind |-> x, data |-> q], Behind(Payload(e.bytes)))
        /\ q \in Seq(Byte) /\ Behind(Payload(e.bytes)) \in Byte
    <3>1. Packet(Payload(e.bytes)) = [kind |-> x, data |-> q] /\ PartTold(e, x, data)
      BY <1>3, Zenon DEF Taken
    <3>2. Dispatch(Packet(Payload(e.bytes)), Behind(Payload(e.bytes)))
      BY <1>1, <1>5, Zenon
    <3> QED
      BY <3>1, <3>2, Zenon DEF PartTold
  <2> HIDE DEF q
  <2>2. CASE apply_config(q)
    BY <2>2, UpdatesSaved
  <2>3. CASE update_config(q, Behind(Payload(e.bytes)))
    BY <2>1, <2>3, UpdatesCalled
  <2> QED
    BY <2>1, <2>2, <2>3 DEF Dispatch
<1> QED
  BY <1>4, <1>5

LEMMA FramesUpdates == FramesInv /\ UpdatesInv /\ [FramesNext]_<<store, wire>> => UpdatesInv'
<1> SUFFICES ASSUME FramesInv, UpdatesInv, [FramesNext]_<<store, wire>> PROVE UpdatesInv'
  OBVIOUS
<1>1. ASSUME UNCHANGED store PROVE UpdatesInv'
  BY <1>1, UpdatesKept DEF store
<1>2. CASE Handle
  BY <1>2, HandleUpdates
<1>3. CASE Update /\ UNCHANGED wire
  BY <1>3, UpdatesStep DEF FramesInv
<1>4. CASE Connect \/ Receive \/ Edit \/ SaveGraph \/ Leave \/ UNCHANGED <<store, wire>>
  BY <1>1, <1>4 DEF Connect, Receive, Edit, SaveGraph, Leave, Transmit
<1> QED
  BY <1>2, <1>3, <1>4 DEF FramesNext

-----------------------------------------------------------------------------
(* The theorems *)

LEMMA FramesInvImplies ==
    FramesInv => HandledAsTold /\ ImageDelivered /\ KeyAccepted /\ TypeOK /\ IteratorInside
<1> SUFFICES ASSUME FramesInv
             PROVE  HandledAsTold /\ ImageDelivered /\ TypeOK /\ IteratorInside
  BY DEF FramesInv
<1>1. TypeOK /\ IteratorInside
  BY InvImplies DEF FramesInv
<1>2. HandledAsTold
  BY DEF FramesInv
<1>3. ASSUME down # NotYet
      PROVE  SubSeq(PayloadOf(down), 4, Len(PayloadOf(down))) = Data(flash)
  <2>1. /\ flash \in Seq(Byte) /\ Len(flash) \in Int /\ 3 <= Len(flash)
        /\ 3 + flash[2] * 256 + flash[3] = Len(flash)
    BY ToldFacts, Zenon DEF FramesInv, ElementsInv
  <2>2. Len(flash) \in Nat /\ Len(flash) < 65536 /\ down = send_websocket_binary(flash)
    BY <1>3, <2>1 DEF FramesInv, ImageOnItsWay
  <2>3. PayloadOf(down) = flash
    BY <2>1, <2>2, ServerFrameTaken
  <2>4. Data(flash) = SubSeq(flash, 4, Len(flash))
    BY <2>1, Zenon DEF Data
  <2> QED
    BY <2>3, <2>4
<1> QED
  BY <1>1, <1>2, <1>3 DEF ImageDelivered

\* Whatever pages save and update, in whatever order their packets are joined and
\* lost, the image keeps to its region and the iterator to the image
\* (config.c:158-202, websockets.c:223-307).
THEOREM StoredImageCorrect == FramesSpec => [](TypeOK /\ IteratorInside)
<1>1. FramesInv => TypeOK /\ IteratorInside
  BY FramesInvImplies
<1> QED
  BY <1>1, FramesInvInit, FramesInvNext, PTL DEF FramesSpec

\* The controller takes every packet it handles for what the page meant, byte for
\* byte, a configuration whole and a field as far as the one byte the page keeps of
\* its packet's length tells (websockets.c:236-268, network.js:113-131, graph.js:31-33).
THEOREM PacketsHandledAsTold == FramesSpec => []HandledAsTold
<1>1. FramesInv => HandledAsTold
  BY FramesInvImplies
<1> QED
  BY <1>1, FramesInvInit, FramesInvNext, PTL DEF FramesSpec

\* A page receives the stored image, whatever its length (websockets.c:107-138).
THEOREM StoredImageDelivered == FramesSpec => []ImageDelivered
<1>1. FramesInv => ImageDelivered
  BY FramesInvImplies
<1> QED
  BY <1>1, FramesInvInit, FramesInvNext, PTL DEF FramesSpec

\* Every browser finds its digest in the answer (websockets.c:17-75).
THEOREM KeysAccepted == FramesSpec => []KeyAccepted
<1>1. FramesInv => KeyAccepted
  BY FramesInvImplies
<1> QED
  BY <1>1, FramesInvInit, FramesInvNext, PTL DEF FramesSpec

\* Whatever is requested and sent, however it is joined, and whatever updates do in
\* between: a handler leaves its buffer only over bytes that do not fit, or over an
\* image that updates have made longer than the one a page saved
\* (websockets.c:110, 156, 232, 263).
THEOREM BuffersKept == FramesSpec => []BufferInside
<1>1. BuffersInv => BufferInside
  BY DEF BuffersInv
<1> QED
  BY <1>1, FramesInvInit, FramesInvNext, BuffersInvInit, BuffersInvNext, PTL DEF FramesSpec

\* An update of one field leaves the old sequence of messages with the first one of
\* its type, id and field replaced, wherever that one stands and however long the two
\* are; without such a message, the old sequence.  A message of its type and id without
\* payload has no field to compare (config.c:177-198).
THEOREM UpdatesAreExact == FramesSpec => []UpdateExact
<1>1. UpdatesInv => UpdateExact
  BY DEF UpdatesInv
<1>2. FramesInit => UpdatesInv
  BY UpdatesInit DEF FramesInit
<1> QED
  BY <1>1, <1>2, FramesInvInit, FramesInvNext, FramesUpdates, PTL DEF FramesSpec

\* Whatever is stored, whole or cut off, no update leaves part of a message behind or
\* loses a byte of one (config.c:185-192).
THEOREM MessagesStayWhole == FramesSpec => []WholeMessages
<1>1. UpdatesInv => WholeMessages
  BY DEF UpdatesInv
<1>2. FramesInit => UpdatesInv
  BY UpdatesInit DEF FramesInit
<1> QED
  BY <1>1, <1>2, FramesInvInit, FramesInvNext, FramesUpdates, PTL DEF FramesSpec
=============================================================================

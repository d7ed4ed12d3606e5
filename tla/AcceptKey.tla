----------------------------- MODULE AcceptKey ------------------------------
(***************************************************************************)
(* The answer to the key of a browser that opens a WebSocket: the digest   *)
(* of the key in base64 (base64_encode()).  A character is its place in    *)
(* base64_chars, the padding Pad.                                          *)
(***************************************************************************)
EXTENDS Integers, Sequences

Pad == 64

\* The four characters of three bytes.
Characters(a, b, c) ==
    <<a \div 4, (a % 4) * 16 + (b \div 16), (b % 16) * 4 + (c \div 64), c % 64>>

\* Mutant: the last group gets a character too few.
base64_encode_ShortTail(bytes) ==
    LET n == Len(bytes)
        byte(i) == IF i <= n THEN bytes[i] ELSE 0
        character(done, k) ==
            IF done + k >= n /\ done + 3 > n THEN Pad
            ELSE Characters(byte(done + 1), byte(done + 2), byte(done + 3))[k + 1]
    IN  [j \in 1..4 * ((n + 2) \div 3) |-> character(3 * ((j - 1) \div 4), (j - 1) % 4)]

\* Three bytes after the other; what the last group lacks of its three bytes counts as 0,
\* and characters made of nothing else are padding.
base64_encode(bytes) ==
    LET n == Len(bytes)
        byte(i) == IF i <= n THEN bytes[i] ELSE 0
        character(done, k) ==
            IF done + k > n THEN Pad
            ELSE Characters(byte(done + 1), byte(done + 2), byte(done + 3))[k + 1]
    IN  [j \in 1..4 * ((n + 2) \div 3) |-> character(3 * ((j - 1) \div 4), (j - 1) % 4)]

\* What the browser reads (RFC 4648): each byte from the character it starts in and the next.
Pads(text) ==
    IF text = <<>> \/ text[Len(text)] # Pad THEN 0 ELSE IF text[Len(text) - 1] # Pad THEN 1 ELSE 2

ByteFrom(x, y, k) ==
    CASE k = 0 -> x * 4 + (y \div 16)
      [] k = 1 -> (x % 16) * 16 + (y \div 4)
      [] k = 2 -> (x % 4) * 64 + y

Decoded(text) ==
    [i \in 1..3 * (Len(text) \div 4) - Pads(text) |->
        LET k == (i - 1) % 3
            j == 4 * ((i - 1) \div 3) + k + 1
        IN  ByteFrom(text[j], text[j + 1], k)]
=============================================================================

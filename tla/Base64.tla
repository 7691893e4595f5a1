------------------------------- MODULE Base64 -------------------------------
(***************************************************************************)
(* base64_encode and base64_decode of src/src/libdbb/base64.cpp.  A        *)
(* character of the alphabet is its index, 0 to 63.                        *)
(***************************************************************************)
EXTENDS Naturals, Sequences, SequencesExt, FiniteSetsExt

Equals == 64    \* the character '='
Other == 65     \* any character that is not in the alphabet
Sextet == 0..63

\* The k-th quadruple stands for the bytes 3k-2 to 3k; missing ones are zero.
ByteAt(bytes, i) == IF i <= Len(bytes) THEN bytes[i] ELSE 0

\* Mutant of Quadruple: the lower bits of a byte are not masked out.
BugNoMask(bytes, k) ==
    LET a == ByteAt(bytes, 3 * k - 2)
        b == ByteAt(bytes, 3 * k - 1)
        c == ByteAt(bytes, 3 * k)
    IN  <<a \div 4, a * 16 + b \div 16, (b % 16) * 4 + c \div 64, c % 64>>

Quadruple(bytes, k) ==
    LET a == ByteAt(bytes, 3 * k - 2)
        b == ByteAt(bytes, 3 * k - 1)
        c == ByteAt(bytes, 3 * k)
    IN  <<a \div 4, (a % 4) * 16 + b \div 16, (b % 16) * 4 + c \div 64, c % 64>>

\* In the last group one byte makes two characters, and two bytes three.
Significant(n) == (4 * n + 2) \div 3

base64_encode(bytes) ==
    LET groups == (Len(bytes) + 2) \div 3
    IN  [i \in 1..4 * groups |->
            IF i <= Significant(Len(bytes))
              THEN Quadruple(bytes, (i + 3) \div 4)[((i - 1) % 4) + 1]
              ELSE Equals]
-----------------------------------------------------------------------------
\* Decoding stops at the first character that is not in the alphabet.
Alphabetic(chars) ==
    SubSeq(chars, 1, Min({i \in 0..Len(chars) : i = Len(chars) \/ chars[i + 1] \notin Sextet}))

\* find() of the zero that fills up the last group does not find it and gives
\* npos, 255 in a byte.
CharAt(chars, i) == IF i <= Len(chars) THEN chars[i] ELSE 255

Triple(chars, k) ==
    LET a == CharAt(chars, 4 * k - 3)
        b == CharAt(chars, 4 * k - 2)
        c == CharAt(chars, 4 * k - 1)
        d == CharAt(chars, 4 * k)
    IN  <<a * 4 + (b % 64) \div 16, (b % 16) * 16 + (c % 64) \div 4, (c % 4) * 64 + d>>

\* A last group of i characters makes i - 1 bytes.
base64_decode(encoded) ==
    LET chars == Alphabetic(encoded)
        tail  == Len(chars) % 4
        bytes == 3 * (Len(chars) \div 4) + (IF tail = 0 THEN 0 ELSE tail - 1)
    IN  [j \in 1..bytes |-> Triple(chars, (j + 2) \div 3)[((j - 1) % 3) + 1]]
-----------------------------------------------------------------------------
(***************************************************************************)
(* The reference: the characters carry the bits of the bytes, in order.    *)
(***************************************************************************)
Bit(chars, n) ==
    (chars[((n - 1) \div 6) + 1] \div <<32, 16, 8, 4, 2, 1>>[((n - 1) % 6) + 1]) % 2

\* The characters without those that fill up the last group.
Unfilled(encoded) ==
    SubSeq(encoded, 1, Min({i \in 0..Len(encoded) : i = Len(encoded) \/ encoded[i + 1] = Equals}))

BytesOf(encoded) ==
    LET chars == Unfilled(encoded)
        bit(j, n) == Bit(chars, 8 * (j - 1) + n)
    IN  [j \in 1..(6 * Len(chars)) \div 8 |->
            128 * bit(j, 1) + 64 * bit(j, 2) + 32 * bit(j, 3) + 16 * bit(j, 4)
              + 8 * bit(j, 5) + 4 * bit(j, 6) + 2 * bit(j, 7) + bit(j, 8)]
=============================================================================

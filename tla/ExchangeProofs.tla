--------------------------- MODULE ExchangeProofs ---------------------------
(***************************************************************************)
(* What is proved of Exchange: for every block length, keys, IVs, commands *)
(* and answers, a device with the session's password reads the command     *)
(* that was posted, and its answer reaches the window as the value that    *)
(* the device sent.  Below these two are that the base64 functions of the  *)
(* wallet, and the decoding of the device by bits, give back the bytes     *)
(* that were encoded; that the chained cipher is inverted and the padding  *)
(* is found; and that the reader reads what the writer wrote.              *)
(***************************************************************************)
EXTENDS Exchange, Induction, FiniteSetTheorems, SequenceTheorems, TLAPS
-----------------------------------------------------------------------------
(***************************************************************************)
(* base64.                                                                 *)
(***************************************************************************)
\* How many characters carry n bytes, and how many bytes they give back.
LEMMA Lengths ==
  ASSUME NEW n \in Nat
  PROVE  LET s == Significant(n)
         IN  /\ s \in Nat
             /\ s <= 4 * ((n + 2) \div 3)
             /\ (6 * s) \div 8 = n
             /\ 3 * (s \div 4) + (IF s % 4 = 0 THEN 0 ELSE (s % 4) - 1) = n
  BY DEF Significant

\* Where the two characters are that the j-th byte is in.
LEMMA Places ==
  ASSUME NEW n \in Nat, NEW j \in 1..n
  PROVE  LET k == (j + 2) \div 3
             r == ((j - 1) % 3) + 1
         IN  /\ k \in Nat \ {0} /\ r \in 1..3
             /\ j = 3 * k - 3 + r
             /\ 4 * k - 4 + r \in 1..Significant(n)
             /\ 4 * k - 4 + r + 1 \in 1..Significant(n)
  BY DEF Significant

\* Past the end there are zeros, which are bytes as well.
LEMMA ByteAtIsByte ==
  ASSUME NEW bytes \in Seq(Byte), NEW i \in Nat \ {0}
  PROVE  ByteAt(bytes, i) \in 0..255
  <1>1. CASE i <= Len(bytes)
    <2>1. i \in 1..Len(bytes)
      BY <1>1, LenProperties
    <2>2. bytes[i] \in Byte
      BY <2>1, ElementOfSeq
    <2> QED
      BY <1>1, <2>2 DEF ByteAt, Byte
  <1>2. CASE ~(i <= Len(bytes))
    BY <1>2 DEF ByteAt
  <1> QED
    BY <1>1, <1>2

\* Each character of a group has six bits.
LEMMA QuadrupleIsSextets ==
  ASSUME NEW bytes \in Seq(Byte), NEW k \in Nat \ {0}, NEW p \in 1..4
  PROVE  Quadruple(bytes, k)[p] \in Sextet
  <1> DEFINE a == ByteAt(bytes, 3 * k - 2)
             b == ByteAt(bytes, 3 * k - 1)
             c == ByteAt(bytes, 3 * k)
  <1>1. a \in 0..255 /\ b \in 0..255 /\ c \in 0..255
    BY ByteAtIsByte
  <1>2. Quadruple(bytes, k) = <<a \div 4, (a % 4) * 16 + b \div 16, (b % 16) * 4 + c \div 64, c % 64>>
    BY DEF Quadruple
  <1> HIDE DEF a, b, c
  <1>3. a \div 4 \in 0..63 /\ (a % 4) * 16 + b \div 16 \in 0..63
    BY <1>1
  <1>4. (b % 16) * 4 + c \div 64 \in 0..63 /\ c % 64 \in 0..63
    BY <1>1
  <1>5. ASSUME NEW u \in 0..63, NEW v \in 0..63, NEW w \in 0..63, NEW x \in 0..63
        PROVE  <<u, v, w, x>>[p] \in 0..63
    <2>1. CASE p = 1
      BY <2>1
    <2>2. CASE p = 2
      BY <2>2
    <2>3. CASE p = 3
      BY <2>3
    <2>4. CASE p = 4
      BY <2>4
    <2> QED
      BY <2>1, <2>2, <2>3, <2>4
  <1>6. Quadruple(bytes, k)[p] \in 0..63
    <2> DEFINE d == (a % 4) * 16 + b \div 16
               f == (b % 16) * 4 + c \div 64
               g == c % 64
               h == a \div 4
    <2>1. Quadruple(bytes, k) = <<h, d, f, g>>
      BY <1>2
    <2>2. h \in 0..63 /\ d \in 0..63 /\ f \in 0..63 /\ g \in 0..63
      BY <1>3, <1>4
    <2> HIDE DEF d, f, g, h
    <2> QED
      BY <1>5, <2>1, <2>2
  <1> QED
    BY <1>6 DEF Sextet

\* The fill character is not in the alphabet.
LEMMA EqualsIsNoSextet == Equals \notin Sextet
  BY DEF Equals, Sextet

\* The shape of an encoded text: whole groups, the fill characters last, the
\* others those of their group.
LEMMA Encoding ==
  ASSUME NEW bytes \in Seq(Byte)
  PROVE  LET e == base64_encode(bytes)
             s == Significant(Len(bytes))
         IN  /\ e \in Seq(Sextet \cup {Equals})
             /\ Len(e) = 4 * ((Len(bytes) + 2) \div 3)
             /\ \A i \in 1..s : e[i] \in Sextet
             /\ \A i \in 1..s : e[i] = Quadruple(bytes, (i + 3) \div 4)[((i - 1) % 4) + 1]
             /\ \A i \in s + 1..Len(e) : e[i] = Equals
  <1> DEFINE e == base64_encode(bytes)
             s == Significant(Len(bytes))
             m == 4 * ((Len(bytes) + 2) \div 3)
  <1>1. s \in Nat /\ s <= m /\ m \in Nat
    BY Lengths
  <1>2. e = [i \in 1..m |-> IF i <= s THEN Quadruple(bytes, (i + 3) \div 4)[((i - 1) % 4) + 1]
                                      ELSE Equals]
    BY DEF base64_encode
  <1> HIDE DEF e, s, m
  <1>3. ASSUME NEW i \in 1..s PROVE Quadruple(bytes, (i + 3) \div 4)[((i - 1) % 4) + 1] \in Sextet
    <2>1. (i + 3) \div 4 \in Nat \ {0} /\ ((i - 1) % 4) + 1 \in 1..4
      BY <1>1
    <2> QED
      BY <2>1, QuadrupleIsSextets
  <1>4. ASSUME NEW i \in 1..m
        PROVE  /\ i \in 1..s => e[i] = Quadruple(bytes, (i + 3) \div 4)[((i - 1) % 4) + 1]
               /\ i \notin 1..s => e[i] = Equals
    BY <1>1, <1>2
  <1>5. e \in [1..m -> Sextet \cup {Equals}]
    <2>1. \A i \in 1..m : e[i] \in Sextet \cup {Equals}
      BY <1>3, <1>4
    <2> QED
      BY <1>2, <2>1
  <1>6. Len(e) = m
    BY <1>1, <1>2
  <1>7. /\ \A i \in 1..s : e[i] \in Sextet
        /\ \A i \in 1..s : e[i] = Quadruple(bytes, (i + 3) \div 4)[((i - 1) % 4) + 1]
        /\ \A i \in s + 1..m : e[i] = Equals
    <2>1. \A i \in 1..s : i \in 1..m
      BY <1>1
    <2>2. \A i \in s + 1..m : i \in 1..m /\ i \notin 1..s
      BY <1>1
    <2> QED
      BY <1>3, <1>4, <2>1, <2>2
  <1>8. e \in Seq(Sextet \cup {Equals})
    BY <1>1, <1>5
  <1> QED
    BY <1>6, <1>7, <1>8 DEF e, s, m

\* What comes before the first character of another kind, which is at n + 1.
LEMMA FirstStop ==
  ASSUME NEW N \in Nat, NEW n \in 0..N, NEW S,
         S \subseteq 0..N, n \in S, \A i \in 0..N : i < n => i \notin S
  PROVE  Min(S) = n
  <1>1. Min(S) \in S /\ \A y \in S : Min(S) <= y
    BY MinIsLeast
  <1>2. Min(S) \in 0..N /\ Min(S) <= n
    BY <1>1
  <1>3. ~(Min(S) < n)
    BY <1>1, <1>2
  <1> QED
    BY <1>2, <1>3

\* The characters before the fill characters.
LEMMA CharactersLength ==
  ASSUME NEW bytes \in Seq(Byte)
  PROVE  Len(SubSeq(base64_encode(bytes), 1, Significant(Len(bytes)))) = Significant(Len(bytes))
  <1> DEFINE e == base64_encode(bytes)
             s == Significant(Len(bytes))
  <1>1. /\ e \in Seq(Sextet \cup {Equals})
        /\ Len(e) = 4 * ((Len(bytes) + 2) \div 3)
    BY Encoding
  <1>2. s \in Nat /\ s <= 4 * ((Len(bytes) + 2) \div 3)
    BY Lengths
  <1> HIDE DEF e, s
  <1> QED
    BY <1>1, <1>2, SubSeqProperties DEF e, s

\* Both decoders stop at the fill characters.
LEMMA EncodedPrefix ==
  ASSUME NEW bytes \in Seq(Byte)
  PROVE  LET e == base64_encode(bytes)
             s == Significant(Len(bytes))
         IN  Alphabetic(e) = SubSeq(e, 1, s) /\ Unfilled(e) = SubSeq(e, 1, s)
  <1> DEFINE e == base64_encode(bytes)
             s == Significant(Len(bytes))
             A == {i \in 0..Len(e) : i = Len(e) \/ e[i + 1] \notin Sextet}
             U == {i \in 0..Len(e) : i = Len(e) \/ e[i + 1] = Equals}
  <1>1. /\ Len(e) \in Nat /\ s \in 0..Len(e)
        /\ \A i \in 1..s : e[i] \in Sextet
        /\ \A i \in s + 1..Len(e) : e[i] = Equals
    <2>1. e \in Seq(Sextet \cup {Equals}) /\ Len(e) = 4 * ((Len(bytes) + 2) \div 3)
      BY Encoding
    <2>2. /\ \A i \in 1..s : e[i] \in Sextet
          /\ \A i \in s + 1..Len(e) : e[i] = Equals
      BY Encoding
    <2>3. s \in Nat /\ s <= 4 * ((Len(bytes) + 2) \div 3)
      BY Lengths
    <2> HIDE DEF e, s
    <2>4. Len(e) \in Nat
      BY <2>1
    <2> QED
      BY <2>1, <2>2, <2>3, <2>4
  <1>2. Alphabetic(e) = SubSeq(e, 1, Min(A)) /\ Unfilled(e) = SubSeq(e, 1, Min(U))
    BY DEF Alphabetic, Unfilled
  <1> HIDE DEF e, s
  <1>3. s \in A /\ s \in U
    <2>1. CASE s = Len(e)
      BY <1>1, <2>1
    <2>2. CASE s < Len(e)
      <3>1. s + 1 \in s + 1..Len(e)
        BY <1>1, <2>2
      <3>2. e[s + 1] = Equals /\ e[s + 1] \notin Sextet
        BY <1>1, <3>1, EqualsIsNoSextet
      <3> QED
        BY <1>1, <3>2
    <2> QED
      BY <1>1, <2>1, <2>2
  <1>4. ASSUME NEW i \in 0..Len(e), i < s PROVE i \notin A /\ i \notin U
    <2>1. i + 1 \in 1..s /\ i # Len(e)
      BY <1>1, <1>4
    <2>2. e[i + 1] \in Sextet
      BY <1>1, <2>1
    <2>3. e[i + 1] # Equals
      BY <2>2, EqualsIsNoSextet
    <2> QED
      BY <2>1, <2>2, <2>3
  <1>5. A \subseteq 0..Len(e) /\ U \subseteq 0..Len(e)
    OBVIOUS
  <1> HIDE DEF A, U
  <1>6. Min(A) = s /\ Min(U) = s
    BY <1>1, <1>3, <1>4, <1>5, FirstStop
  <1> QED
    BY <1>2, <1>6 DEF e, s

\* The characters of a group of three bytes.
LEMMA Characters ==
  ASSUME NEW bytes \in Seq(Byte), NEW k \in Nat \ {0}, NEW p \in 1..4,
         4 * k - 4 + p \in 1..Significant(Len(bytes))
  PROVE  SubSeq(base64_encode(bytes), 1, Significant(Len(bytes)))[4 * k - 4 + p]
           = Quadruple(bytes, k)[p]
  <1> DEFINE e == base64_encode(bytes)
             s == Significant(Len(bytes))
             i == 4 * k - 4 + p
  <1>1. e[i] = Quadruple(bytes, (i + 3) \div 4)[((i - 1) % 4) + 1]
    BY Encoding
  <1>2. (i + 3) \div 4 = k /\ ((i - 1) % 4) + 1 = p
    OBVIOUS
  <1>3. e[i] = Quadruple(bytes, k)[p]
    BY <1>1, <1>2
  <1>4. s \in 0..Len(e) /\ e \in Seq(Sextet \cup {Equals})
    <2>1. e \in Seq(Sextet \cup {Equals}) /\ Len(e) = 4 * ((Len(bytes) + 2) \div 3)
      BY Encoding
    <2>2. s \in Nat /\ s <= 4 * ((Len(bytes) + 2) \div 3)
      BY Lengths
    <2> HIDE DEF e, s
    <2> QED
      BY <2>1, <2>2
  <1> HIDE DEF e, s
  <1>5. /\ SubSeq(e, 1, s) = [j \in 1..s |-> e[j]]
    BY <1>4
  <1> QED
    BY <1>3, <1>5 DEF e, s

\* The r-th byte of a group of three is in the r-th character and the next.
Carries(u, v, r, byte) ==
    /\ r = 1 => byte = u * 4 + v \div 16
    /\ r = 2 => byte = (u % 16) * 16 + v \div 4
    /\ r = 3 => byte = (u % 4) * 64 + v

\* Three bytes in four characters: each byte is in two of them.
LEMMA Regrouped ==
  ASSUME NEW a \in 0..255, NEW b \in 0..255, NEW c \in 0..255
  PROVE  /\ Carries(a \div 4, (a % 4) * 16 + b \div 16, 1, a)
         /\ Carries((a % 4) * 16 + b \div 16, (b % 16) * 4 + c \div 64, 2, b)
         /\ Carries((b % 16) * 4 + c \div 64, c % 64, 3, c)
  <1>1. (a \div 4) * 4 + ((a % 4) * 16 + b \div 16) \div 16 = a
    OBVIOUS
  <1>2. (((a % 4) * 16 + b \div 16) % 16) * 16 + ((b % 16) * 4 + c \div 64) \div 4 = b
    OBVIOUS
  <1>3. (((b % 16) * 4 + c \div 64) % 4) * 64 + (c % 64) = c
    OBVIOUS
  <1> QED
    BY <1>1, <1>2, <1>3 DEF Carries

\* The two characters of byte j carry it.
LEMMA ByteInCharacters ==
  ASSUME NEW bytes \in Seq(Byte), NEW j \in 1..Len(bytes)
  PROVE  LET chars == SubSeq(base64_encode(bytes), 1, Significant(Len(bytes)))
             i == 4 * ((j + 2) \div 3) - 4 + (((j - 1) % 3) + 1)
         IN  /\ i \in 1..Significant(Len(bytes)) /\ i + 1 \in 1..Significant(Len(bytes))
             /\ chars[i] \in 0..63 /\ chars[i + 1] \in 0..63
             /\ Carries(chars[i], chars[i + 1], ((j - 1) % 3) + 1, bytes[j])
  <1> DEFINE n == Len(bytes)
             s == Significant(n)
             chars == SubSeq(base64_encode(bytes), 1, s)
             k == (j + 2) \div 3
             r == ((j - 1) % 3) + 1
             i == 4 * k - 4 + r
             a == ByteAt(bytes, 3 * k - 2)
             b == ByteAt(bytes, 3 * k - 1)
             c == ByteAt(bytes, 3 * k)
             q == Quadruple(bytes, k)
  <1>1. /\ k \in Nat \ {0} /\ r \in 1..3
        /\ j = 3 * k - 3 + r
        /\ i \in 1..s /\ i + 1 \in 1..s
    BY LenProperties, Places
  <1>2. a \in 0..255 /\ b \in 0..255 /\ c \in 0..255
    BY <1>1, ByteAtIsByte
  <1>3. q = <<a \div 4, (a % 4) * 16 + b \div 16, (b % 16) * 4 + c \div 64, c % 64>>
    BY DEF Quadruple
  <1>4. chars[i] = q[r] /\ chars[i + 1] = q[r + 1]
    <2>1. r \in 1..4 /\ r + 1 \in 1..4 /\ 4 * k - 4 + (r + 1) = i + 1
      BY <1>1
    <2> HIDE DEF k, r
    <2>2. 4 * k - 4 + r \in 1..s /\ 4 * k - 4 + (r + 1) \in 1..s
      BY <1>1, <2>1
    <2>3. chars[4 * k - 4 + r] = q[r]
      BY <1>1, <2>1, <2>2, Characters
    <2>4. chars[4 * k - 4 + (r + 1)] = q[r + 1]
      BY <1>1, <2>1, <2>2, Characters
    <2> QED
      BY <2>1, <2>3, <2>4
  <1>5. q[r] \in 0..63 /\ q[r + 1] \in 0..63
    <2>1. r \in 1..4 /\ r + 1 \in 1..4
      BY <1>1
    <2> HIDE DEF k, r
    <2> QED
      BY <1>1, <2>1, QuadrupleIsSextets DEF Sextet
  <1>6. bytes[j] = ByteAt(bytes, 3 * k - 3 + r)
    BY <1>1 DEF ByteAt
  <1>7. 3 * k - 3 + 1 = 3 * k - 2 /\ 3 * k - 3 + 2 = 3 * k - 1 /\ 3 * k - 3 + 3 = 3 * k
    BY <1>1
  <1> HIDE DEF k, r, q
  <1>8. Carries(q[r], q[r + 1], r, bytes[j])
    <2>1. /\ Carries(a \div 4, (a % 4) * 16 + b \div 16, 1, a)
          /\ Carries((a % 4) * 16 + b \div 16, (b % 16) * 4 + c \div 64, 2, b)
          /\ Carries((b % 16) * 4 + c \div 64, c % 64, 3, c)
      <3> HIDE DEF a, b, c
      <3> QED
        BY <1>2, Regrouped
    <2>2. CASE r = 1
      BY <1>3, <1>6, <1>7, <2>1, <2>2
    <2>3. CASE r = 2
      BY <1>3, <1>6, <1>7, <2>1, <2>3
    <2>4. CASE r = 3
      BY <1>3, <1>6, <1>7, <2>1, <2>4
    <2> QED
      BY <1>1, <2>2, <2>3, <2>4
  <1> QED
    BY <1>1, <1>4, <1>5, <1>8 DEF k, r

\* base64_decode gives back what base64_encode was given, whatever is left over
\* in the last group (base64.cpp).
LEMMA DecodesEncoding ==
  ASSUME NEW bytes \in Seq(Byte)
  PROVE  base64_decode(base64_encode(bytes)) = bytes
  <1> DEFINE n == Len(bytes)
             s == Significant(n)
             chars == SubSeq(base64_encode(bytes), 1, s)
             dec == [j \in 1..n |-> Triple(chars, (j + 2) \div 3)[((j - 1) % 3) + 1]]
  <1>1. n \in Nat /\ s \in Nat /\ s <= 4 * ((n + 2) \div 3)
        /\ 3 * (s \div 4) + (IF s % 4 = 0 THEN 0 ELSE (s % 4) - 1) = n
    BY Lengths, LenProperties
  <1>2. Len(chars) = s
    BY CharactersLength
  <1>3. base64_decode(base64_encode(bytes)) = dec
    <2>1. Alphabetic(base64_encode(bytes)) = chars
      BY EncodedPrefix
    <2> HIDE DEF chars, s
    <2>2. base64_decode(base64_encode(bytes))
            = [j \in 1..3 * (Len(chars) \div 4) + (IF Len(chars) % 4 = 0 THEN 0 ELSE (Len(chars) % 4) - 1)
                 |-> Triple(chars, (j + 2) \div 3)[((j - 1) % 3) + 1]]
      BY <2>1 DEF base64_decode
    <2> QED
      BY <1>1, <1>2, <2>2
  <1>4. ASSUME NEW j \in 1..n PROVE dec[j] = bytes[j]
    <2> DEFINE k == (j + 2) \div 3
               r == ((j - 1) % 3) + 1
               i == 4 * k - 4 + r
               u == CharAt(chars, i)
               v == CharAt(chars, i + 1)
    <2>1. k \in Nat \ {0} /\ r \in 1..3
      BY <1>1, Places
    <2>2. /\ i \in 1..s /\ i + 1 \in 1..s
          /\ chars[i] \in 0..63 /\ chars[i + 1] \in 0..63
          /\ Carries(chars[i], chars[i + 1], r, bytes[j])
      BY ByteInCharacters
    <2>3. u = chars[i] /\ v = chars[i + 1]
      <3> HIDE DEF i, chars, s
      <3> QED
        BY <1>1, <1>2, <2>2 DEF CharAt
    <2>4. dec[j] = Triple(chars, k)[r]
      OBVIOUS
    <2>5. /\ r = 1 => i = 4 * k - 3 /\ i + 1 = 4 * k - 2
          /\ r = 2 => i = 4 * k - 2 /\ i + 1 = 4 * k - 1
          /\ r = 3 => i = 4 * k - 1 /\ i + 1 = 4 * k
      BY <2>1
    <2> HIDE DEF dec, k, r, i
    <2>6. /\ r = 1 => Triple(chars, k)[r] = u * 4 + (v % 64) \div 16
          /\ r = 2 => Triple(chars, k)[r] = (u % 16) * 16 + (v % 64) \div 4
          /\ r = 3 => Triple(chars, k)[r] = (u % 4) * 64 + v
      <3>1. CASE r = 1
        BY <2>5, <3>1 DEF Triple
      <3>2. CASE r = 2
        BY <2>5, <3>2 DEF Triple
      <3>3. CASE r = 3
        BY <2>5, <3>3 DEF Triple
      <3> QED
        BY <2>1, <3>1, <3>2, <3>3
    <2> HIDE DEF u, v
    <2>7. u \in 0..63 /\ v \in 0..63 /\ v % 64 = v
      <3>1. u \in 0..63 /\ v \in 0..63
        BY <2>2, <2>3
      <3> QED
        BY <3>1
    <2>8. Carries(u, v, r, bytes[j])
      BY <2>2, <2>3
    <2> QED
      BY <2>1, <2>4, <2>6, <2>7, <2>8 DEF Carries
  <1> HIDE DEF dec
  <1>5. dec = bytes
    <2>1. bytes \in [1..n -> Byte]
      BY LenProperties
    <2>2. DOMAIN dec = 1..n /\ dec = [j \in 1..n |-> dec[j]]
      BY DEF dec
    <2> HIDE DEF n
    <2> QED
      BY <1>4, <2>1, <2>2
  <1> QED
    BY <1>3, <1>5

\* The bits of a character.
BitOf(c, p) == (c \div <<32, 16, 8, 4, 2, 1>>[p]) % 2

\* A character is the sum of its bits.
LEMMA BitsAddUp ==
  ASSUME NEW c \in 0..63
  PROVE  \E b1, b2, b3, b4, b5, b6 \in 0..1 :
            /\ BitOf(c, 1) = b1 /\ BitOf(c, 2) = b2 /\ BitOf(c, 3) = b3
            /\ BitOf(c, 4) = b4 /\ BitOf(c, 5) = b5 /\ BitOf(c, 6) = b6
            /\ c = 32 * b1 + 16 * b2 + 8 * b3 + 4 * b4 + 2 * b5 + b6
  <1>1. PICK h2 \in Nat : h2 = c \div 2 /\ c = 2 * h2 + (c % 2)
    OBVIOUS
  <1>2. PICK h4 \in Nat : h4 = c \div 4 /\ h2 = 2 * h4 + (h2 % 2)
    BY <1>1
  <1>3. PICK h8 \in Nat : h8 = c \div 8 /\ h4 = 2 * h8 + (h4 % 2)
    BY <1>2
  <1>4. PICK h16 \in Nat : h16 = c \div 16 /\ h8 = 2 * h16 + (h8 % 2)
    BY <1>3
  <1>5. PICK h32 \in 0..1 : h32 = c \div 32 /\ h16 = 2 * h32 + (h16 % 2)
    BY <1>4
  <1>6. /\ BitOf(c, 1) = h32 % 2 /\ BitOf(c, 2) = h16 % 2 /\ BitOf(c, 3) = h8 % 2
        /\ BitOf(c, 4) = h4 % 2 /\ BitOf(c, 5) = h2 % 2 /\ BitOf(c, 6) = c % 2
    <2>1. c \div 1 = c
      OBVIOUS
    <2> QED
      BY <1>1, <1>2, <1>3, <1>4, <1>5, <2>1 DEF BitOf
  <1>7. c = 32 * (h32 % 2) + 16 * (h16 % 2) + 8 * (h8 % 2) + 4 * (h4 % 2) + 2 * (h2 % 2) + (c % 2)
    BY <1>1, <1>2, <1>3, <1>4, <1>5
  <1>8. /\ h32 % 2 \in 0..1 /\ h16 % 2 \in 0..1 /\ h8 % 2 \in 0..1
        /\ h4 % 2 \in 0..1 /\ h2 % 2 \in 0..1 /\ c % 2 \in 0..1
    OBVIOUS
  <1> QED
    BY <1>6, <1>7, <1>8

\* The eight bits from the r-th byte of a group on, in the r-th character and
\* the next.
LEMMA BitsOfByte ==
  ASSUME NEW chars, NEW k \in Nat \ {0}, NEW r \in 1..3
  PROVE  LET j == 3 * k - 3 + r
             u == chars[4 * k - 4 + r]
             v == chars[4 * k - 4 + (r + 1)]
             bit(n) == Bit(chars, 8 * (j - 1) + n)
         IN  /\ r = 1 => /\ \A n \in 1..6 : bit(n) = BitOf(u, n)
                         /\ \A n \in 7..8 : bit(n) = BitOf(v, n - 6)
             /\ r = 2 => /\ \A n \in 1..4 : bit(n) = BitOf(u, n + 2)
                         /\ \A n \in 5..8 : bit(n) = BitOf(v, n - 4)
             /\ r = 3 => /\ \A n \in 1..2 : bit(n) = BitOf(u, n + 4)
                         /\ \A n \in 3..8 : bit(n) = BitOf(v, n - 2)
  <1>1. ASSUME NEW i \in Nat \ {0}, NEW p \in 1..6
        PROVE  Bit(chars, 6 * (i - 1) + p) = BitOf(chars[i], p)
    <2>1. (6 * (i - 1) + p - 1) \div 6 + 1 = i /\ ((6 * (i - 1) + p - 1) % 6) + 1 = p
      OBVIOUS
    <2> QED
      BY <2>1 DEF Bit, BitOf
  <1> DEFINE i == 4 * k - 4 + r
             m == 8 * (3 * k - 3 + r - 1)
  <1>2. i \in Nat \ {0} /\ 4 * k - 4 + (r + 1) = i + 1 /\ i + 1 \in Nat \ {0}
    OBVIOUS
  <1>3. CASE r = 1
    <2>1. m = 6 * (i - 1) /\ m = 6 * ((i + 1) - 1) - 6
      BY <1>3
    <2> HIDE DEF m, i
    <2>2. ASSUME NEW n \in 1..6 PROVE Bit(chars, m + n) = BitOf(chars[i], n)
      BY <1>1, <1>2, <2>1
    <2>3. ASSUME NEW n \in 7..8 PROVE Bit(chars, m + n) = BitOf(chars[i + 1], n - 6)
      <3>1. n - 6 \in 1..6 /\ m + n = 6 * ((i + 1) - 1) + (n - 6)
        BY <1>2, <2>1
      <3> QED
        BY <1>1, <1>2, <3>1
    <2> QED
      BY <1>2, <1>3, <2>2, <2>3 DEF m, i
  <1>4. CASE r = 2
    <2>1. m = 6 * (i - 1) + 2 /\ m = 6 * ((i + 1) - 1) - 4
      BY <1>4
    <2> HIDE DEF m, i
    <2>2. ASSUME NEW n \in 1..4 PROVE Bit(chars, m + n) = BitOf(chars[i], n + 2)
      <3>1. n + 2 \in 1..6 /\ m + n = 6 * (i - 1) + (n + 2)
        BY <1>2, <2>1
      <3> QED
        BY <1>1, <1>2, <3>1
    <2>3. ASSUME NEW n \in 5..8 PROVE Bit(chars, m + n) = BitOf(chars[i + 1], n - 4)
      <3>1. n - 4 \in 1..6 /\ m + n = 6 * ((i + 1) - 1) + (n - 4)
        BY <1>2, <2>1
      <3> QED
        BY <1>1, <1>2, <3>1
    <2> QED
      BY <1>2, <1>4, <2>2, <2>3 DEF m, i
  <1>5. CASE r = 3
    <2>1. m = 6 * (i - 1) + 4 /\ m = 6 * ((i + 1) - 1) - 2
      BY <1>5
    <2> HIDE DEF m, i
    <2>2. ASSUME NEW n \in 1..2 PROVE Bit(chars, m + n) = BitOf(chars[i], n + 4)
      <3>1. n + 4 \in 1..6 /\ m + n = 6 * (i - 1) + (n + 4)
        BY <1>2, <2>1
      <3> QED
        BY <1>1, <1>2, <3>1
    <2>3. ASSUME NEW n \in 3..8 PROVE Bit(chars, m + n) = BitOf(chars[i + 1], n - 2)
      <3>1. n - 2 \in 1..6 /\ m + n = 6 * ((i + 1) - 1) + (n - 2)
        BY <1>2, <2>1
      <3> QED
        BY <1>1, <1>2, <3>1
    <2> QED
      BY <1>2, <1>5, <2>2, <2>3 DEF m, i
  <1> QED
    BY <1>3, <1>4, <1>5

\* The device reads what was encoded, by the bits.
LEMMA BytesOfEncoding ==
  ASSUME NEW bytes \in Seq(Byte)
  PROVE  BytesOf(base64_encode(bytes)) = bytes
  <1> DEFINE n == Len(bytes)
             s == Significant(n)
             chars == SubSeq(base64_encode(bytes), 1, s)
             bit(j, m) == Bit(chars, 8 * (j - 1) + m)
             sum(j) == 128 * bit(j, 1) + 64 * bit(j, 2) + 32 * bit(j, 3) + 16 * bit(j, 4)
                         + 8 * bit(j, 5) + 4 * bit(j, 6) + 2 * bit(j, 7) + bit(j, 8)
             dec == [j \in 1..n |-> sum(j)]
  <1>1. n \in Nat /\ s \in Nat /\ (6 * s) \div 8 = n
    BY Lengths, LenProperties
  <1>2. Len(chars) = s
    BY CharactersLength
  <1>3. BytesOf(base64_encode(bytes)) = dec
    <2>1. Unfilled(base64_encode(bytes)) = chars
      BY EncodedPrefix
    <2> HIDE DEF chars, s
    <2>2. BytesOf(base64_encode(bytes)) = [j \in 1..(6 * Len(chars)) \div 8 |-> sum(j)]
      BY <2>1 DEF BytesOf
    <2> QED
      BY <1>1, <1>2, <2>2
  <1>4. ASSUME NEW j \in 1..n PROVE sum(j) = bytes[j]
    <2> DEFINE k == (j + 2) \div 3
               r == ((j - 1) % 3) + 1
               u == chars[4 * k - 4 + r]
               v == chars[4 * k - 4 + (r + 1)]
    <2>1. k \in Nat \ {0} /\ r \in 1..3 /\ j = 3 * k - 3 + r
      BY <1>1, Places
    <2>2. /\ u \in 0..63 /\ v \in 0..63
          /\ Carries(u, v, r, bytes[j])
      <3>1. 4 * k - 4 + (r + 1) = 4 * k - 4 + r + 1
        BY <2>1
      <3> QED
        BY <3>1, ByteInCharacters
    <2> HIDE DEF k, r, chars
    <2>3. /\ r = 1 => /\ \A m \in 1..6 : bit(j, m) = BitOf(u, m)
                      /\ \A m \in 7..8 : bit(j, m) = BitOf(v, m - 6)
          /\ r = 2 => /\ \A m \in 1..4 : bit(j, m) = BitOf(u, m + 2)
                      /\ \A m \in 5..8 : bit(j, m) = BitOf(v, m - 4)
          /\ r = 3 => /\ \A m \in 1..2 : bit(j, m) = BitOf(u, m + 4)
                      /\ \A m \in 3..8 : bit(j, m) = BitOf(v, m - 2)
      BY <2>1, BitsOfByte
    <2> HIDE DEF bit, u, v
    <2>4. PICK u1, u2, u3, u4, u5, u6 \in 0..1 :
            /\ BitOf(u, 1) = u1 /\ BitOf(u, 2) = u2 /\ BitOf(u, 3) = u3
            /\ BitOf(u, 4) = u4 /\ BitOf(u, 5) = u5 /\ BitOf(u, 6) = u6
            /\ u = 32 * u1 + 16 * u2 + 8 * u3 + 4 * u4 + 2 * u5 + u6
      BY <2>2, BitsAddUp
    <2>5. PICK v1, v2, v3, v4, v5, v6 \in 0..1 :
            /\ BitOf(v, 1) = v1 /\ BitOf(v, 2) = v2 /\ BitOf(v, 3) = v3
            /\ BitOf(v, 4) = v4 /\ BitOf(v, 5) = v5 /\ BitOf(v, 6) = v6
            /\ v = 32 * v1 + 16 * v2 + 8 * v3 + 4 * v4 + 2 * v5 + v6
      BY <2>2, BitsAddUp
    <2>6. PICK y \in 0..63 : y = u /\ y = 32 * u1 + 16 * u2 + 8 * u3 + 4 * u4 + 2 * u5 + u6
      BY <2>2, <2>4
    <2>7. PICK z \in 0..63 : z = v /\ z = 32 * v1 + 16 * v2 + 8 * v3 + 4 * v4 + 2 * v5 + v6
      BY <2>2, <2>5
    <2>8. CASE r = 1
      <3>1. /\ bit(j, 1) = u1 /\ bit(j, 2) = u2 /\ bit(j, 3) = u3 /\ bit(j, 4) = u4
            /\ bit(j, 5) = u5 /\ bit(j, 6) = u6 /\ bit(j, 7) = v1 /\ bit(j, 8) = v2
        BY <2>3, <2>4, <2>5, <2>8
      <3>2. sum(j) = 128 * u1 + 64 * u2 + 32 * u3 + 16 * u4 + 8 * u5 + 4 * u6 + 2 * v1 + v2
        BY <3>1
      <3>3. 128 * u1 + 64 * u2 + 32 * u3 + 16 * u4 + 8 * u5 + 4 * u6 + 2 * v1 + v2 = y * 4 + z \div 16
        <4>1. z \div 16 = 2 * v1 + v2
          BY <2>7
        <4> QED
          BY <2>6, <2>7, <4>1
      <3> QED
        BY <2>2, <2>6, <2>7, <2>8, <3>2, <3>3 DEF Carries
    <2>9. CASE r = 2
      <3>1. /\ bit(j, 1) = u3 /\ bit(j, 2) = u4 /\ bit(j, 3) = u5 /\ bit(j, 4) = u6
            /\ bit(j, 5) = v1 /\ bit(j, 6) = v2 /\ bit(j, 7) = v3 /\ bit(j, 8) = v4
        BY <2>3, <2>4, <2>5, <2>9
      <3>2. sum(j) = 128 * u3 + 64 * u4 + 32 * u5 + 16 * u6 + 8 * v1 + 4 * v2 + 2 * v3 + v4
        BY <3>1
      <3>3. 128 * u3 + 64 * u4 + 32 * u5 + 16 * u6 + 8 * v1 + 4 * v2 + 2 * v3 + v4 = (y % 16) * 16 + z \div 4
        <4>1. y % 16 = 8 * u3 + 4 * u4 + 2 * u5 + u6
          BY <2>6
        <4>2. z \div 4 = 8 * v1 + 4 * v2 + 2 * v3 + v4
          BY <2>7
        <4> QED
          BY <2>6, <2>7, <4>1, <4>2
      <3> QED
        BY <2>2, <2>6, <2>7, <2>9, <3>2, <3>3 DEF Carries
    <2>10. CASE r = 3
      <3>1. /\ bit(j, 1) = u5 /\ bit(j, 2) = u6 /\ bit(j, 3) = v1 /\ bit(j, 4) = v2
            /\ bit(j, 5) = v3 /\ bit(j, 6) = v4 /\ bit(j, 7) = v5 /\ bit(j, 8) = v6
        BY <2>3, <2>4, <2>5, <2>10
      <3>2. sum(j) = 128 * u5 + 64 * u6 + 32 * v1 + 16 * v2 + 8 * v3 + 4 * v4 + 2 * v5 + v6
        BY <3>1
      <3>3. 128 * u5 + 64 * u6 + 32 * v1 + 16 * v2 + 8 * v3 + 4 * v4 + 2 * v5 + v6 = (y % 4) * 64 + z
        <4>1. y % 4 = 2 * u5 + u6
          BY <2>6
        <4> QED
          BY <2>6, <2>7, <4>1
      <3> QED
        BY <2>2, <2>6, <2>7, <2>10, <3>2, <3>3 DEF Carries
    <2> QED
      BY <2>1, <2>8, <2>9, <2>10
  <1> HIDE DEF sum
  <1>5. dec = bytes
    <2>1. bytes \in [1..n -> Byte]
      BY LenProperties
    <2> HIDE DEF n
    <2> QED
      BY <1>4, <2>1
  <1> QED
    BY <1>3, <1>5
-----------------------------------------------------------------------------
(***************************************************************************)
(* The cipher and its padding.                                             *)
(***************************************************************************)
IsChain(c, key, iv, msg, n) ==
    \A i \in 1..n : c[i] = (msg[i] + key + (IF i <= Block THEN iv[i] ELSE c[i - Block])) % 256

\* What the cipher calculates are bytes.
LEMMA Remainder256 ==
  ASSUME NEW n \in Nat
  PROVE  n % 256 \in 0..255
  OBVIOUS

\* Cbc is a recursive function that exists: it is the chain of its definition.
LEMMA CbcChain ==
  ASSUME NEW key \in Byte, NEW iv \in [1..Block -> Byte], NEW msg \in Seq(Byte)
  PROVE  /\ Cbc(key, iv, msg) \in [1..Len(msg) -> Byte]
         /\ IsChain(Cbc(key, iv, msg), key, iv, msg, Len(msg))
  <1> DEFINE N == Len(msg)
             prev(c, i) == IF i <= Block THEN iv[i] ELSE c[i - Block]
             rec(c) == c = [i \in DOMAIN msg |-> (msg[i] + key + prev(c, i)) % 256]
             S == {n \in 0..N : \E c \in [1..N -> Byte] : IsChain(c, key, iv, msg, n)}
  <1>1. N \in Nat /\ msg \in [1..N -> Byte] /\ DOMAIN msg = 1..N
    BY LenProperties
  <1>2. Block \in 1..255 /\ Byte \subseteq Nat
    BY ExchangeAssumption DEF Byte
  <1> HIDE DEF N
  <1>3. ASSUME NEW c, NEW i \in 1..N, \A h \in 1..i - 1 : c[h] \in Byte
        PROVE  /\ prev(c, i) \in Byte
               /\ (msg[i] + key + prev(c, i)) % 256 \in Byte
    <2>1. prev(c, i) \in Byte
      <3>1. CASE i <= Block
        <4>1. i \in 1..Block
          BY <1>1, <1>2, <3>1
        <4> QED
          BY <3>1, <4>1
      <3>2. CASE ~(i <= Block)
        <4>1. i - Block \in 1..i - 1
          BY <1>1, <1>2, <3>2
        <4> QED
          BY <1>3, <3>2, <4>1
      <3> QED
        BY <3>1, <3>2
    <2> HIDE DEF prev
    <2>2. msg[i] \in Nat /\ key \in Nat /\ prev(c, i) \in Nat
      BY <1>1, <1>2, <2>1
    <2>3. msg[i] + key + prev(c, i) \in Nat
      BY <2>2
    <2> QED
      BY <2>1, <2>3, Remainder256 DEF Byte
  <1>4. 0 \in S
    <2>1. 0 \in 0..N /\ 1..0 = {}
      BY <1>1
    <2>2. [i \in 1..N |-> 0] \in [1..N -> Byte]
      BY DEF Byte
    <2> QED
      BY <2>1, <2>2 DEF IsChain
  <1>5. ASSUME NEW n \in 0..N, n \in S, n < N PROVE n + 1 \in S
    <2>1. PICK c \in [1..N -> Byte] : IsChain(c, key, iv, msg, n)
      BY <1>5
    <2> DEFINE b == (msg[n + 1] + key + prev(c, n + 1)) % 256
               d == [c EXCEPT ![n + 1] = b]
    <2>2. n + 1 \in 1..N /\ n + 1 \in 0..N /\ \A h \in 1..(n + 1) - 1 : h \in 1..N
      BY <1>1, <1>5
    <2>3. b \in Byte
      BY <1>3, <2>2
    <2>4. d \in [1..N -> Byte] /\ d[n + 1] = b /\ \A h \in 1..n : d[h] = c[h]
      <3> HIDE DEF b
      <3> QED
        BY <1>1, <1>5, <2>2, <2>3
    <2> HIDE DEF d
    <2>5. ASSUME NEW i \in 1..n + 1 PROVE prev(d, i) = prev(c, i)
      <3>1. CASE i <= Block
        BY <3>1
      <3>2. CASE ~(i <= Block)
        <4>1. i - Block \in 1..n
          BY <1>1, <1>2, <1>5, <3>2
        <4> QED
          BY <2>4, <3>2, <4>1
      <3> QED
        BY <3>1, <3>2
    <2>6. ASSUME NEW i \in 1..n + 1 PROVE d[i] = (msg[i] + key + prev(d, i)) % 256
      <3>1. CASE i = n + 1
        BY <2>4, <2>5, <3>1
      <3>2. CASE i \in 1..n
        <4>1. c[i] = (msg[i] + key + prev(c, i)) % 256
          BY <2>1, <3>2 DEF IsChain
        <4> QED
          BY <2>4, <2>5, <3>2, <4>1
      <3> QED
        BY <1>1, <1>5, <3>1, <3>2
    <2> QED
      BY <2>2, <2>4, <2>6 DEF IsChain
  <1>6. PICK c \in [1..N -> Byte] : IsChain(c, key, iv, msg, N)
    <2> HIDE DEF S
    <2>1. 0..N \subseteq S
      BY <1>1, <1>4, <1>5, BoundedInduction
    <2>2. N \in S
      BY <1>1, <2>1
    <2> QED
      BY <2>2 DEF S
  <1>7. rec(c)
    <2>1. \A i \in 1..N : c[i] = (msg[i] + key + prev(c, i)) % 256
      BY <1>6 DEF IsChain
    <2> HIDE DEF prev
    <2> QED
      BY <1>1, <1>6, <2>1
  <1> DEFINE f == CHOOSE u : rec(u)
  <1>8. rec(f)
    BY <1>7
  <1>9. Cbc(key, iv, msg) = [i \in DOMAIN msg |-> f[i]]
    BY DEF Cbc
  <1> HIDE DEF f
  <1>10. \A i \in 1..N : f[i] = (msg[i] + key + prev(f, i)) % 256
    <2> HIDE DEF prev
    <2> QED
      BY <1>1, <1>8
  <1>11. Cbc(key, iv, msg) = f /\ DOMAIN f = 1..N
    BY <1>1, <1>8, <1>9
  <1> DEFINE T == {n \in 0..N : \A i \in 1..n : f[i] \in Byte}
  <1>12. N \in T
    <2>1. 0 \in T
      BY <1>1
    <2>2. ASSUME NEW n \in 0..N, n \in T, n < N PROVE n + 1 \in T
      <3>1. n + 1 \in 1..N /\ n + 1 \in 0..N /\ (n + 1) - 1 = n
        BY <1>1, <2>2
      <3>2. \A h \in 1..(n + 1) - 1 : f[h] \in Byte
        BY <2>2, <3>1
      <3>3. (msg[n + 1] + key + prev(f, n + 1)) % 256 \in Byte
        BY <1>3, <3>1, <3>2
      <3>4. f[n + 1] \in Byte
        <4> HIDE DEF prev
        <4> QED
          BY <1>10, <3>1, <3>3
      <3>5. \A i \in 1..n + 1 : i \in 1..n \/ i = n + 1
        BY <2>2
      <3> QED
        BY <2>2, <3>1, <3>4, <3>5
    <2> HIDE DEF T
    <2>3. 0..N \subseteq T
      BY <1>1, <2>1, <2>2, BoundedInduction
    <2> QED
      BY <1>1, <2>3
  <1>13. f \in [1..N -> Byte]
    <2>1. \A i \in 1..N : f[i] \in Byte
      BY <1>12
    <2> HIDE DEF prev
    <2> QED
      BY <1>1, <1>8, <2>1
  <1> QED
    BY <1>10, <1>11, <1>13 DEF IsChain, N

\* The inverse of the chain, with the same key and IV, gives the message.
LEMMA CbcIsInverted ==
  ASSUME NEW key \in Byte, NEW iv \in [1..Block -> Byte], NEW msg \in Seq(Byte)
  PROVE  CbcInverse(key, iv, Cbc(key, iv, msg)) = msg
  <1> DEFINE N == Len(msg)
             c == Cbc(key, iv, msg)
             prev(i) == IF i <= Block THEN iv[i] ELSE c[i - Block]
  <1>1. N \in Nat /\ msg \in [1..N -> Byte]
    BY LenProperties
  <1>2. c \in [1..N -> Byte] /\ \A i \in 1..N : c[i] = (msg[i] + key + prev(i)) % 256
    <2>1. c \in [1..N -> Byte] /\ IsChain(c, key, iv, msg, N)
      BY CbcChain
    <2> HIDE DEF c, N
    <2> QED
      BY <2>1 DEF IsChain
  <1>3. Block \in 1..255
    BY ExchangeAssumption
  <1> HIDE DEF N, c
  <1>4. CbcInverse(key, iv, c) = [i \in 1..N |-> (c[i] + 512 - key - prev(i)) % 256]
    BY <1>2 DEF CbcInverse
  <1>5. ASSUME NEW i \in 1..N PROVE (c[i] + 512 - key - prev(i)) % 256 = msg[i]
    <2>1. prev(i) \in Byte
      <3>1. CASE i <= Block
        <4>1. i \in 1..Block
          BY <1>1, <1>3, <3>1
        <4> QED
          BY <3>1, <4>1
      <3>2. CASE ~(i <= Block)
        <4>1. i - Block \in 1..N
          BY <1>1, <1>3, <3>2
        <4> QED
          BY <1>2, <3>2, <4>1
      <3> QED
        BY <3>1, <3>2
    <2>2. PICK m \in 0..255 : m = msg[i]
      BY <1>1 DEF Byte
    <2>3. PICK k \in 0..255 : k = key
      BY DEF Byte
    <2>4. PICK p \in 0..255 : p = prev(i)
      BY <2>1 DEF Byte
    <2>5. c[i] = (m + k + p) % 256
      <3>1. c[i] = (msg[i] + key + prev(i)) % 256
        BY <1>2
      <3> HIDE DEF prev
      <3> QED
        BY <2>2, <2>3, <2>4, <3>1
    <2>6. (((m + k + p) % 256) + 512 - k - p) % 256 = m
      OBVIOUS
    <2> HIDE DEF prev
    <2> QED
      BY <2>2, <2>3, <2>4, <2>5, <2>6
  <1> HIDE DEF prev
  <1> QED
    BY <1>1, <1>4, <1>5 DEF c

\* The padding fills the last block, and there is always one.
LEMMA PadFits ==
  ASSUME NEW n \in Nat
  PROVE  LET pad == Block - (n % Block)
         IN  pad \in 1..Block /\ pad \in Byte /\ (n + pad) % Block = 0 /\ Padded(n) = n + pad
  <1>1. Block \in 1..255
    BY ExchangeAssumption
  <1>2. n % Block \in 0..Block - 1
    BY <1>1
  <1>3. (n + (Block - (n % Block))) % Block = 0
    BY <1>1
  <1> QED
    BY <1>1, <1>2, <1>3 DEF Byte, Padded

Padding(n) == [i \in 1..Block - (n % Block) |-> Block - (n % Block)]

\* The padding fills the last block, or a block of its own.
LEMMA PaddedMessage ==
  ASSUME NEW msg \in Seq(Byte)
  PROVE  LET pad == Block - (Len(msg) % Block)
             stream == msg \o Padding(Len(msg))
             n == Len(stream)
         IN  /\ stream \in Seq(Byte)
             /\ n = Len(msg) + pad /\ n = Padded(Len(msg)) /\ n > 0 /\ n % Block = 0
             /\ stream[n] = pad /\ pad \in 1..Block
             /\ \A i \in n + 1 - pad..n : stream[i] = pad
             /\ SubSeq(stream, 1, Len(msg)) = msg
             /\ n - pad = Len(msg)
  <1> DEFINE m == Len(msg)
             pad == Block - (m % Block)
             p == Padding(m)
             stream == msg \o p
  <1>1. m \in Nat
    BY LenProperties
  <1>2. pad \in 1..Block /\ pad \in Byte /\ (m + pad) % Block = 0 /\ Padded(m) = m + pad
    BY <1>1, PadFits
  <1>3. p = [i \in 1..pad |-> pad] /\ Block \in Nat
    BY ExchangeAssumption DEF Padding
  <1> HIDE DEF m, pad, p
  <1>4. p \in Seq(Byte) /\ Len(p) = pad /\ \A i \in 1..pad : p[i] = pad
    BY <1>2, <1>3
  <1>5. /\ stream \in Seq(Byte) /\ Len(stream) = m + pad
        /\ \A i \in 1..m + pad : stream[i] = IF i <= m THEN msg[i] ELSE p[i - m]
    BY <1>4, ConcatProperties DEF m
  <1>6. SubSeq(stream, 1, m) = msg
    <2>1. SubSeq(stream, 1, m) = SubSeq(msg, 1, m)
      BY <1>1, <1>4, SubSeqOfConcat1 DEF m
    <2> QED
      BY <2>1, SubSeqFull DEF m
  <1> HIDE DEF stream
  <1>7. ASSUME NEW i \in (m + pad) + 1 - pad..m + pad PROVE stream[i] = pad
    <2>1. i \in 1..m + pad /\ ~(i <= m) /\ i - m \in 1..pad
      BY <1>1, <1>2, <1>3
    <2> QED
      BY <1>4, <1>5, <2>1
  <1>8. stream[m + pad] = pad
    <2>1. m + pad \in (m + pad) + 1 - pad..m + pad
      BY <1>1, <1>2, <1>3
    <2> QED
      BY <1>7, <2>1
  <1>9. m + pad > 0 /\ (m + pad) - pad = m
    BY <1>1, <1>2, <1>3
  <1> QED
    BY <1>2, <1>5, <1>6, <1>7, <1>8, <1>9 DEF stream, p, pad, m

\* What was encrypted with a key is read with it, and its padding is found.
LEMMA OpenedText ==
  ASSUME NEW key \in Byte, NEW iv \in [1..Block -> Byte], NEW msg \in Seq(Byte)
  PROVE  LET c == aesEncrypt(key, iv, msg)
             d == aesDecrypt(key, iv, c)
         IN  /\ c \in Seq(Byte) /\ Len(c) = Padded(Len(msg)) /\ Len(c) > 0
             /\ d.ok
             /\ SubSeq(d.stream, 1, Len(d.stream) - Last(d.stream)) = msg
  <1> DEFINE stream == msg \o Padding(Len(msg))
             n == Len(stream)
             pad == Block - (Len(msg) % Block)
             c == aesEncrypt(key, iv, msg)
             d == aesDecrypt(key, iv, c)
  <1>1. /\ stream \in Seq(Byte)
        /\ n = Len(msg) + pad /\ n = Padded(Len(msg)) /\ n > 0 /\ n % Block = 0
        /\ stream[n] = pad /\ pad \in 1..Block
        /\ \A i \in n + 1 - pad..n : stream[i] = pad
        /\ SubSeq(stream, 1, Len(msg)) = msg
        /\ n - pad = Len(msg)
    BY PaddedMessage
  <1>2. c = Cbc(key, iv, stream)
    BY DEF aesEncrypt, Padding
  <1> HIDE DEF stream, c, pad
  <1>3. c \in [1..n -> Byte] /\ CbcInverse(key, iv, c) = stream
    <2>1. stream \in Seq(Byte)
      BY <1>1
    <2> QED
      BY <1>2, <2>1, CbcChain, CbcIsInverted
  <1>4. c \in Seq(Byte) /\ Len(c) = n /\ n \in Nat
    <2>1. n \in Nat
      BY <1>1, LenProperties
    <2> HIDE DEF n
    <2> QED
      BY <1>3, <2>1
  <1> HIDE DEF n
  <1>5. d.stream = stream /\ d.ok
    <2>1. d = [ok |-> /\ n > 0 /\ n % Block = 0 /\ stream[n] \in 1..Block
                      /\ \A i \in n + 1 - stream[n]..n : stream[i] = stream[n],
               stream |-> stream]
      BY <1>3 DEF aesDecrypt, n
    <2> HIDE DEF d
    <2> QED
      BY <1>1, <2>1
  <1>6. Last(d.stream) = pad /\ Len(d.stream) = n
    BY <1>1, <1>5 DEF Last, n
  <1> HIDE DEF d, pad
  <1>7. SubSeq(d.stream, 1, Len(d.stream) - Last(d.stream)) = msg
    BY <1>1, <1>5, <1>6
  <1> QED
    BY <1>1, <1>4, <1>5, <1>7 DEF d, c

\* The IV and the ciphertext are found again behind one another.
LEMMA OpensSealed ==
  ASSUME NEW key \in Byte, NEW iv \in [1..Block -> Byte], NEW msg \in Seq(Byte)
  PROVE  LET bytes == iv \o aesEncrypt(key, iv, msg)
         IN  /\ bytes \in Seq(Byte)
             /\ SubSeq(bytes, 1, Block) = iv
             /\ SubSeq(bytes, Block + 1, Len(bytes)) = aesEncrypt(key, iv, msg)
  <1> DEFINE c == aesEncrypt(key, iv, msg)
             n == Len(c)
             bytes == iv \o c
  <1>1. c \in Seq(Byte) /\ n > 0
    BY OpenedText
  <1> HIDE DEF c
  <1>2. Len(c) = n /\ n \in Nat
    BY <1>1, LenProperties
  <1>3. iv \in Seq(Byte) /\ Len(iv) = Block /\ Block \in 1..255
    BY ExchangeAssumption
  <1> HIDE DEF n
  <1>4. bytes \in Seq(Byte) /\ Len(bytes) = Block + n
    BY <1>1, <1>2, <1>3, ConcatProperties
  <1>5. SubSeq(bytes, 1, Block) = iv
    <2>1. SubSeq(bytes, 1, Block) = SubSeq(iv, 1, Block)
      BY <1>1, <1>2, <1>3, SubSeqOfConcat1
    <2> QED
      BY <1>3, <2>1, SubSeqFull
  <1>6. SubSeq(bytes, Block + 1, Len(bytes)) = c
    <2>1. /\ Block + 1 \in Len(iv) + 1..Len(iv) + Len(c)
          /\ Block + n \in Len(iv) + 1..Len(iv) + Len(c)
          /\ (Block + 1) - Len(iv) = 1 /\ (Block + n) - Len(iv) = n
      <3>1. n > 0
        BY <1>1
      <3> QED
        BY <1>2, <1>3, <3>1
    <2>2. SubSeq(bytes, Block + 1, Block + n) = SubSeq(c, (Block + 1) - Len(iv), (Block + n) - Len(iv))
      BY <1>1, <1>2, <1>3, <2>1, SubSeqOfConcat2
    <2>3. SubSeq(c, 1, n) = c
      BY <1>1, <1>2, SubSeqFull
    <2> QED
      BY <1>4, <2>1, <2>2, <2>3
  <1> QED
    BY <1>4, <1>5, <1>6 DEF c
-----------------------------------------------------------------------------
(***************************************************************************)
(* The reader.                                                             *)
(***************************************************************************)
After(r, tok) == [J!OnToken(r, tok) EXCEPT !.last = tok]

IsRun(r, text, n) == /\ r[0] = J!Start
                     /\ \A i \in 1..n : r[i] = After(r[i - 1], text[i])

\* The reader goes from token to token.
LEMMA RunByTokens ==
  ASSUME NEW text \in Seq(Nat)
  PROVE  IsRun(J!Run(text), text, Len(text))
  <1> DEFINE N == Len(text)
             rec(r) == r = [i \in 0..N |-> IF i = 0 THEN J!Start ELSE After(r[i - 1], text[i])]
             good(r, n) == r = [i \in 0..N |-> r[i]] /\ IsRun(r, text, n)
             S == {n \in 0..N : \E r : good(r, n)}
  <1>1. N \in Nat
    BY LenProperties
  <1> HIDE DEF N
  <1>2. 0 \in S
    <2> DEFINE z == [i \in 0..N |-> J!Start]
    <2>1. z = [i \in 0..N |-> z[i]] /\ z[0] = J!Start /\ 0 \in 0..N /\ 1..0 = {}
      BY <1>1
    <2> HIDE DEF z
    <2> QED
      BY <2>1 DEF IsRun
  <1>3. ASSUME NEW n \in 0..N, n \in S, n < N PROVE n + 1 \in S
    <2>1. PICK r : good(r, n)
      BY <1>3
    <2> DEFINE b == After(r[n], text[n + 1])
               d == [i \in 0..N |-> IF i = n + 1 THEN b ELSE r[i]]
    <2>2. n + 1 \in 0..N /\ (n + 1) - 1 = n /\ n \in 0..N
      BY <1>1, <1>3
    <2>3. /\ d = [i \in 0..N |-> d[i]] /\ d[n + 1] = b
          /\ \A i \in 0..n : d[i] = r[i]
      <3> HIDE DEF b
      <3> QED
        BY <1>1, <1>3, <2>2
    <2> HIDE DEF d
    <2>4. d[0] = J!Start
      <3>1. r[0] = J!Start
        BY <2>1 DEF IsRun
      <3>2. 0 \in 0..n
        BY <1>1
      <3> QED
        BY <2>3, <3>1, <3>2
    <2>5. ASSUME NEW i \in 1..n + 1 PROVE d[i] = After(d[i - 1], text[i])
      <3>1. CASE i = n + 1
        <4>1. n \in 0..n /\ i - 1 = n
          BY <1>1, <2>2, <3>1
        <4>2. d[n] = r[n]
          BY <2>3, <4>1
        <4> QED
          BY <2>3, <3>1, <4>1, <4>2
      <3>2. CASE i \in 1..n
        <4>1. i \in 0..n /\ i - 1 \in 0..n
          BY <1>1, <3>2
        <4>2. r[i] = After(r[i - 1], text[i])
          BY <2>1, <3>2 DEF IsRun
        <4> QED
          BY <2>3, <4>1, <4>2
      <3> QED
        BY <1>1, <1>3, <3>1, <3>2
    <2> QED
      BY <2>2, <2>3, <2>4, <2>5 DEF IsRun
  <1>4. PICK r : good(r, N)
    <2> HIDE DEF S
    <2>1. 0..N \subseteq S
      BY <1>1, <1>2, <1>3, BoundedInduction
    <2>2. N \in S
      BY <1>1, <2>1
    <2> QED
      BY <2>2 DEF S
  <1>5. rec(r)
    <2>1. \A i \in 0..N : r[i] = IF i = 0 THEN J!Start ELSE After(r[i - 1], text[i])
      <3> SUFFICES ASSUME NEW i \in 0..N
                   PROVE  r[i] = IF i = 0 THEN J!Start ELSE After(r[i - 1], text[i])
        OBVIOUS
      <3>1. CASE i = 0
        BY <1>4, <3>1 DEF IsRun
      <3>2. CASE i \in 1..N
        BY <1>4, <3>2 DEF IsRun
      <3> QED
        BY <1>1, <3>1, <3>2
    <2>2. r = [i \in 0..N |-> r[i]]
      BY <1>4
    <2> QED
      BY <2>1, <2>2
  <1> DEFINE f == CHOOSE u : rec(u)
  <1>6. rec(f)
    BY <1>5
  <1>7. J!Run(text) = f
    BY DEF J!Run, After, N
  <1> HIDE DEF f
  <1>8. \A i \in 0..N : f[i] = IF i = 0 THEN J!Start ELSE After(f[i - 1], text[i])
    BY <1>6
  <1> QED
    BY <1>1, <1>7, <1>8 DEF IsRun, N

\* The reader is at the same place after a text that was cut there.
LEMMA PrefixRun ==
  ASSUME NEW text \in Seq(Nat), NEW n \in 0..Len(text)
  PROVE  /\ SubSeq(text, 1, n) \in Seq(Nat)
         /\ Len(SubSeq(text, 1, n)) = n
         /\ J!Run(SubSeq(text, 1, n))[n] = J!Run(text)[n]
  <1> DEFINE t == SubSeq(text, 1, n)
             r == J!Run(text)
             p == J!Run(t)
             S == {i \in 0..n : p[i] = r[i]}
  <1>1. Len(text) \in Nat /\ n \in Nat
    BY LenProperties
  <1>2. t \in Seq(Nat) /\ Len(t) = n /\ \A i \in 1..n : t[i] = text[i]
    BY <1>1, SubSeqProperties
  <1>3. IsRun(r, text, Len(text)) /\ IsRun(p, t, n)
    BY <1>2, RunByTokens
  <1> HIDE DEF t, r, p
  <1>4. /\ r[0] = J!Start /\ p[0] = J!Start
        /\ \A i \in 1..n : r[i] = After(r[i - 1], text[i]) /\ p[i] = After(p[i - 1], text[i])
    <2>1. \A i \in 1..n : i \in 1..Len(text)
      BY <1>1
    <2> QED
      BY <1>2, <1>3, <2>1 DEF IsRun
  <1>5. 0 \in S
    BY <1>1, <1>4
  <1>6. ASSUME NEW i \in 0..n, i \in S, i < n PROVE i + 1 \in S
    <2>1. i + 1 \in 1..n /\ i + 1 \in 0..n /\ (i + 1) - 1 = i
      BY <1>1, <1>6
    <2>2. r[i + 1] = After(r[i], text[i + 1]) /\ p[i + 1] = After(p[i], text[i + 1])
      BY <1>4, <2>1
    <2>3. p[i] = r[i]
      BY <1>6
    <2> QED
      BY <2>1, <2>2, <2>3
  <1> HIDE DEF S
  <1>7. n \in S
    <2>1. 0..n \subseteq S
      BY <1>1, <1>5, <1>6, BoundedInduction
    <2> QED
      BY <1>1, <2>1
  <1> QED
    BY <1>2, <1>7 DEF S, t, r, p

State(stack, root, expects, last) ==
    [stack |-> stack, root |-> root, expectName |-> expects = "name",
     expectColon |-> expects = "colon", last |-> last, state |-> "run"]

IsSeq(s) == Len(s) \in Nat /\ s = [i \in 1..Len(s) |-> s[i]]

\* A stack with x on top.
LEMMA StackTop ==
  ASSUME NEW b, IsSeq(b), NEW x
  PROVE  LET s == Append(b, x)
         IN  /\ IsSeq(s) /\ s # <<>> /\ Len(s) = Len(b) + 1 /\ s[Len(s)] = x
             /\ Last(s) = x /\ Front(s) = b
  <1> DEFINE T == {b[i] : i \in 1..Len(b)} \cup {x}
             s == Append(b, x)
  <1>1. b \in Seq(T) /\ x \in T /\ Len(b) \in Nat
    <2>1. Len(b) \in Nat /\ b = [i \in 1..Len(b) |-> b[i]]
      BY DEF IsSeq
    <2>2. \A i \in 1..Len(b) : b[i] \in T
      OBVIOUS
    <2> HIDE DEF T
    <2>3. b \in [1..Len(b) -> T]
      BY <2>1, <2>2
    <2>4. x \in T
      BY DEF T
    <2> QED
      BY <2>1, <2>3, <2>4
  <1> HIDE DEF T
  <1>2. s \in Seq(T) /\ s # <<>> /\ Len(s) = Len(b) + 1 /\ s[Len(b) + 1] = x
    BY <1>1, AppendProperties
  <1>3. Last(s) = x
    BY <1>2 DEF Last
  <1>4. Front(s) = b
    BY <1>1, HeadTailAppend DEF Front
  <1>5. IsSeq(s)
    <2> HIDE DEF s
    <2> QED
      BY <1>2, LenProperties DEF IsSeq
  <1> QED
    BY <1>2, <1>3, <1>4, <1>5

\* Replacing what is on top.
LEMMA ReplacedTop ==
  ASSUME NEW b, IsSeq(b), NEW x, NEW y
  PROVE  [Append(b, x) EXCEPT ![Len(Append(b, x))] = y] = Append(b, y)
  <1> DEFINE T == {b[i] : i \in 1..Len(b)} \cup {x, y}
             s == Append(b, x)
  <1>1. b \in Seq(T) /\ x \in T /\ y \in T /\ Len(b) \in Nat
    <2>1. Len(b) \in Nat /\ b = [i \in 1..Len(b) |-> b[i]]
      BY DEF IsSeq
    <2>2. \A i \in 1..Len(b) : b[i] \in T
      OBVIOUS
    <2> HIDE DEF T
    <2>3. b \in [1..Len(b) -> T]
      BY <2>1, <2>2
    <2>4. x \in T /\ y \in T
      BY DEF T
    <2> QED
      BY <2>1, <2>3, <2>4
  <1> HIDE DEF T
  <1> DEFINE n == Len(b)
             a == Append(b, y)
             e == [s EXCEPT ![n + 1] = y]
  <1>2. /\ s \in [1..n + 1 -> T] /\ a \in [1..n + 1 -> T]
        /\ \A i \in 1..n : s[i] = b[i] /\ a[i] = b[i]
        /\ Len(s) = n + 1 /\ a[n + 1] = y
    <2>1. /\ s \in Seq(T) /\ a \in Seq(T) /\ Len(s) = n + 1 /\ Len(a) = n + 1
          /\ \A i \in 1..n : s[i] = b[i] /\ a[i] = b[i]
          /\ a[n + 1] = y
      BY <1>1, AppendProperties
    <2> HIDE DEF s, a, n
    <2> QED
      BY <2>1, LenProperties
  <1> HIDE DEF s, a, n
  <1>3. e \in [1..n + 1 -> T] /\ \A i \in 1..n + 1 : e[i] = IF i = n + 1 THEN y ELSE s[i]
    BY <1>1, <1>2
  <1> HIDE DEF e
  <1>4. ASSUME NEW i \in 1..n + 1 PROVE e[i] = a[i]
    <2>1. CASE i = n + 1
      BY <1>2, <1>3, <2>1
    <2>2. CASE i \in 1..n
      <3>1. i # n + 1
        BY <1>1, <2>2 DEF n
      <3> QED
        BY <1>2, <1>3, <2>2, <3>1
    <2> QED
      BY <1>1, <2>1, <2>2 DEF n
  <1>5. e = a
    BY <1>2, <1>3, <1>4
  <1> QED
    BY <1>2, <1>5 DEF e, a, s

AddKey(x, k) == [x EXCEPT !.keys = Append(@, k)]

\* Which operation each token is for.
LEMMA Tokens ==
  ASSUME NEW r, r.state = "run"
  PROVE /\ J!OnToken(r, J!ObjOpen) = J!OnOpen(r, "object")
        /\ J!OnToken(r, J!ArrOpen) = J!OnOpen(r, "array")
        /\ J!OnToken(r, J!ObjClose) = J!OnClose(r, "object")
        /\ J!OnToken(r, J!ArrClose) = J!OnClose(r, "array")
        /\ J!OnToken(r, J!Colon) = J!OnColon(r)
        /\ J!OnToken(r, J!Comma) = J!OnComma(r)
        /\ \A t \in J!Keywords : J!OnToken(r, t) = J!OnValue(r, J!Keyword(t))
        /\ \A t \in J!Numbers : J!OnToken(r, t) = J!OnValue(r, J!Number(t))
        /\ \A t \in J!Strings : J!OnToken(r, t) = J!OnString(r, t)
  BY DEF J!OnToken, J!ObjOpen, J!ArrOpen, J!ObjClose, J!ArrClose, J!Colon, J!Comma, J!Keywords, J!Numbers, J!Strings

\* The fields of a state.
LEMMA StateFields ==
  ASSUME NEW s, NEW ro, NEW m, NEW l
  PROVE  LET r == State(s, ro, m, l)
         IN  /\ r.stack = s /\ r.root = ro /\ r.last = l /\ r.state = "run"
             /\ r.expectName = (m = "name")
             /\ r.expectColon = (m = "colon")
  BY DEF State

\* The next token is the last one.
LEMMA LastOf ==
  ASSUME NEW s, NEW ro, NEW m, NEW l, NEW t
  PROVE  [State(s, ro, m, l) EXCEPT !.last = t] = State(s, ro, m, t)
  BY DEF State

\* What the operations of the reader make of the states that it is in.
LEMMA OnOpenState ==
  ASSUME NEW s, NEW ro, NEW m, m # "colon", NEW l, NEW typ
  PROVE  J!OnOpen(State(s, ro, m, l), typ)
           = State(Append(s, J!Value(typ, 0)), IF s = <<>> THEN J!Null ELSE ro,
                   IF typ = "object" THEN "name" ELSE m, l)
  <1> DEFINE r == State(s, ro, m, l)
             o == J!OnOpen(r, typ)
             s2 == Append(s, J!Value(typ, 0))
             ro2 == IF s = <<>> THEN J!Null ELSE ro
             m2 == IF typ = "object" THEN "name" ELSE m
  <1>2. r.stack = s /\ r.expectName = (m = "name") /\ r.root = ro
    BY DEF State
  <1>3. o = [r EXCEPT !.stack = s2, !.root = ro2, !.expectName = (m2 = "name")]
    <2>1. (m2 = "name") = (m = "name" \/ typ = "object")
      OBVIOUS
    <2> QED
      BY <1>2, <2>1 DEF J!OnOpen
  <1>4. (m = "colon") = (m2 = "colon")
    OBVIOUS
  <1> HIDE DEF s2, ro2, m2
  <1>5. o = State(s2, ro2, m2, l)
    <2> HIDE DEF o
    <2> QED
      BY <1>3, <1>4 DEF r, State
  <1> QED
    BY <1>5 DEF s2, ro2, m2

\* A name waits for its colon.
LEMMA OnNameState ==
  ASSUME NEW b, IsSeq(b), NEW x, NEW ro, NEW l, NEW t
  PROVE  J!OnString(State(Append(b, x), ro, "name", l), t)
           = State(Append(b, AddKey(x, t)), ro, "colon", l)
  <1> DEFINE s == Append(b, x)
             r == State(s, ro, "name", l)
             o == J!OnString(r, t)
             s2 == Append(b, AddKey(x, t))
  <1>2. r.stack = s /\ r.expectName = TRUE
    BY DEF State
  <1>3. s # <<>> /\ s[Len(s)] = x
    BY StackTop
  <1>4. [s EXCEPT ![Len(s)] = AddKey(x, t)] = s2
    BY ReplacedTop
  <1> HIDE DEF s
  <1>5. [s EXCEPT ![Len(s)].keys = Append(@, t)] = s2
    BY <1>3, <1>4 DEF AddKey
  <1>6. o = [r EXCEPT !.stack = s2, !.expectName = FALSE, !.expectColon = TRUE]
    BY <1>2, <1>3, <1>5 DEF J!OnString
  <1> HIDE DEF s2
  <1>7. o = State(s2, ro, "colon", l)
    <2> HIDE DEF o
    <2> QED
      BY <1>6 DEF r, State
  <1> QED
    BY <1>7 DEF s, s2

\* A colon waits for the value.
LEMMA OnColonState ==
  ASSUME NEW b, IsSeq(b), NEW x, x.typ = "object", NEW ro, NEW l
  PROVE  J!OnColon(State(Append(b, x), ro, "colon", l)) = State(Append(b, x), ro, "value", l)
  <1> DEFINE s == Append(b, x)
             r == State(s, ro, "colon", l)
             o == J!OnColon(r)
  <1>1. r.stack = s /\ r.expectName = FALSE /\ r.expectColon = TRUE
    BY DEF State
  <1>2. s # <<>> /\ J!Top(r).typ = "object"
    BY <1>1, StackTop DEF J!Top, J!Last, Last
  <1> HIDE DEF s
  <1>3. o = [r EXCEPT !.expectColon = FALSE]
    BY <1>1, <1>2 DEF J!OnColon
  <1>4. o = State(s, ro, "value", l)
    <2> HIDE DEF o
    <2> QED
      BY <1>3 DEF r, State
  <1> QED
    BY <1>4 DEF s

\* A comma waits for the next name or value.
LEMMA OnCommaState ==
  ASSUME NEW b, IsSeq(b), NEW x, NEW ro, NEW l, l # J!Comma, l # J!ArrOpen
  PROVE  J!OnComma(State(Append(b, x), ro, "value", l))
           = State(Append(b, x), ro, IF x.typ = "object" THEN "name" ELSE "value", l)
  <1> DEFINE s == Append(b, x)
             r == State(s, ro, "value", l)
             o == J!OnComma(r)
             m2 == IF x.typ = "object" THEN "name" ELSE "value"
  <1>1. r.stack = s /\ r.expectName = FALSE /\ r.expectColon = FALSE /\ r.last = l
    BY DEF State
  <1>2. s # <<>> /\ J!Top(r) = x
    BY <1>1, StackTop DEF J!Top, J!Last, Last
  <1> HIDE DEF s
  <1>3. (m2 = "name") = (x.typ = "object")
    OBVIOUS
  <1>4. o = [r EXCEPT !.expectName = (m2 = "name")]
    BY <1>1, <1>2, <1>3 DEF J!OnComma
  <1>5. (m2 = "colon") = FALSE
    OBVIOUS
  <1> HIDE DEF m2
  <1>6. o = State(s, ro, m2, l)
    <2> HIDE DEF o
    <2> QED
      BY <1>4, <1>5 DEF r, State
  <1> QED
    BY <1>6 DEF s, m2

\* A value goes into the object or array on top.
LEMMA OnValueState ==
  ASSUME NEW b, IsSeq(b), NEW x, NEW ro, NEW l, NEW v
  PROVE  J!OnValue(State(Append(b, x), ro, "value", l), v)
           = State(Append(b, J!AddValue(x, v)), ro, "value", l)
  <1> DEFINE s == Append(b, x)
             r == State(s, ro, "value", l)
             o == J!OnValue(r, v)
             s2 == Append(b, J!AddValue(x, v))
  <1>1. r.stack = s /\ r.expectName = FALSE /\ r.expectColon = FALSE
    BY DEF State
  <1>2. s # <<>> /\ s[Len(s)] = x
    BY StackTop
  <1>3. [s EXCEPT ![Len(s)] = J!AddValue(x, v)] = s2
    BY ReplacedTop
  <1> HIDE DEF s
  <1>4. [s EXCEPT ![Len(s)] = J!AddValue(@, v)] = s2
    BY <1>2, <1>3
  <1>5. o = [r EXCEPT !.stack = s2]
    BY <1>1, <1>2, <1>4 DEF J!OnValue
  <1> HIDE DEF s2
  <1>6. o = State(s2, ro, "value", l)
    <2> HIDE DEF o
    <2> QED
      BY <1>5 DEF r, State
  <1> QED
    BY <1>6 DEF s, s2

\* A string that is no name as well.
LEMMA OnTextState ==
  ASSUME NEW b, IsSeq(b), NEW x, NEW ro, NEW l, NEW t
  PROVE  J!OnString(State(Append(b, x), ro, "value", l), t)
           = State(Append(b, J!AddValue(x, J!String(t))), ro, "value", l)
  <1> DEFINE s == Append(b, x)
             r == State(s, ro, "value", l)
             o == J!OnString(r, t)
             v == J!String(t)
             s2 == Append(b, J!AddValue(x, v))
  <1>1. r.stack = s /\ r.expectName = FALSE
    BY DEF State
  <1>2. s # <<>> /\ s[Len(s)] = x
    BY StackTop
  <1>3. [s EXCEPT ![Len(s)] = J!AddValue(x, v)] = s2
    BY ReplacedTop
  <1> HIDE DEF s
  <1>4. [s EXCEPT ![Len(s)] = J!AddValue(@, v)] = s2
    BY <1>2, <1>3
  <1>5. o = [r EXCEPT !.stack = s2]
    BY <1>1, <1>2, <1>4 DEF J!OnString
  <1> HIDE DEF s2
  <1>6. o = State(s2, ro, "value", l)
    <2> HIDE DEF o
    <2> QED
      BY <1>5 DEF r, State
  <1> QED
    BY <1>6 DEF s, s2, v

\* The last value that is closed is the root.
LEMMA OnLastCloseState ==
  ASSUME NEW x, NEW ro, NEW m, m # "colon", NEW l, l # J!Comma
  PROVE  J!OnClose(State(Append(<<>>, x), ro, m, l), x.typ) = State(<<>>, x, "value", l)
  <1> DEFINE s == Append(<<>>, x)
             r == State(s, ro, m, l)
             o == J!OnClose(r, x.typ)
             d == J!Closed(r)
  <1>1. r.stack = s /\ r.expectColon = FALSE /\ r.last = l
    BY DEF State
  <1>2. s # <<>> /\ J!Top(r) = x /\ Len(s) = 1
    <2>1. IsSeq(<<>>) /\ Len(<<>>) = 0
      BY DEF IsSeq
    <2> QED
      BY <1>1, <2>1, StackTop DEF J!Top, J!Last, Last
  <1> HIDE DEF s
  <1>3. d = [r EXCEPT !.stack = <<>>, !.root = x]
    BY <1>1, <1>2 DEF J!Closed
  <1>4. o = [d EXCEPT !.expectName = FALSE]
    BY <1>1, <1>2 DEF J!OnClose
  <1>5. d = State(<<>>, x, m, l)
    <2> HIDE DEF d
    <2> QED
      BY <1>3 DEF r, State
  <1> HIDE DEF d
  <1>6. o = State(<<>>, x, "value", l)
    <2> HIDE DEF o
    <2> QED
      BY <1>4, <1>5 DEF State
  <1> QED
    BY <1>6 DEF s

\* Another one joins the value around it.
LEMMA OnCloseState ==
  ASSUME NEW b, IsSeq(b), NEW w, NEW x, NEW ro, NEW m, m # "colon", NEW l, l # J!Comma
  PROVE  J!OnClose(State(Append(Append(b, w), x), ro, m, l), x.typ)
           = State(Append(b, J!AddValue(w, x)), ro, "value", l)
  <1> DEFINE s == Append(Append(b, w), x)
             r == State(s, ro, m, l)
             o == J!OnClose(r, x.typ)
             d == J!Closed(r)
             s2 == Append(b, J!AddValue(w, x))
  <1>1. r.stack = s /\ r.expectColon = FALSE /\ r.last = l
    BY DEF State
  <1>2. s # <<>> /\ J!Top(r) = x /\ Len(s) # 1 /\ J!Joined(s) = s2
    <2>1. /\ IsSeq(Append(b, w)) /\ Len(Append(b, w)) = Len(b) + 1
          /\ Last(Append(b, w)) = w /\ Front(Append(b, w)) = b
      BY StackTop
    <2>2. Len(b) \in Nat
      BY DEF IsSeq
    <2> DEFINE bw == Append(b, w)
    <2> HIDE DEF bw
    <2>3. s # <<>> /\ Len(s) = Len(bw) + 1 /\ Last(s) = x /\ Front(s) = bw
      BY <2>1, StackTop DEF bw
    <2>4. J!Joined(s) = s2
      BY <2>1, <2>3 DEF J!Joined, J!Last, J!Front, Last, Front, bw
    <2> HIDE DEF s2
    <2> QED
      BY <1>1, <2>1, <2>2, <2>3, <2>4 DEF J!Top, J!Last, Last, bw
  <1> HIDE DEF s, s2
  <1>3. d = [r EXCEPT !.stack = s2]
    BY <1>1, <1>2 DEF J!Closed
  <1>4. o = [d EXCEPT !.expectName = FALSE]
    BY <1>1, <1>2 DEF J!OnClose
  <1>5. d = State(s2, ro, m, l)
    <2> HIDE DEF d
    <2> QED
      BY <1>3 DEF r, State
  <1> HIDE DEF d
  <1>6. o = State(s2, ro, "value", l)
    <2> HIDE DEF o
    <2> QED
      BY <1>4, <1>5 DEF State
  <1> QED
    BY <1>6 DEF s, s2

\* The reader begins with nothing.
LEMMA StartState == J!Start = State(<<>>, J!Null, "value", 0)
  BY DEF J!Start, State

\* The same, token by token.
LEMMA AfterObjOpen ==
  ASSUME NEW s, NEW ro, NEW m, m # "colon", NEW l
  PROVE  After(State(s, ro, m, l), J!ObjOpen)
           = State(Append(s, J!Value("object", 0)), IF s = <<>> THEN J!Null ELSE ro, "name", J!ObjOpen)
  <1> DEFINE r == State(s, ro, m, l)
             s2 == Append(s, J!Value("object", 0))
             ro2 == IF s = <<>> THEN J!Null ELSE ro
  <1>1. J!OnToken(r, J!ObjOpen) = J!OnOpen(r, "object")
    BY Tokens, StateFields
  <1>2. J!OnOpen(r, "object") = State(s2, ro2, "name", l)
    BY OnOpenState
  <1> HIDE DEF r, s2, ro2
  <1>3. After(r, J!ObjOpen) = State(s2, ro2, "name", J!ObjOpen)
    BY <1>1, <1>2, LastOf DEF After
  <1> QED
    BY <1>3 DEF r, s2, ro2

\* [ opens an array.
LEMMA AfterArrOpen ==
  ASSUME NEW s, NEW ro, NEW m, m # "colon", NEW l
  PROVE  After(State(s, ro, m, l), J!ArrOpen)
           = State(Append(s, J!Value("array", 0)), IF s = <<>> THEN J!Null ELSE ro, m, J!ArrOpen)
  <1> DEFINE r == State(s, ro, m, l)
             s2 == Append(s, J!Value("array", 0))
             ro2 == IF s = <<>> THEN J!Null ELSE ro
  <1>1. J!OnToken(r, J!ArrOpen) = J!OnOpen(r, "array")
    BY Tokens, StateFields
  <1>2. J!OnOpen(r, "array") = State(s2, ro2, m, l)
    <2>1. J!OnOpen(r, "array") = State(s2, ro2, IF "array" = "object" THEN "name" ELSE m, l)
      BY OnOpenState
    <2> HIDE DEF r, s2, ro2
    <2> QED
      BY <2>1
  <1> HIDE DEF r, s2, ro2
  <1>3. After(r, J!ArrOpen) = State(s2, ro2, m, J!ArrOpen)
    BY <1>1, <1>2, LastOf DEF After
  <1> QED
    BY <1>3 DEF r, s2, ro2

\* A name in an object.
LEMMA AfterName ==
  ASSUME NEW b, IsSeq(b), NEW x, NEW ro, NEW l, NEW t \in J!Strings
  PROVE  After(State(Append(b, x), ro, "name", l), t)
           = State(Append(b, AddKey(x, t)), ro, "colon", t)
  <1> DEFINE r == State(Append(b, x), ro, "name", l)
             s2 == Append(b, AddKey(x, t))
  <1>1. J!OnToken(r, t) = J!OnString(r, t)
    BY Tokens, StateFields
  <1>2. J!OnString(r, t) = State(s2, ro, "colon", l)
    BY OnNameState
  <1> HIDE DEF r, s2
  <1>3. After(r, t) = State(s2, ro, "colon", t)
    BY <1>1, <1>2, LastOf DEF After
  <1> QED
    BY <1>3 DEF r, s2

\* : after a name.
LEMMA AfterColon ==
  ASSUME NEW b, IsSeq(b), NEW x, x.typ = "object", NEW ro, NEW l
  PROVE  After(State(Append(b, x), ro, "colon", l), J!Colon)
           = State(Append(b, x), ro, "value", J!Colon)
  <1> DEFINE s == Append(b, x)
             r == State(s, ro, "colon", l)
  <1>1. J!OnToken(r, J!Colon) = J!OnColon(r)
    BY Tokens, StateFields
  <1>2. J!OnColon(r) = State(s, ro, "value", l)
    BY OnColonState
  <1> HIDE DEF r, s
  <1>3. After(r, J!Colon) = State(s, ro, "value", J!Colon)
    BY <1>1, <1>2, LastOf DEF After
  <1> QED
    BY <1>3 DEF r, s

\* , after a member.
LEMMA AfterComma ==
  ASSUME NEW b, IsSeq(b), NEW x, NEW ro, NEW l, l # J!Comma, l # J!ArrOpen
  PROVE  After(State(Append(b, x), ro, "value", l), J!Comma)
           = State(Append(b, x), ro, IF x.typ = "object" THEN "name" ELSE "value", J!Comma)
  <1> DEFINE s == Append(b, x)
             r == State(s, ro, "value", l)
             m2 == IF x.typ = "object" THEN "name" ELSE "value"
  <1>1. J!OnToken(r, J!Comma) = J!OnComma(r)
    BY Tokens, StateFields
  <1>2. J!OnComma(r) = State(s, ro, m2, l)
    BY OnCommaState
  <1> HIDE DEF r, s, m2
  <1>3. After(r, J!Comma) = State(s, ro, m2, J!Comma)
    BY <1>1, <1>2, LastOf DEF After
  <1> QED
    BY <1>3 DEF r, s, m2

\* A value without members: a keyword, a number or a string.
Atom(t) == IF t \in J!Keywords THEN J!Keyword(t)
           ELSE IF t \in J!Numbers THEN J!Number(t) ELSE J!String(t)
Atoms == J!Keywords \cup J!Numbers \cup J!Strings

\* A value that is one token.
LEMMA AfterAtom ==
  ASSUME NEW b, IsSeq(b), NEW x, NEW ro, NEW l, NEW t \in Atoms
  PROVE  After(State(Append(b, x), ro, "value", l), t)
           = State(Append(b, J!AddValue(x, Atom(t))), ro, "value", t)
  <1> DEFINE r == State(Append(b, x), ro, "value", l)
             s2 == Append(b, J!AddValue(x, Atom(t)))
  <1>1. J!OnToken(r, t) = State(s2, ro, "value", l)
    <2>1. CASE t \in J!Keywords
      <3>1. J!OnToken(r, t) = J!OnValue(r, J!Keyword(t))
        BY <2>1, Tokens, StateFields
      <3>2. Atom(t) = J!Keyword(t)
        BY <2>1 DEF Atom
      <3> QED
        BY <3>1, <3>2, OnValueState
    <2>2. CASE t \in J!Numbers
      <3>1. J!OnToken(r, t) = J!OnValue(r, J!Number(t))
        BY <2>2, Tokens, StateFields
      <3>2. Atom(t) = J!Number(t)
        BY <2>2 DEF Atom, J!Keywords, J!Numbers
      <3> QED
        BY <3>1, <3>2, OnValueState
    <2>3. CASE t \in J!Strings
      <3>1. J!OnToken(r, t) = J!OnString(r, t)
        BY <2>3, Tokens, StateFields
      <3>2. Atom(t) = J!String(t)
        BY <2>3 DEF Atom, J!Keywords, J!Numbers, J!Strings
      <3> QED
        BY <3>1, <3>2, OnTextState
    <2> QED
      BY <2>1, <2>2, <2>3 DEF Atoms
  <1> HIDE DEF r, s2
  <1>3. After(r, t) = State(s2, ro, "value", t)
    BY <1>1, LastOf DEF After
  <1> QED
    BY <1>3 DEF r, s2

CloseOf(x) == IF x.typ = "object" THEN J!ObjClose ELSE J!ArrClose
IsNode(x) == x.typ \in {"object", "array"}

\* } or ] puts what it closes into what is below.
LEMMA AfterClose ==
  ASSUME NEW b, IsSeq(b), NEW w, NEW x, IsNode(x), NEW ro, NEW m, m # "colon", NEW l, l # J!Comma
  PROVE  After(State(Append(Append(b, w), x), ro, m, l), CloseOf(x))
           = State(Append(b, J!AddValue(w, x)), ro, "value", CloseOf(x))
  <1> DEFINE r == State(Append(Append(b, w), x), ro, m, l)
             s2 == Append(b, J!AddValue(w, x))
             t == CloseOf(x)
  <1>1. J!OnToken(r, t) = J!OnClose(r, x.typ)
    <2>1. r.state = "run"
      BY StateFields
    <2> HIDE DEF r
    <2> QED
      BY <2>1, Tokens DEF CloseOf, IsNode
  <1>2. J!OnClose(r, x.typ) = State(s2, ro, "value", l)
    BY OnCloseState
  <1> HIDE DEF r, s2, t
  <1>3. After(r, t) = State(s2, ro, "value", t)
    BY <1>1, <1>2, LastOf DEF After
  <1> QED
    BY <1>3 DEF r, s2, t

\* The last one leaves it as what was read.
LEMMA AfterLastClose ==
  ASSUME NEW x, IsNode(x), NEW ro, NEW m, m # "colon", NEW l, l # J!Comma
  PROVE  After(State(Append(<<>>, x), ro, m, l), CloseOf(x)) = State(<<>>, x, "value", CloseOf(x))
  <1> DEFINE r == State(Append(<<>>, x), ro, m, l)
             t == CloseOf(x)
  <1>1. J!OnToken(r, t) = J!OnClose(r, x.typ)
    <2>1. r.state = "run"
      BY StateFields
    <2> HIDE DEF r
    <2> QED
      BY <2>1, Tokens DEF CloseOf, IsNode
  <1>2. J!OnClose(r, x.typ) = State(<<>>, x, "value", l)
    BY OnLastCloseState
  <1> HIDE DEF r, t
  <1>3. After(r, t) = State(<<>>, x, "value", t)
    BY <1>1, <1>2, LastOf DEF After
  <1> QED
    BY <1>3 DEF r, t

Bottom == <<>>

\* The empty stack.
LEMMA EmptyIsSeq == IsSeq(Bottom)
  BY DEF IsSeq, Bottom

\* The value below each of the tokens, for the three texts of the device.
Empty == J!Value("object", 0)
Named(t) == AddKey(Empty, t)
Member(t, v) == J!AddValue(Named(t), v)

\* Objects are closed by }.
LEMMA ObjectsAreNodes ==
  ASSUME NEW t, NEW v
  PROVE  /\ IsNode(Empty) /\ Empty.typ = "object" /\ CloseOf(Empty) = J!ObjClose
         /\ Named(t).typ = "object"
         /\ IsNode(Member(t, v)) /\ Member(t, v).typ = "object"
         /\ CloseOf(Member(t, v)) = J!ObjClose
  BY DEF IsNode, CloseOf, Empty, Named, Member, AddKey, J!AddValue, J!Value

\* { "name" : at the beginning of a text.
LEMMA OpenNamed ==
  ASSUME NEW r, NEW text, NEW n \in Nat, n >= 3, IsRun(r, text, n),
         text[1] = J!ObjOpen, text[2] \in J!Strings, text[3] = J!Colon
  PROVE  /\ r[0] = State(Bottom, J!Null, "value", 0)
         /\ r[1] = State(Append(Bottom, Empty), J!Null, "name", J!ObjOpen)
         /\ r[2] = State(Append(Bottom, Named(text[2])), J!Null, "colon", text[2])
         /\ r[3] = State(Append(Bottom, Named(text[2])), J!Null, "value", J!Colon)
  <1>1. r[1] = After(r[0], J!ObjOpen) /\ r[2] = After(r[1], text[2]) /\ r[3] = After(r[2], J!Colon)
    <2>1. 1 \in 1..n /\ 2 \in 1..n /\ 3 \in 1..n
      OBVIOUS
    <2> QED
      BY <2>1 DEF IsRun
  <1>2. r[0] = State(Bottom, J!Null, "value", 0)
    BY StartState DEF IsRun, Bottom
  <1>3. r[1] = State(Append(Bottom, Empty), J!Null, "name", J!ObjOpen)
    <2>1. After(State(Bottom, J!Null, "value", 0), J!ObjOpen)
            = State(Append(Bottom, J!Value("object", 0)),
                    IF Bottom = <<>> THEN J!Null ELSE J!Null, "name", J!ObjOpen)
      BY AfterObjOpen
    <2> QED
      BY <1>1, <1>2, <2>1 DEF Empty
  <1>4. r[2] = State(Append(Bottom, Named(text[2])), J!Null, "colon", text[2])
    <2>1. PICK t \in J!Strings : t = text[2]
      OBVIOUS
    <2>2. After(State(Append(Bottom, Empty), J!Null, "name", J!ObjOpen), t)
            = State(Append(Bottom, AddKey(Empty, t)), J!Null, "colon", t)
      BY EmptyIsSeq, AfterName
    <2> QED
      BY <1>1, <1>3, <2>1, <2>2 DEF Named
  <1>5. r[3] = State(Append(Bottom, Named(text[2])), J!Null, "value", J!Colon)
    BY <1>1, <1>4, EmptyIsSeq, AfterColon, ObjectsAreNodes
  <1> QED
    BY <1>2, <1>3, <1>4, <1>5

\* Inside of an object the stack is not empty.
LEMMA OpenStack ==
  ASSUME NEW b, IsSeq(b), NEW x, NEW ro, NEW m, NEW l
  PROVE  State(Append(b, x), ro, m, l).stack # <<>>
  <1> DEFINE s == Append(b, x)
  <1>1. s # <<>>
    BY StackTop
  <1> HIDE DEF s
  <1>2. State(s, ro, m, l).stack = s
    BY StateFields
  <1> QED
    BY <1>1, <1>2 DEF s

\* The device's three texts, read to the end; before it something is open.
LEMMA CiphertextRun ==
  ASSUME NEW r, IsRun(r, CiphertextText, 5)
  PROVE  /\ r[5] = State(Bottom, Member(Ciphertext, J!String(Base64String)), "value", J!ObjClose)
         /\ \A n \in 1..4 : r[n].stack # <<>>
  <1> DEFINE text == CiphertextText
             v == J!String(Base64String)
  <1>1. /\ text[1] = J!ObjOpen /\ text[2] = Ciphertext /\ text[3] = J!Colon
        /\ text[4] = Base64String /\ text[5] = J!ObjClose
    BY DEF CiphertextText
  <1>2. Ciphertext \in J!Strings /\ Base64String \in Atoms /\ Atom(Base64String) = v
    BY DEF Ciphertext, Base64String, J!Strings, J!Keywords, J!Numbers, Atom, Atoms
  <1> HIDE DEF text, v
  <1>3. /\ r[1] = State(Append(Bottom, Empty), J!Null, "name", J!ObjOpen)
        /\ r[2] = State(Append(Bottom, Named(Ciphertext)), J!Null, "colon", Ciphertext)
        /\ r[3] = State(Append(Bottom, Named(Ciphertext)), J!Null, "value", J!Colon)
    <2>1. IsRun(r, text, 5)
      BY DEF text
    <2> QED
      BY <2>1, <1>1, <1>2, OpenNamed
  <1>4. r[4] = After(r[3], Base64String) /\ r[5] = After(r[4], J!ObjClose)
    <2>1. 4 \in 1..5 /\ 5 \in 1..5 /\ 4 - 1 = 3 /\ 5 - 1 = 4
      OBVIOUS
    <2> QED
      BY <2>1, <1>1 DEF IsRun, text
  <1>5. r[4] = State(Append(Bottom, Member(Ciphertext, v)), J!Null, "value", Base64String)
    BY <1>2, <1>3, <1>4, EmptyIsSeq, AfterAtom DEF Member
  <1>6. Base64String # J!Comma
    BY DEF Base64String, J!Comma
  <1>7. r[5] = State(Bottom, Member(Ciphertext, v), "value", J!ObjClose)
    BY <1>4, <1>5, <1>6, ObjectsAreNodes, AfterLastClose DEF Bottom
  <1>8. ASSUME NEW n \in 1..4 PROVE r[n].stack # <<>>
    <2>1. n = 1 \/ n = 2 \/ n = 3 \/ n = 4
      OBVIOUS
    <2> QED
      BY <2>1, <1>3, <1>5, EmptyIsSeq, OpenStack
  <1> QED
    BY <1>7, <1>8 DEF v

\* The error that counts, below "input".
LEMMA InputErrorRun ==
  ASSUME NEW r, IsRun(r, InputErrorText, 9)
  PROVE  /\ r[9] = State(Bottom, Member(Input, Member(Error, J!String(Base64String))), "value", J!ObjClose)
         /\ \A n \in 1..8 : r[n].stack # <<>>
  <1> DEFINE text == InputErrorText
             v == J!String(Base64String)
             b == Append(Bottom, Named(Input))
  <1>1. /\ text[1] = J!ObjOpen /\ text[2] = Input /\ text[3] = J!Colon
        /\ text[4] = J!ObjOpen /\ text[5] = Error /\ text[6] = J!Colon
        /\ text[7] = Base64String /\ text[8] = J!ObjClose /\ text[9] = J!ObjClose
    BY DEF InputErrorText
  <1>2. /\ Input \in J!Strings /\ Error \in J!Strings
        /\ Base64String \in Atoms /\ Atom(Base64String) = v
    BY DEF Input, Error, Base64String, J!Strings, J!Keywords, J!Numbers, Atom, Atoms
  <1>3. IsSeq(b) /\ b # <<>>
    BY EmptyIsSeq, StackTop
  <1> HIDE DEF text, v
  <1>4. /\ r[1] = State(Append(Bottom, Empty), J!Null, "name", J!ObjOpen)
        /\ r[2] = State(b, J!Null, "colon", Input)
        /\ r[3] = State(b, J!Null, "value", J!Colon)
    <2>1. IsRun(r, text, 9)
      BY DEF text
    <2> QED
      BY <2>1, <1>1, <1>2, OpenNamed
  <1>5. /\ r[4] = After(r[3], J!ObjOpen) /\ r[5] = After(r[4], Error)
        /\ r[6] = After(r[5], J!Colon) /\ r[7] = After(r[6], Base64String)
        /\ r[8] = After(r[7], J!ObjClose) /\ r[9] = After(r[8], J!ObjClose)
    <2>1. /\ 4 \in 1..9 /\ 5 \in 1..9 /\ 6 \in 1..9 /\ 7 \in 1..9 /\ 8 \in 1..9 /\ 9 \in 1..9
          /\ 4 - 1 = 3 /\ 5 - 1 = 4 /\ 6 - 1 = 5 /\ 7 - 1 = 6 /\ 8 - 1 = 7 /\ 9 - 1 = 8
      OBVIOUS
    <2>2. \A i \in 1..9 : r[i] = After(r[i - 1], text[i])
      BY DEF IsRun, text
    <2> QED
      BY <2>1, <2>2, <1>1
  <1>6. r[4] = State(Append(b, Empty), J!Null, "name", J!ObjOpen)
    <2> HIDE DEF b
    <2> QED
      BY <1>3, <1>4, <1>5, AfterObjOpen DEF Empty
  <1>7. r[5] = State(Append(b, Named(Error)), J!Null, "colon", Error)
    <2> HIDE DEF b
    <2> QED
      BY <1>2, <1>3, <1>5, <1>6, AfterName DEF Named
  <1>8. r[6] = State(Append(b, Named(Error)), J!Null, "value", J!Colon)
    <2> HIDE DEF b
    <2> QED
      BY <1>3, <1>5, <1>7, AfterColon, ObjectsAreNodes
  <1>9. r[7] = State(Append(b, Member(Error, v)), J!Null, "value", Base64String)
    <2> HIDE DEF b
    <2> QED
      BY <1>2, <1>3, <1>5, <1>8, AfterAtom DEF Member
  <1>10. Base64String # J!Comma /\ J!ObjClose # J!Comma
    BY DEF Base64String, J!Comma, J!ObjClose
  <1> DEFINE e == Member(Error, v)
             top == Member(Input, e)
  <1>11. r[8] = State(Append(Bottom, top), J!Null, "value", J!ObjClose)
    <2>1. IsNode(e) /\ CloseOf(e) = J!ObjClose
      BY ObjectsAreNodes
    <2> HIDE DEF e
    <2> QED
      BY <2>1, <1>5, <1>9, <1>10, EmptyIsSeq, AfterClose DEF e, Member
  <1>12. r[9] = State(Bottom, top, "value", J!ObjClose)
    <2>1. IsNode(top) /\ CloseOf(top) = J!ObjClose
      BY ObjectsAreNodes
    <2> HIDE DEF top
    <2> QED
      BY <2>1, <1>5, <1>10, <1>11, AfterLastClose DEF Bottom
  <1>13. ASSUME NEW n \in 1..8 PROVE r[n].stack # <<>>
    <2>1. r[1].stack # <<>> /\ r[2].stack # <<>> /\ r[3].stack # <<>>
      BY <1>4, EmptyIsSeq, OpenStack
    <2>2. r[8].stack # <<>>
      BY <1>11, EmptyIsSeq, OpenStack
    <2>3. r[4].stack # <<>> /\ r[5].stack # <<>> /\ r[6].stack # <<>> /\ r[7].stack # <<>>
      <3> HIDE DEF b
      <3> QED
        BY <1>3, <1>6, <1>7, <1>8, <1>9, OpenStack
    <2> QED
      BY <2>1, <2>2, <2>3
  <1> QED
    BY <1>12, <1>13 DEF v

\* The error that does not count.
LEMMA ErrorRun ==
  ASSUME NEW r, IsRun(r, ErrorText, 6)
  PROVE  /\ r[6] = State(Bottom, Member(Error, Empty), "value", J!ObjClose)
         /\ \A n \in 1..5 : r[n].stack # <<>>
  <1> DEFINE text == ErrorText
             b == Append(Bottom, Named(Error))
  <1>1. /\ text[1] = J!ObjOpen /\ text[2] = Error /\ text[3] = J!Colon
        /\ text[4] = J!ObjOpen /\ text[5] = J!ObjClose /\ text[6] = J!ObjClose
    BY DEF ErrorText
  <1>2. Error \in J!Strings /\ J!ObjOpen # J!Comma /\ J!ObjClose # J!Comma
    BY DEF Error, J!Strings, J!ObjOpen, J!ObjClose, J!Comma
  <1>3. IsSeq(b) /\ b # <<>>
    BY EmptyIsSeq, StackTop
  <1> HIDE DEF text
  <1>4. /\ r[1] = State(Append(Bottom, Empty), J!Null, "name", J!ObjOpen)
        /\ r[2] = State(b, J!Null, "colon", Error)
        /\ r[3] = State(b, J!Null, "value", J!Colon)
    <2>1. IsRun(r, text, 6)
      BY DEF text
    <2> QED
      BY <2>1, <1>1, <1>2, OpenNamed
  <1>5. /\ r[4] = After(r[3], J!ObjOpen) /\ r[5] = After(r[4], J!ObjClose)
        /\ r[6] = After(r[5], J!ObjClose)
    <2>1. /\ 4 \in 1..6 /\ 5 \in 1..6 /\ 6 \in 1..6
          /\ 4 - 1 = 3 /\ 5 - 1 = 4 /\ 6 - 1 = 5
      OBVIOUS
    <2>2. \A i \in 1..6 : r[i] = After(r[i - 1], text[i])
      BY DEF IsRun, text
    <2> QED
      BY <2>1, <2>2, <1>1
  <1>6. r[4] = State(Append(b, Empty), J!Null, "name", J!ObjOpen)
    <2> HIDE DEF b
    <2> QED
      BY <1>3, <1>4, <1>5, AfterObjOpen DEF Empty
  <1> DEFINE top == Member(Error, Empty)
  <1>7. r[5] = State(Append(Bottom, top), J!Null, "value", J!ObjClose)
    BY <1>2, <1>5, <1>6, EmptyIsSeq, ObjectsAreNodes, AfterClose DEF Member
  <1>8. r[6] = State(Bottom, top, "value", J!ObjClose)
    <2>1. IsNode(top) /\ CloseOf(top) = J!ObjClose
      BY ObjectsAreNodes
    <2> HIDE DEF top
    <2> QED
      BY <2>1, <1>2, <1>5, <1>7, AfterLastClose DEF Bottom
  <1>9. ASSUME NEW n \in 1..5 PROVE r[n].stack # <<>>
    <2>1. r[1].stack # <<>> /\ r[2].stack # <<>> /\ r[3].stack # <<>>
      BY <1>4, EmptyIsSeq, OpenStack
    <2>2. r[5].stack # <<>>
      BY <1>7, EmptyIsSeq, OpenStack
    <2>3. r[4].stack # <<>>
      <3> HIDE DEF b
      <3> QED
        BY <1>3, <1>6, OpenStack
    <2> QED
      BY <2>1, <2>2, <2>3
  <1> QED
    BY <1>8, <1>9

\* find_value of an object with one member.
LEMMA FindMember ==
  ASSUME NEW t, NEW v
  PROVE  /\ J!find_value(Member(t, v), t) = v
         /\ \A u : u # t => J!find_value(Member(t, v), u) = J!Null
         /\ \A u : J!find_value(J!Null, u) = J!Null
  <1> DEFINE m == Member(t, v)
             places(o, u) == {i \in DOMAIN o.keys \cap DOMAIN o.values : o.keys[i] = u}
  <1>1. m.keys = <<t>> /\ m.values = <<v>>
    <2>1. Empty.keys = <<>> /\ Empty.values = <<>>
      BY DEF Empty, J!Value
    <2>2. Named(t).keys = Append(<<>>, t) /\ Named(t).values = <<>>
      BY <2>1 DEF Named, AddKey, Empty, J!Value
    <2>3. m.keys = Append(<<>>, t) /\ m.values = Append(<<>>, v)
      BY <2>2 DEF Member, J!AddValue, Named, AddKey, Empty, J!Value
    <2> QED
      BY <2>3
  <1>2. J!Null.keys = <<>> /\ J!Null.values = <<>>
    BY DEF J!Null, J!Value
  <1> HIDE DEF m
  <1>3. places(m, t) = {1}
    BY <1>1
  <1>4. \A u : u # t => places(m, u) = {}
    BY <1>1
  <1>5. \A u : places(J!Null, u) = {}
    BY <1>2
  <1>6. J!find_value(m, t) = v
    <2>1. (CHOOSE i \in {1} : \A j \in {1} : i <= j) = 1
      OBVIOUS
    <2>2. J!find_value(m, t) = m.values[CHOOSE i \in {1} : \A j \in {1} : i <= j]
      BY <1>3 DEF J!find_value
    <2> QED
      BY <1>1, <2>1, <2>2
  <1>7. \A u : u # t => J!find_value(m, u) = J!Null
    BY <1>4 DEF J!find_value
  <1>8. \A u : J!find_value(J!Null, u) = J!Null
    BY <1>5 DEF J!find_value
  <1> QED
    BY <1>6, <1>7, <1>8 DEF m

DeviceTexts == {CiphertextText, InputErrorText, ErrorText}

\* They are texts, of bytes.
LEMMA DeviceTextsAreTexts ==
  /\ CiphertextText \in Seq(Nat) /\ Len(CiphertextText) = 5 /\ CiphertextText \in Seq(Byte)
  /\ InputErrorText \in Seq(Nat) /\ Len(InputErrorText) = 9 /\ InputErrorText \in Seq(Byte)
  /\ ErrorText \in Seq(Nat) /\ Len(ErrorText) = 6 /\ ErrorText \in Seq(Byte)
  BY DEF CiphertextText, InputErrorText, ErrorText, J!ObjOpen, J!ObjClose, J!Colon,
         Ciphertext, Input, Error, Base64String, Byte

\* What the caller gets of a text that left the reader with nothing open.
LEMMA ReadClosed ==
  ASSUME NEW text, NEW v, NEW m, NEW l,
         J!Run(text)[Len(text)] = State(<<>>, v, m, l)
  PROVE  J!read(text).ok /\ J!read(text).value = v
  <1> DEFINE r == State(<<>>, v, m, l)
  <1>1. r.stack = <<>> /\ r.root = v /\ r.state = "run"
    BY DEF State
  <1> HIDE DEF r
  <1> DEFINE val == J!read(text)
  <1>2. val = [ok |-> r.state # "false" /\ r.stack = <<>>, value |-> J!Root(r)]
    BY DEF J!read, r
  <1>3. J!Root(r) = v
    BY <1>1 DEF J!Root
  <1> HIDE DEF val
  <1>4. val.ok
    BY <1>1, <1>2
  <1>5. val.value = v
    BY <1>2, <1>3
  <1> QED
    BY <1>4, <1>5 DEF val

\* An envelope is deciphered (lines 120-152 of dbb.cpp).
LEMMA Envelope ==
  ASSUME NEW body, NEW key
  PROVE  /\ HasCiphertext(Raw(CiphertextText, body))
         /\ decryptAndDecodeCommand(Raw(CiphertextText, body), key) = Deciphered(key, body)
  <1> DEFINE v == Member(Ciphertext, J!String(Base64String))
             val == J!read(CiphertextText)
  <1>1. J!Run(CiphertextText)[Len(CiphertextText)] = State(<<>>, v, "value", J!ObjClose)
    BY DeviceTextsAreTexts, RunByTokens, CiphertextRun DEF Bottom
  <1>2. val.ok /\ val.value = v
    BY <1>1, ReadClosed
  <1>3. J!find_value(J!find_value(v, Input), Error).typ # "string"
    <2>1. Input # Ciphertext
      BY DEF Input, Ciphertext
    <2>2. J!find_value(v, Input) = J!Null
      BY <2>1, FindMember
    <2>3. J!find_value(J!Null, Error) = J!Null
      BY FindMember
    <2>4. J!Null.typ # "string"
      BY DEF J!Null, J!Value
    <2> QED
      BY <2>2, <2>3, <2>4
  <1>4. J!find_value(v, Ciphertext).typ = "string"
    <2>1. J!find_value(v, Ciphertext) = J!String(Base64String)
      BY FindMember
    <2>2. J!String(Base64String).typ = "string"
      BY DEF J!String, J!Value
    <2> QED
      BY <2>1, <2>2
  <1> HIDE DEF v, val
  <1>5. HasCiphertext(Raw(CiphertextText, body))
    BY <1>2, <1>3, <1>4 DEF HasCiphertext, Raw, val
  <1> QED
    BY <1>5 DEF decryptAndDecodeCommand, Raw

\* An error of the device throws (lines 130-140 of dbb.cpp).
LEMMA DeviceError ==
  ASSUME NEW text \in {InputErrorText, ErrorText}, NEW body, NEW key
  PROVE  decryptAndDecodeCommand(Raw(text, body), key) = Failed /\ ~HasCiphertext(Raw(text, body))
  <1> DEFINE val == J!read(text)
  <1>1. CASE text = InputErrorText
    <2> DEFINE e == Member(Error, J!String(Base64String))
               v == Member(Input, e)
    <2>1. J!Run(InputErrorText)[Len(InputErrorText)] = State(<<>>, v, "value", J!ObjClose)
      BY DeviceTextsAreTexts, RunByTokens, InputErrorRun DEF Bottom
    <2>2. val.value = v
      BY <1>1, <2>1, ReadClosed
    <2>3. J!find_value(J!find_value(v, Input), Error).typ = "string"
      <3>1. J!find_value(v, Input) = e /\ J!find_value(e, Error) = J!String(Base64String)
        BY FindMember
      <3>2. J!String(Base64String).typ = "string"
        BY DEF J!String, J!Value
      <3> QED
        BY <3>1, <3>2
    <2> HIDE DEF v, val
    <2> QED
      BY <2>2, <2>3 DEF decryptAndDecodeCommand, HasCiphertext, Raw, val
  <1>2. CASE text = ErrorText
    <2> DEFINE v == Member(Error, Empty)
    <2>1. J!Run(ErrorText)[Len(ErrorText)] = State(<<>>, v, "value", J!ObjClose)
      BY DeviceTextsAreTexts, RunByTokens, ErrorRun DEF Bottom
    <2>2. val.value = v
      BY <1>2, <2>1, ReadClosed
    <2>3. J!find_value(v, Ciphertext).typ # "string"
      <3>1. Error # Ciphertext
        BY DEF Error, Ciphertext
      <3>2. J!find_value(v, Ciphertext) = J!Null
        BY <3>1, FindMember
      <3>3. J!Null.typ # "string"
        BY DEF J!Null, J!Value
      <3> QED
        BY <3>2, <3>3
    <2> HIDE DEF v, val
    <2> QED
      BY <2>2, <2>3 DEF decryptAndDecodeCommand, HasCiphertext, Raw, val
  <1> QED
    BY <1>1, <1>2

\* An answer that was cut does not read, wherever it was cut, and throws.
LEMMA CutAnswer ==
  ASSUME NEW text \in DeviceTexts, NEW n \in 0..Len(text) - 1, NEW body, NEW key
  PROVE  /\ decryptAndDecodeCommand(Raw(SubSeq(text, 1, n), body), key) = Failed
         /\ ~HasCiphertext(Raw(SubSeq(text, 1, n), body))
  <1> DEFINE t == SubSeq(text, 1, n)
             val == J!read(t)
             r == J!Run(text)
  <1>1. text \in Seq(Nat) /\ Len(text) \in Nat \ {0}
    BY DeviceTextsAreTexts DEF DeviceTexts
  <1>2. Len(t) = n /\ J!Run(t)[n] = r[n]
    <2>1. n \in 0..Len(text)
      BY <1>1
    <2> QED
      BY <1>1, <2>1, PrefixRun
  <1> HIDE DEF t
  <1>3. CASE n = 0
    <2>1. r[0] = State(<<>>, J!Null, "value", 0)
      BY <1>1, RunByTokens, StartState DEF IsRun
    <2>2. val.value = J!Null
      BY <1>2, <1>3, <2>1, ReadClosed
    <2>3. J!find_value(J!Null, Ciphertext) = J!Null
      BY FindMember
    <2>4. J!Null.typ # "string"
      BY DEF J!Null, J!Value
    <2> HIDE DEF val
    <2> QED
      BY <2>2, <2>3, <2>4 DEF decryptAndDecodeCommand, HasCiphertext, Raw, val, t
  <1>4. CASE n \in 1..Len(text) - 1
    <2>1. IsRun(r, text, Len(text))
      BY <1>1, RunByTokens
    <2> HIDE DEF r
    <2>2. r[n].stack # <<>>
      <3>1. CASE text = CiphertextText
        BY <1>4, <2>1, <3>1, CiphertextRun, DeviceTextsAreTexts
      <3>2. CASE text = InputErrorText
        BY <1>4, <2>1, <3>2, InputErrorRun, DeviceTextsAreTexts
      <3>3. CASE text = ErrorText
        BY <1>4, <2>1, <3>3, ErrorRun, DeviceTextsAreTexts
      <3> QED
        BY <3>1, <3>2, <3>3 DEF DeviceTexts
    <2>3. val.ok = FALSE
      <3>1. val = [ok |-> r[n].state # "false" /\ r[n].stack = <<>>, value |-> J!Root(r[n])]
        BY <1>2 DEF J!read
      <3> HIDE DEF val
      <3> QED
        BY <2>2, <3>1
    <2> HIDE DEF val
    <2> QED
      BY <2>3 DEF decryptAndDecodeCommand, HasCiphertext, Raw, val, t
  <1> QED
    BY <1>1, <1>3, <1>4
-----------------------------------------------------------------------------
(***************************************************************************)
(* The envelope.                                                           *)
(***************************************************************************)
LEMMA SeqOfLarger ==
  ASSUME NEW A, NEW B, A \subseteq B, NEW s \in Seq(A)
  PROVE  s \in Seq(B)
  <1>1. Len(s) \in Nat /\ s \in [1..Len(s) -> A]
    BY LenProperties
  <1>2. PICK N \in Nat : s \in [1..N -> A]
    BY <1>1
  <1>3. s \in [1..N -> B]
    BY <1>2
  <1> QED
    BY <1>3

\* A part of a text of bytes.
LEMMA SubSeqOfBytes ==
  ASSUME NEW s \in Seq(Byte), NEW n \in Int, n <= Len(s)
  PROVE  SubSeq(s, 1, n) \in Seq(Byte)
  <1>1. CASE n > 0
    <2>1. n \in 0..Len(s) /\ Len(s) \in Nat
      BY <1>1
    <2> QED
      BY <2>1, SubSeqProperties
  <1>2. CASE ~(n > 0)
    <2>1. SubSeq(s, 1, n) = <<>>
      BY <1>2
    <2> QED
      BY <2>1
  <1> QED
    BY <1>1, <1>2

\* assign() takes a text of which no byte is zero as a whole.
LEMMA TextIsCString ==
  ASSUME NEW s \in Seq(1..255)
  PROVE  CString(s) = s
  <1> DEFINE N == Len(s)
             S == {i \in 0..N : i = N \/ s[i + 1] = 0}
  <1>0. N \in Nat /\ s \in [1..N -> 1..255]
    BY LenProperties
  <1>1. N \in Nat /\ N \in 0..N /\ s \in [1..N -> 1..255]
    BY <1>0
  <1> HIDE DEF N
  <1>2. ASSUME NEW i \in 0..N, i < N PROVE i \notin S
    <2>1. i + 1 \in 1..N /\ i # N
      BY <1>1, <1>2
    <2>2. PICK j \in 1..N : j = i + 1
      BY <2>1
    <2>3. s[j] \in 1..255
      BY <1>1
    <2>4. s[j] # 0
      <3>1. \A c \in 1..255 : c # 0
        OBVIOUS
      <3> QED
        BY <2>3, <3>1, Zenon
    <2>5. s[i + 1] # 0
      BY <2>2, <2>4
    <2> QED
      BY <2>1, <2>5
  <1>3. S \subseteq 0..N /\ N \in S
    BY <1>1
  <1> HIDE DEF S
  <1>4. Min(S) = N
    BY <1>1, <1>2, <1>3, FirstStop
  <1>5. CString(s) = SubSeq(s, 1, N)
    BY <1>4 DEF CString, S, N
  <1> QED
    BY <1>5, SubSeqFull DEF N

\* What assign() takes are bytes.
LEMMA CStringOfBytes ==
  ASSUME NEW s \in Seq(Byte)
  PROVE  CString(s) \in Seq(Byte)
  <1> DEFINE N == Len(s)
             S == {i \in 0..N : i = N \/ s[i + 1] = 0}
  <1>1. N \in Nat
    BY LenProperties
  <1>2. S \in SUBSET Nat /\ S # {} /\ S \subseteq 0..N
    BY <1>1
  <1>3. CString(s) = SubSeq(s, 1, Min(S))
    BY DEF CString
  <1> HIDE DEF S
  <1>4. Min(S) \in 0..N
    BY <1>2, MinIsLeast
  <1>5. Min(S) \in Int /\ Min(S) <= Len(s)
    BY <1>1, <1>4
  <1> QED
    BY <1>3, <1>5, SubSeqOfBytes

\* Under whatever key, the bytes of the stream are bytes.
LEMMA InverseOfBytes ==
  ASSUME NEW key \in Byte, NEW iv \in [1..Block -> Byte], NEW msg \in Seq(Byte)
  PROVE  CbcInverse(key, iv, msg) \in Seq(Byte)
  <1> DEFINE N == Len(msg)
             s == CbcInverse(key, iv, msg)
  <1>1. N \in Nat /\ DOMAIN msg = 1..N /\ msg \in [1..N -> Byte]
    BY LenProperties
  <1> HIDE DEF N
  <1>2. ASSUME NEW i \in 1..N
        PROVE  (msg[i] + 512 - key - (IF i <= Block THEN iv[i] ELSE msg[i - Block])) % 256 \in Byte
    <2>1. (IF i <= Block THEN iv[i] ELSE msg[i - Block]) \in 0..255
      <3>1. CASE i <= Block
        <4>1. i \in 1..Block
          BY <1>1, <3>1, ExchangeAssumption
        <4> QED
          BY <3>1, <4>1 DEF Byte
      <3>2. CASE ~(i <= Block)
        <4>1. PICK j \in 1..N : j = i - Block
          BY <1>1, <3>2, ExchangeAssumption
        <4>2. msg[j] \in 0..255
          BY <1>1 DEF Byte
        <4> QED
          BY <3>2, <4>1, <4>2
      <3> QED
        BY <3>1, <3>2
    <2>2. PICK p \in 0..255 : p = (IF i <= Block THEN iv[i] ELSE msg[i - Block])
      BY <2>1
    <2>3. PICK m \in 0..255 : m = msg[i]
      BY <1>1 DEF Byte
    <2>4. PICK k \in 0..255 : k = key
      BY DEF Byte
    <2>5. (m + 512 - k - p) % 256 \in 0..255
      OBVIOUS
    <2> QED
      BY <2>2, <2>3, <2>4, <2>5 DEF Byte
  <1>3. s \in [1..N -> Byte]
    BY <1>1, <1>2 DEF CbcInverse
  <1> HIDE DEF s
  <1>4. s \in Seq(Byte)
    BY <1>1, <1>3
  <1> QED
    BY <1>4 DEF s

\* Whole blocks, and not none, are one at least.
LEMMA OneBlock ==
  ASSUME NEW n \in Nat, NEW b \in Nat \ {0}, n > 0, n % b = 0
  PROVE  n >= b
  <1>1. n < b => n % b = n
    OBVIOUS
  <1> QED
    BY <1>1

\* The padding that is taken off is never longer than the stream.
LEMMA PaddingIsInStream ==
  ASSUME NEW key \in Byte, NEW iv \in [1..Block -> Byte], NEW msg \in Seq(Byte),
         aesDecrypt(key, iv, msg).ok
  PROVE  LET s == aesDecrypt(key, iv, msg).stream
         IN  /\ s \in Seq(Byte)
             /\ Last(s) \in 1..Block
             /\ Last(s) <= Len(s)
             /\ SubSeq(s, 1, Len(s) - Last(s)) \in Seq(Byte)
  <1> DEFINE d == aesDecrypt(key, iv, msg)
             s == CbcInverse(key, iv, msg)
             n == Len(s)
  <1>1. s \in Seq(Byte) /\ n \in Nat
    BY InverseOfBytes, LenProperties
  <1>2. d = [ok |-> /\ n > 0
                    /\ n % Block = 0
                    /\ s[n] \in 1..Block
                    /\ \A i \in n + 1 - s[n]..n : s[i] = s[n],
             stream |-> s]
    BY DEF aesDecrypt
  <1> HIDE DEF s, d
  <1>3. n > 0 /\ n % Block = 0 /\ s[n] \in 1..Block /\ d.stream = s
    BY <1>2 DEF d
  <1>4. Last(s) = s[n]
    BY DEF Last, n
  <1> HIDE DEF n
  <1>5. s[n] <= n
    <2>1. Block \in Nat \ {0} /\ s[n] \in Nat /\ s[n] <= Block
      BY <1>3, ExchangeAssumption
    <2>2. n >= Block
      BY <1>1, <1>3, <2>1, OneBlock
    <2> QED
      BY <1>1, <2>1, <2>2
  <1>6. SubSeq(s, 1, n - s[n]) \in Seq(Byte)
    <2>1. n - s[n] \in Int /\ n - s[n] <= n
      BY <1>1, <1>3, ExchangeAssumption
    <2> QED
      BY <1>1, <2>1, SubSeqOfBytes DEF n
  <1> QED
    BY <1>1, <1>3, <1>4, <1>5, <1>6 DEF d, n

\* What the wallet or the device finds in an encoded envelope.
LEMMA EnvelopeBytes ==
  ASSUME NEW key \in Byte, NEW iv \in [1..Block -> Byte], NEW text \in Seq(Byte)
  PROVE  LET bytes == iv \o aesEncrypt(key, iv, text)
         IN  /\ bytes \in Seq(Byte)
             /\ SubSeq(bytes, 1, Block) = iv
             /\ SubSeq(bytes, Block + 1, Len(bytes)) = aesEncrypt(key, iv, text)
             /\ aesEncrypt(key, iv, text) \in Seq(Byte)
             /\ encryptAndEncodeCommand(text, key, iv) = base64_encode(bytes)
             /\ base64_decode(base64_encode(bytes)) = bytes
             /\ BytesOf(base64_encode(bytes)) = bytes
             /\ base64_encode(bytes) \in Seq(Sextet \cup {Equals})
             /\ base64_encode(bytes) \in Seq(0..Other)
  <1> DEFINE c == aesEncrypt(key, iv, text)
             bytes == iv \o c
  <1>1. bytes \in Seq(Byte)
    BY OpensSealed
  <1>7. c \in Seq(Byte) /\ Len(c) = Padded(Len(text))
    BY OpenedText
  <1>5. SubSeq(bytes, 1, Block) = iv
    BY OpensSealed
  <1>6. SubSeq(bytes, Block + 1, Len(bytes)) = c
    BY OpensSealed
  <1>2. encryptAndEncodeCommand(text, key, iv) = base64_encode(bytes)
    <2>1. SubSeq(c, 1, Padded(Len(text))) = c
      BY <1>7, SubSeqFull
    <2> QED
      BY <2>1 DEF encryptAndEncodeCommand
  <1> HIDE DEF bytes
  <1>3. base64_encode(bytes) \in Seq(Sextet \cup {Equals})
    BY <1>1, Encoding
  <1>4. base64_encode(bytes) \in Seq(0..Other)
    <2>1. Sextet \cup {Equals} \subseteq 0..Other
      BY DEF Sextet, Equals, Other
    <2> DEFINE e == base64_encode(bytes)
    <2> HIDE DEF e
    <2>2. e \in Seq(Sextet \cup {Equals})
      BY <1>3 DEF e
    <2>4. e \in Seq(0..Other)
      BY <2>1, <2>2, SeqOfLarger
    <2> QED
      BY <2>4 DEF e
  <1> QED
    BY <1>1, <1>2, <1>3, <1>4, <1>5, <1>6, <1>7, DecodesEncoding, BytesOfEncoding DEF bytes, c
-----------------------------------------------------------------------------
(***************************************************************************)
(* The writer.  Texts is a recursive function over values.  That it is one, *)
(* and what it writes, follows from TreeAssumption, by the smallest value  *)
(* that would be an exception.                                             *)
(***************************************************************************)
LEMMA ValuesOfMembers ==
  ASSUME NEW v \in Members
  PROVE  /\ J!IsValue(v, Members)
         /\ v.values \in Seq(Members) /\ Len(v.values) \in Nat
         /\ DOMAIN v.values = 1..Len(v.values)
         /\ Range(v.values) \subseteq Members
         /\ \A i \in DOMAIN v.values : v.values[i] \in Range(v.values)
  <1>1. J!IsValue(v, Members)
    BY ExchangeAssumption
  <1>2. v.values \in Seq(Members)
    <2>1. CASE v \in {J!Keyword(k) : k \in J!Keywords} \cup {J!Number(n) : n \in J!Numbers}
                       \cup {J!String(s) : s \in J!Strings}
      <3>1. v.values = <<>>
        BY <2>1 DEF J!Keyword, J!Number, J!String, J!Null, J!Value
      <3> QED
        BY <3>1
    <2> QED
      BY <1>1, <2>1 DEF J!IsValue
  <1>3. Len(v.values) \in Nat /\ DOMAIN v.values = 1..Len(v.values)
    BY <1>2, LenProperties
  <1>4. \A i \in DOMAIN v.values : v.values[i] \in Range(v.values) /\ v.values[i] \in Members
    BY <1>2, <1>3 DEF Range
  <1>5. Range(v.values) \subseteq Members
    BY <1>4 DEF Range
  <1> QED
    BY <1>1, <1>2, <1>3, <1>4, <1>5

\* The texts of the members of v, and the text of v made of them.
Part(w, v, i) == IF v.typ = "object" THEN <<v.keys[i], J!Colon>> \o w[v.values[i]]
                                     ELSE w[v.values[i]]
Parts(w, v) == [i \in DOMAIN v.values |-> Part(w, v, i)]
WriteOf(w, v) ==
    IF v.typ = "object" THEN <<J!ObjOpen>> \o J!Separated(Parts(w, v)) \o <<J!ObjClose>>
    ELSE IF v.typ = "array" THEN <<J!ArrOpen>> \o J!Separated(Parts(w, v)) \o <<J!ArrClose>>
    ELSE IF v = J!Null THEN <<110>> ELSE <<v.val>>

\* WriteOf looks at the members of v only.
LEMMA WriteAgrees ==
  ASSUME NEW v \in Members, NEW f, NEW g, \A u \in Range(v.values) : f[u] = g[u]
  PROVE  WriteOf(f, v) = WriteOf(g, v)
  <1>1. \A i \in DOMAIN v.values : f[v.values[i]] = g[v.values[i]]
    BY ValuesOfMembers
  <1>2. \A i \in DOMAIN v.values : Part(f, v, i) = Part(g, v, i)
    BY <1>1 DEF Part
  <1>3. Parts(f, v) = Parts(g, v)
    BY <1>2 DEF Parts
  <1> QED
    BY <1>3 DEF WriteOf

\* f writes the values in T, and the values in them.
Writes(f, T) == /\ T \subseteq Members
                /\ \A v \in T : Range(v.values) \subseteq T
                /\ f = [v \in T |-> WriteOf(f, v)]

\* Two functions that write as they should write the same: the smallest value on
\* which they differ would have a member on which they do.
LEMMA WritesOneText ==
  ASSUME NEW f, NEW g, NEW T, NEW U, Writes(f, T), Writes(g, U), NEW v \in T \cap U
  PROVE  f[v] = g[v]
  <1> DEFINE S == {u \in T \cap U : f[u] # g[u]}
  <1> SUFFICES ASSUME S # {} PROVE FALSE
    OBVIOUS
  <1>1. S \in SUBSET Members
    BY DEF Writes
  <1>2. PICK u \in S : Range(u.values) \cap S = {}
    <2> HIDE DEF S
    <2> QED
      BY <1>1, TreeAssumption
  <1>3. \A x \in Range(u.values) : f[x] = g[x]
    BY <1>2 DEF Writes
  <1>4. WriteOf(f, u) = WriteOf(g, u)
    BY <1>1, <1>2, <1>3, WriteAgrees
  <1>5. f[u] = WriteOf(f, u) /\ g[u] = WriteOf(g, u)
    <2>1. u \in T /\ u \in U
      OBVIOUS
    <2> QED
      BY <2>1 DEF Writes
  <1> QED
    BY <1>2, <1>4, <1>5

\* There is one: the smallest value without a text could be given one.
LEMMA WriteExists == \E f : Writes(f, Members)
  <1> DEFINE U == {v \in Members : \E T, f : Writes(f, T) /\ v \in T}
             val(v) == CHOOSE y : \E T, f : Writes(f, T) /\ v \in T /\ y = f[v]
             h == [v \in U |-> val(v)]
  <1>1. ASSUME NEW T, NEW f, Writes(f, T), NEW v \in T
        PROVE  v \in U /\ h[v] = f[v]
    <2>1. v \in U
      BY <1>1 DEF Writes
    <2>2. \E y : \E S, g : Writes(g, S) /\ v \in S /\ y = g[v]
      BY <1>1
    <2>3. PICK S, g : Writes(g, S) /\ v \in S /\ val(v) = g[v]
      BY <2>2
    <2>4. f[v] = g[v]
      BY <1>1, <2>3, WritesOneText
    <2> HIDE DEF val
    <2> QED
      BY <2>1, <2>3, <2>4
  <1> HIDE DEF val
  <1>2. Writes(h, U)
    <2>1. ASSUME NEW v \in U PROVE Range(v.values) \subseteq U /\ h[v] = WriteOf(h, v)
      <3>1. PICK T, f : Writes(f, T) /\ v \in T
        OBVIOUS
      <3>6. v \in Members
        OBVIOUS
      <3> HIDE DEF U, h
      <3>2. Range(v.values) \subseteq T /\ f[v] = WriteOf(f, v)
        BY <3>1 DEF Writes
      <3>3. \A u \in Range(v.values) : u \in U /\ h[u] = f[u]
        BY <1>1, <3>1, <3>2
      <3>4. WriteOf(h, v) = WriteOf(f, v)
        BY <3>3, <3>6, WriteAgrees
      <3>5. h[v] = f[v]
        BY <1>1, <3>1
      <3> QED
        BY <3>2, <3>3, <3>4, <3>5
    <2>2. U \subseteq Members /\ h = [v \in U |-> h[v]]
      OBVIOUS
    <2> HIDE DEF h, U
    <2> QED
      BY <2>1, <2>2 DEF Writes
  <1>3. U = Members
    <2> SUFFICES ASSUME Members \ U # {} PROVE FALSE
      OBVIOUS
    <2> HIDE DEF U, h
    <2>1. PICK v \in Members \ U : Range(v.values) \cap (Members \ U) = {}
      BY TreeAssumption
    <2>2. Range(v.values) \subseteq U
      BY <2>1, ValuesOfMembers
    <2> DEFINE T == U \cup {v}
               f == [u \in T |-> IF u = v THEN WriteOf(h, v) ELSE h[u]]
    <2>3. \A u \in U : f[u] = h[u]
      BY <2>1
    <2>4. ASSUME NEW u \in T PROVE Range(u.values) \subseteq U /\ f[u] = WriteOf(f, u)
      <3>1. Range(u.values) \subseteq U
        BY <1>2, <2>2 DEF Writes
      <3>2. u \in Members
        BY <1>2, <2>1 DEF Writes
      <3>3. WriteOf(f, u) = WriteOf(h, u)
        <4>1. \A x \in Range(u.values) : f[x] = h[x]
          BY <2>3, <3>1
        <4> HIDE DEF f
        <4> QED
          BY <3>2, <4>1, WriteAgrees
      <3>4. f[u] = WriteOf(h, u)
        <4>1. CASE u = v
          BY <4>1
        <4>2. CASE u \in U
          <5>1. h[u] = WriteOf(h, u)
            BY <1>2, <4>2 DEF Writes
          <5> QED
            BY <2>3, <4>2, <5>1
        <4> QED
          BY <4>1, <4>2
      <3> QED
        BY <3>1, <3>3, <3>4
    <2>5. Writes(f, T)
      <3>1. T \subseteq Members
        BY <1>2 DEF Writes
      <3>2. f = [u \in T |-> f[u]]
        OBVIOUS
      <3> HIDE DEF f
      <3> QED
        BY <2>4, <3>1, <3>2 DEF Writes
    <2>6. v \in U
      <3> HIDE DEF f, T
      <3>1. v \in T
        BY DEF T
      <3> QED
        BY <2>5, <3>1 DEF U
    <2> QED
      BY <2>1, <2>6
  <1> QED
    BY <1>2, <1>3

\* write() writes a value from the texts of its members (univalue_write.cpp).
LEMMA WriteIsRecursive ==
  ASSUME NEW v \in Members
  PROVE  Write[v] = WriteOf(Write, v)
  <1> DEFINE rec(f) == f = [u \in Members |->
                CASE u.typ = "object" ->
                       <<J!ObjOpen>> \o J!Separated([i \in DOMAIN u.values |->
                           <<u.keys[i], J!Colon>> \o f[u.values[i]]]) \o <<J!ObjClose>>
                  [] u.typ = "array" ->
                       <<J!ArrOpen>> \o J!Separated([i \in DOMAIN u.values |-> f[u.values[i]]])
                                     \o <<J!ArrClose>>
                  [] u = J!Null -> <<110>>
                  [] OTHER -> <<u.val>>]
             w == CHOOSE f : rec(f)
  <1>1. ASSUME NEW f PROVE rec(f) <=> f = [u \in Members |-> WriteOf(f, u)]
    <2>1. ASSUME NEW u \in Members
          PROVE WriteOf(f, u) = CASE u.typ = "object" ->
                       <<J!ObjOpen>> \o J!Separated([i \in DOMAIN u.values |->
                           <<u.keys[i], J!Colon>> \o f[u.values[i]]]) \o <<J!ObjClose>>
                  [] u.typ = "array" ->
                       <<J!ArrOpen>> \o J!Separated([i \in DOMAIN u.values |-> f[u.values[i]]])
                                     \o <<J!ArrClose>>
                  [] u = J!Null -> <<110>>
                  [] OTHER -> <<u.val>>
      <3>1. CASE u.typ = "object"
        <4>1. Parts(f, u) = [i \in DOMAIN u.values |-> <<u.keys[i], J!Colon>> \o f[u.values[i]]]
          BY <3>1 DEF Parts, Part
        <4>2. u.typ # "array" /\ u # J!Null
          BY <3>1 DEF J!Null, J!Value
        <4> QED
          BY <3>1, <4>1, <4>2 DEF WriteOf
      <3>2. CASE u.typ = "array"
        <4>1. Parts(f, u) = [i \in DOMAIN u.values |-> f[u.values[i]]]
          BY <3>2 DEF Parts, Part
        <4>2. u.typ # "object" /\ u # J!Null
          BY <3>2 DEF J!Null, J!Value
        <4> QED
          BY <3>2, <4>1, <4>2 DEF WriteOf
      <3>3. CASE u.typ # "object" /\ u.typ # "array"
        BY <3>3 DEF WriteOf
      <3> QED
        BY <3>1, <3>2, <3>3
    <2> QED
      BY <2>1
  <1> HIDE DEF rec
  <1>2. PICK f : Writes(f, Members)
    BY WriteExists
  <1>3. rec(w)
    <2>1. rec(f)
      BY <1>1, <1>2 DEF Writes
    <2> QED
      BY <2>1
  <1> HIDE DEF w
  <1>4. w = [u \in Members |-> WriteOf(w, u)]
    BY <1>1, <1>3
  <1>5. Write = [u \in Members |-> w[u]]
    BY DEF Write, J!Texts, w, rec
  <1>6. Write[v] = w[v] /\ w[v] = WriteOf(w, v)
    BY <1>4, <1>5
  <1>7. WriteOf(w, v) = WriteOf(Write, v)
    <2>1. \A u \in Range(v.values) : w[u] = Write[u]
      BY <1>5, ValuesOfMembers
    <2> QED
      BY <2>1, WriteAgrees
  <1> QED
    BY <1>6, <1>7

\* FlattenSeq joins its sequences one by one.
LEMMA Flattened ==
  ASSUME NEW n \in Nat \ {0}, NEW seqs, Len(seqs) = n
  PROVE  \E f : /\ f[1] = seqs[1]
                /\ \A i \in 2..n : f[i] = f[i - 1] \o seqs[i]
                /\ J!FlattenSeq(seqs) = f[n]
  <1> DEFINE rec(f) == f = [i \in 1..n |-> IF i = 1 THEN seqs[i] ELSE f[i - 1] \o seqs[i]]
             chain(f, m) == /\ f = [i \in 1..n |-> f[i]]
                            /\ f[1] = seqs[1]
                            /\ \A i \in 2..m : f[i] = f[i - 1] \o seqs[i]
             S == {m \in 0..n : \E f : chain(f, m)}
  <1>1. 0 \in S
    <2> DEFINE z == [i \in 1..n |-> seqs[1]]
    <2>1. z = [i \in 1..n |-> z[i]] /\ z[1] = seqs[1] /\ 2..0 = {} /\ 0 \in 0..n
      OBVIOUS
    <2> HIDE DEF z
    <2> QED
      BY <2>1
  <1>2. ASSUME NEW m \in 0..n, m \in S, m < n PROVE m + 1 \in S
    <2>1. PICK f : chain(f, m)
      BY <1>2
    <2> DEFINE b == IF m = 0 THEN seqs[1] ELSE f[m] \o seqs[m + 1]
               d == [i \in 1..n |-> IF i = m + 1 THEN b ELSE f[i]]
    <2>2. /\ d = [i \in 1..n |-> d[i]] /\ d[m + 1] = b
          /\ \A i \in 1..m : d[i] = f[i]
      <3>1. m + 1 \in 1..n /\ \A i \in 1..m : i \in 1..n /\ i # m + 1
        BY <1>2
      <3> HIDE DEF b
      <3> QED
        BY <3>1
    <2> HIDE DEF d
    <2>3. d[1] = seqs[1]
      <3>1. CASE m = 0
        BY <2>2, <3>1
      <3>2. CASE m # 0
        <4>1. 1 \in 1..m
          BY <3>2
        <4> QED
          BY <2>1, <2>2, <4>1
      <3> QED
        BY <3>1, <3>2
    <2>4. ASSUME NEW i \in 2..m + 1 PROVE d[i] = d[i - 1] \o seqs[i]
      <3>1. CASE i = m + 1
        <4>1. m # 0 /\ m \in 1..m /\ i - 1 = m
          BY <3>1
        <4>2. d[m + 1] = f[m] \o seqs[m + 1] /\ d[m] = f[m]
          BY <2>2, <4>1
        <4> QED
          BY <3>1, <4>1, <4>2
      <3>2. CASE i \in 2..m
        <4>1. i \in 1..m /\ i - 1 \in 1..m
          BY <3>2
        <4>2. f[i] = f[i - 1] \o seqs[i]
          BY <2>1, <3>2
        <4> QED
          BY <2>2, <4>1, <4>2
      <3>3. i = m + 1 \/ i \in 2..m
        OBVIOUS
      <3> HIDE DEF S
      <3> QED
        BY <3>1, <3>2, <3>3
    <2>5. m + 1 \in 0..n
      BY <1>2
    <2> QED
      BY <2>2, <2>3, <2>4, <2>5
  <1>3. PICK f : chain(f, n)
    <2> HIDE DEF S
    <2>1. 0..n \subseteq S
      BY <1>1, <1>2, BoundedInduction
    <2>2. n \in S
      BY <2>1
    <2> QED
      BY <2>2 DEF S
  <1>4. rec(f)
    <2>1. \A i \in 1..n : f[i] = IF i = 1 THEN seqs[i] ELSE f[i - 1] \o seqs[i]
      <3> SUFFICES ASSUME NEW i \in 1..n
                   PROVE  f[i] = IF i = 1 THEN seqs[i] ELSE f[i - 1] \o seqs[i]
        OBVIOUS
      <3>1. CASE i = 1
        BY <1>3, <3>1
      <3>2. CASE i \in 2..n
        BY <1>3, <3>2
      <3> QED
        BY <3>1, <3>2
    <2>2. f = [i \in 1..n |-> f[i]]
      BY <1>3
    <2> QED
      BY <2>1, <2>2
  <1> DEFINE w == CHOOSE u : rec(u)
  <1>5. rec(w)
    BY <1>4
  <1>6. J!FlattenSeq(seqs) = w[n]
    <2>1. n # 0
      OBVIOUS
    <2> QED
      BY <2>1 DEF J!FlattenSeq
  <1> HIDE DEF w
  <1>7. \A i \in 1..n : w[i] = IF i = 1 THEN seqs[i] ELSE w[i - 1] \o seqs[i]
    BY <1>5
  <1>8. w[1] = seqs[1] /\ \A i \in 2..n : w[i] = w[i - 1] \o seqs[i]
    <2>1. 1 \in 1..n /\ \A i \in 2..n : i \in 1..n /\ i # 1
      OBVIOUS
    <2> QED
      BY <1>7, <2>1
  <1> QED
    BY <1>6, <1>8

\* A text grows by a comma and the next member.
IsJoined(f, texts, n) ==
    /\ f[1] = texts[1]
    /\ \A i \in 2..n : f[i] = f[i - 1] \o (<<J!Comma>> \o texts[i])

\* Texts with commas between them.
LEMMA Separates ==
  ASSUME NEW n \in Nat, NEW texts, texts = [i \in 1..n |-> texts[i]]
  PROVE  /\ n = 0 => J!Separated(texts) = <<>>
         /\ n > 0 => \E f : IsJoined(f, texts, n) /\ J!Separated(texts) = f[n]
  <1> DEFINE seqs == [i \in 1..n |-> IF i = 1 THEN texts[i] ELSE <<J!Comma>> \o texts[i]]
  <1>1. DOMAIN texts = 1..n
    OBVIOUS
  <1>2. J!Separated(texts) = J!FlattenSeq(seqs)
    BY <1>1 DEF J!Separated
  <1>3. Len(seqs) = n
    OBVIOUS
  <1>4. n = 0 => J!FlattenSeq(seqs) = <<>>
    <2> SUFFICES ASSUME n = 0 PROVE J!FlattenSeq(seqs) = <<>>
      OBVIOUS
    <2>1. seqs = <<>>
      OBVIOUS
    <2> HIDE DEF seqs
    <2> QED
      BY <1>3, <2>1 DEF J!FlattenSeq
  <1>5. \A i \in 1..n : seqs[i] = IF i = 1 THEN texts[i] ELSE <<J!Comma>> \o texts[i]
    OBVIOUS
  <1> HIDE DEF seqs
  <1>6. ASSUME n > 0 PROVE \E f : IsJoined(f, texts, n) /\ J!FlattenSeq(seqs) = f[n]
    <2>1. n \in Nat \ {0}
      BY <1>6
    <2>2. PICK f : /\ f[1] = seqs[1]
                   /\ \A i \in 2..n : f[i] = f[i - 1] \o seqs[i]
                   /\ J!FlattenSeq(seqs) = f[n]
      BY <1>3, <2>1, Flattened
    <2>3. seqs[1] = texts[1] /\ \A i \in 2..n : seqs[i] = <<J!Comma>> \o texts[i]
      <3>1. 1 \in 1..n /\ \A i \in 2..n : i \in 1..n /\ i # 1
        BY <2>1
      <3> QED
        BY <1>5, <3>1
    <2> QED
      BY <2>2, <2>3 DEF IsJoined
  <1> QED
    BY <1>2, <1>4, <1>6

\* The characters are those of the texts, and commas.
LEMMA SeparatedType ==
  ASSUME NEW n \in Nat, NEW texts, texts = [i \in 1..n |-> texts[i]],
         NEW A, J!Comma \in A, \A i \in 1..n : texts[i] \in Seq(A)
  PROVE  J!Separated(texts) \in Seq(A)
  <1>1. CASE n = 0
    <2>1. J!Separated(texts) = <<>>
      BY <1>1, Separates
    <2> QED
      BY <2>1
  <1>2. CASE n > 0
    <2>1. PICK f : IsJoined(f, texts, n) /\ J!Separated(texts) = f[n]
      BY <1>2, Separates
    <2> DEFINE C == {i \in 0..n : i > 0 => f[i] \in Seq(A)}
    <2>2. 0 \in C
      OBVIOUS
    <2>3. ASSUME NEW i \in 0..n, i \in C, i < n PROVE i + 1 \in C
      <3>1. i + 1 \in 1..n /\ i + 1 \in 0..n
        BY <2>3
      <3>2. CASE i = 0
        <4>1. f[1] \in Seq(A)
          BY <1>2, <2>1, <3>1, <3>2 DEF IsJoined
        <4> QED
          BY <3>1, <3>2, <4>1
      <3>3. CASE i # 0
        <4>1. i + 1 \in 2..n /\ (i + 1) - 1 = i /\ i > 0
          BY <3>1, <3>3
        <4>2. f[i + 1] = f[i] \o (<<J!Comma>> \o texts[i + 1])
          BY <2>1, <4>1 DEF IsJoined
        <4>3. <<J!Comma>> \in Seq(A)
          OBVIOUS
        <4> DEFINE c == <<J!Comma>>
                   p == c \o texts[i + 1]
        <4> HIDE DEF c
        <4>4. p \in Seq(A)
          BY <3>1, <4>3, ConcatProperties DEF c
        <4>5. f[i] \in Seq(A)
          BY <2>3, <4>1
        <4> HIDE DEF p
        <4>6. f[i] \o p \in Seq(A)
          BY <4>4, <4>5, ConcatProperties
        <4>7. f[i + 1] \in Seq(A)
          BY <4>2, <4>6 DEF p, c
        <4> QED
          BY <3>1, <4>7
      <3> QED
        BY <3>2, <3>3
    <2> HIDE DEF C
    <2>4. n \in C
      <3>1. 0..n \subseteq C
        BY <2>2, <2>3, BoundedInduction
      <3> QED
        BY <3>1
    <2> QED
      BY <1>2, <2>1, <2>4 DEF C
  <1> QED
    BY <1>1, <1>2

NonZero == 1..255

\* No text holds a zero byte.
LEMMA WrittenBytes ==
  ASSUME NEW v \in Members
  PROVE  Write[v] \in Seq(1..255)
  <1> DEFINE S == {u \in Members : Write[u] \notin Seq(NonZero)}
  <1> SUFFICES ASSUME S # {} PROVE FALSE
    BY DEF NonZero
  <1>1. PICK u \in S : Range(u.values) \cap S = {}
    <2>1. S \in SUBSET Members
      OBVIOUS
    <2> HIDE DEF S
    <2> QED
      BY <2>1, TreeAssumption
  <1>2. \A x \in Range(u.values) : Write[x] \in Seq(NonZero)
    BY <1>1, ValuesOfMembers
  <1>3. u \in Members /\ Write[u] \notin Seq(NonZero)
    OBVIOUS
  <1> HIDE DEF S
  <1> DEFINE n == Len(u.values)
             texts == Parts(Write, u)
  <1>4. n \in Nat /\ texts = [i \in 1..n |-> texts[i]]
    BY <1>3, ValuesOfMembers DEF Parts
  <1>5. ASSUME NEW i \in 1..n PROVE texts[i] \in Seq(NonZero)
    <2>1. Write[u.values[i]] \in Seq(NonZero) /\ texts[i] = Part(Write, u, i)
      BY <1>2, <1>3, ValuesOfMembers DEF Parts
    <2>2. CASE u.typ = "object"
      <3>1. u.keys[i] \in J!Strings
        <4>1. u.keys \in Seq(J!Strings) /\ Len(u.keys) = n
          BY <1>3, <2>2, ValuesOfMembers DEF J!IsValue, J!Keyword, J!Number, J!String, J!Array,
             J!Null, J!Value
        <4> QED
          BY <4>1
      <3>2. <<u.keys[i], J!Colon>> \in Seq(NonZero)
        BY <3>1 DEF NonZero, J!Strings, J!Colon
      <3> DEFINE k == <<u.keys[i], J!Colon>>
                 w == Write[u.values[i]]
      <3> HIDE DEF k, w
      <3>3. k \o w \in Seq(NonZero)
        BY <2>1, <3>2, ConcatProperties DEF k, w
      <3> QED
        BY <2>1, <2>2, <3>3 DEF Part, k, w
    <2>3. CASE u.typ # "object"
      BY <2>1, <2>3 DEF Part
    <2> QED
      BY <2>2, <2>3
  <1> HIDE DEF texts, n
  <1>6. J!Separated(texts) \in Seq(NonZero)
    <2>1. J!Comma \in NonZero
      BY DEF NonZero, J!Comma
    <2> QED
      BY <1>4, <1>5, <2>1, SeparatedType
  <1>7. ASSUME NEW a \in NonZero, NEW b \in NonZero
        PROVE  <<a>> \o J!Separated(texts) \o <<b>> \in Seq(NonZero)
    <2> DEFINE s == J!Separated(texts)
    <2>1. <<a>> \in Seq(NonZero) /\ <<b>> \in Seq(NonZero)
      OBVIOUS
    <2> DEFINE x == <<a>>
               y == <<b>>
    <2> HIDE DEF x, y, s
    <2>2. x \o s \in Seq(NonZero)
      BY <1>6, <2>1, ConcatProperties DEF x, s
    <2>3. (x \o s) \o y \in Seq(NonZero)
      BY <2>1, <2>2, ConcatProperties DEF y
    <2> QED
      BY <2>3 DEF x, y, s
  <1>8. Write[u] = WriteOf(Write, u)
    BY <1>3, WriteIsRecursive
  <1>9. CASE u.typ = "object"
    <2>1. J!ObjOpen \in NonZero /\ J!ObjClose \in NonZero
      BY DEF NonZero, J!ObjOpen, J!ObjClose
    <2>2. Write[u] = <<J!ObjOpen>> \o J!Separated(texts) \o <<J!ObjClose>>
      BY <1>8, <1>9 DEF WriteOf, texts
    <2> QED
      BY <1>3, <1>7, <2>1, <2>2
  <1>10. CASE u.typ = "array"
    <2>1. J!ArrOpen \in NonZero /\ J!ArrClose \in NonZero
      BY DEF NonZero, J!ArrOpen, J!ArrClose
    <2>2. Write[u] = <<J!ArrOpen>> \o J!Separated(texts) \o <<J!ArrClose>>
      BY <1>8, <1>10 DEF WriteOf, texts
    <2> QED
      BY <1>3, <1>7, <2>1, <2>2
  <1>11. CASE u.typ # "object" /\ u.typ # "array"
    <2>1. u \in {J!Keyword(k) : k \in J!Keywords} \cup {J!Number(m) : m \in J!Numbers}
                  \cup {J!String(s) : s \in J!Strings}
      <3>1. J!IsValue(u, Members)
        BY <1>3, ValuesOfMembers
      <3> QED
        BY <1>11, <3>1 DEF J!IsValue, J!Array, J!Object, J!Value
    <2>2. u = J!Null \/ u.val \in NonZero
      <3>1. \A k \in J!Keywords : J!Keyword(k) # J!Null => J!Keyword(k).val = k
        BY DEF J!Keyword, J!Value
      <3>2. \A m \in J!Numbers : J!Number(m).val = m
        BY DEF J!Number, J!Value
      <3>3. \A s \in J!Strings : J!String(s).val = s
        BY DEF J!String, J!Value
      <3>4. J!Keywords \subseteq NonZero /\ J!Numbers \subseteq NonZero /\ J!Strings \subseteq NonZero
        BY DEF J!Keywords, J!Numbers, J!Strings, NonZero
      <3> QED
        BY <2>1, <3>1, <3>2, <3>3, <3>4
    <2>3. \A c \in NonZero : <<c>> \in Seq(NonZero)
      OBVIOUS
    <2>4. 110 \in NonZero
      BY DEF NonZero
    <2>5. Write[u] = IF u = J!Null THEN <<110>> ELSE <<u.val>>
      BY <1>8, <1>11 DEF WriteOf
    <2> QED
      BY <1>3, <2>2, <2>3, <2>4, <2>5
  <1> QED
    BY <1>9, <1>10, <1>11
-----------------------------------------------------------------------------
(***************************************************************************)
(* Reading what was written.                                               *)
(***************************************************************************)
\* Text s takes the reader from r to q.
Leads(r, s, q) == \E f : /\ f[0] = r
                         /\ \A i \in 1..Len(s) : f[i] = After(f[i - 1], s[i])
                         /\ f[Len(s)] = q

\* One token.
LEMMA LeadsByOne ==
  ASSUME NEW r, NEW t
  PROVE  Leads(r, <<t>>, After(r, t))
  <1> DEFINE s == <<t>>
             q == After(r, t)
             f == [i \in 0..1 |-> IF i = 0 THEN r ELSE q]
  <1>1. Len(s) = 1 /\ s[1] = t
    OBVIOUS
  <1>2. f[0] = r /\ f[1] = q
    OBVIOUS
  <1> HIDE DEF f, s
  <1>3. \A i \in 1..1 : f[i] = After(f[i - 1], s[i])
    <2> SUFFICES ASSUME NEW i \in 1..1 PROVE f[i] = After(f[i - 1], s[i])
      OBVIOUS
    <2>1. i = 1 /\ i - 1 = 0
      OBVIOUS
    <2> QED
      BY <1>1, <1>2, <2>1
  <1> HIDE DEF q
  <1>4. Leads(r, s, q)
    BY <1>1, <1>2, <1>3 DEF Leads
  <1> QED
    BY <1>4 DEF s, q

\* No token.
LEMMA LeadsByNone ==
  ASSUME NEW r
  PROVE  Leads(r, <<>>, r)
  <1> DEFINE f == [i \in 0..0 |-> r]
  <1>1. f[0] = r /\ Len(<<>>) = 0 /\ 1..0 = {}
    OBVIOUS
  <1> HIDE DEF f
  <1> QED
    BY <1>1 DEF Leads

\* One text after the other.
LEMMA LeadsOn ==
  ASSUME NEW S, NEW s \in Seq(S), NEW t \in Seq(S), NEW r, NEW q, NEW p,
         Leads(r, s, q), Leads(q, t, p)
  PROVE  Leads(r, s \o t, p)
  <1> DEFINE m == Len(s)
             n == Len(t)
             st == s \o t
  <1>1. m \in Nat /\ n \in Nat
    BY LenProperties
  <1>2. /\ Len(st) = m + n
        /\ \A i \in 1..m + n : st[i] = IF i <= m THEN s[i] ELSE t[i - m]
    BY ConcatProperties
  <1>3. PICK f : f[0] = r /\ (\A i \in 1..m : f[i] = After(f[i - 1], s[i])) /\ f[m] = q
    BY DEF Leads
  <1>4. PICK g : g[0] = q /\ (\A i \in 1..n : g[i] = After(g[i - 1], t[i])) /\ g[n] = p
    BY DEF Leads
  <1> HIDE DEF m, n, st
  <1> DEFINE h == [i \in 0..m + n |-> IF i <= m THEN f[i] ELSE g[i - m]]
  <1>5. /\ \A i \in 0..m : h[i] = f[i]
        /\ \A i \in 0..n : h[m + i] = g[i]
    <2>1. ASSUME NEW i \in 0..m PROVE h[i] = f[i]
      <3>1. i \in 0..m + n /\ i <= m
        BY <1>1
      <3> QED
        BY <3>1
    <2>2. ASSUME NEW i \in 0..n PROVE h[m + i] = g[i]
      <3>1. m + i \in 0..m + n /\ (m + i) - m = i /\ (m + i <= m <=> i = 0)
        BY <1>1
      <3>2. CASE i = 0
        <4>1. m + i = m
          BY <1>1, <3>2
        <4> QED
          BY <1>3, <1>4, <2>1, <3>2, <4>1, <1>1
      <3>3. CASE i # 0
        BY <3>1, <3>3
      <3> QED
        BY <3>2, <3>3
    <2> QED
      BY <2>1, <2>2
  <1> HIDE DEF h
  <1>6. h[0] = r
    <2>1. 0 \in 0..m
      BY <1>1
    <2> QED
      BY <1>3, <1>5, <2>1
  <1>7. h[m + n] = p
    <2>1. n \in 0..n
      BY <1>1
    <2> QED
      BY <1>4, <1>5, <2>1
  <1>8. ASSUME NEW i \in 1..m + n PROVE h[i] = After(h[i - 1], st[i])
    <2>1. CASE i <= m
      <3>1. i \in 1..m /\ i \in 0..m /\ i - 1 \in 0..m
        BY <1>1, <2>1
      <3>2. f[i] = After(f[i - 1], s[i])
        BY <1>3, <3>1
      <3>3. st[i] = s[i]
        BY <1>2, <2>1
      <3> QED
        BY <1>5, <3>1, <3>2, <3>3
    <2>2. CASE ~(i <= m)
      <3>1. PICK j \in 1..n : j = i - m
        BY <1>1, <2>2
      <3>2. i = m + j /\ i - 1 = m + (j - 1) /\ j \in 0..n /\ j - 1 \in 0..n
        BY <1>1, <3>1
      <3>3. g[j] = After(g[j - 1], t[j])
        BY <1>4
      <3>4. st[i] = t[j]
        BY <1>2, <2>2, <3>1
      <3>5. h[i] = g[j] /\ h[i - 1] = g[j - 1]
        BY <1>5, <3>2
      <3> QED
        BY <3>3, <3>4, <3>5
    <2> QED
      BY <2>1, <2>2
  <1>9. Leads(r, st, p)
    BY <1>2, <1>6, <1>7, <1>8 DEF Leads
  <1> QED
    BY <1>9 DEF st

\* read is where the whole text leads to.
LEMMA RunLeads ==
  ASSUME NEW text \in Seq(Nat), NEW q, Leads(J!Start, text, q)
  PROVE  J!Run(text)[Len(text)] = q
  <1> DEFINE n == Len(text)
             r == J!Run(text)
  <1>1. n \in Nat
    BY LenProperties
  <1>2. PICK f : f[0] = J!Start /\ (\A i \in 1..n : f[i] = After(f[i - 1], text[i])) /\ f[n] = q
    BY DEF Leads
  <1>3. r[0] = J!Start /\ \A i \in 1..n : r[i] = After(r[i - 1], text[i])
    BY RunByTokens DEF IsRun
  <1> HIDE DEF n, r
  <1> DEFINE S == {i \in 0..n : r[i] = f[i]}
  <1>4. 0 \in S
    BY <1>1, <1>2, <1>3
  <1>5. ASSUME NEW i \in 0..n, i \in S, i < n PROVE i + 1 \in S
    <2>1. i + 1 \in 1..n /\ i + 1 \in 0..n /\ (i + 1) - 1 = i
      BY <1>1, <1>5
    <2>2. f[i + 1] = After(f[i], text[i + 1]) /\ r[i + 1] = After(r[i], text[i + 1])
      BY <1>2, <1>3, <2>1
    <2>3. r[i] = f[i]
      BY <1>5
    <2> QED
      BY <2>1, <2>2, <2>3
  <1> HIDE DEF S
  <1>6. n \in S
    <2>1. 0..n \subseteq S
      BY <1>1, <1>4, <1>5, BoundedInduction
    <2> QED
      BY <1>1, <2>1
  <1> QED
    BY <1>2, <1>6 DEF S, n, r

\* Value v with its first i members.
Upto(v, i) == IF v.typ = "object" THEN J!Object(SubSeq(v.keys, 1, i), SubSeq(v.values, 1, i))
                                  ELSE J!Array(SubSeq(v.values, 1, i))

\* What the reader waits for inside v.
First(v) == IF v.typ = "object" THEN "name" ELSE "value"

\* A member that is no atom is an object or an array of members.
LEMMA NodeOfMembers ==
  ASSUME NEW v \in Members, IsNode(v)
  PROVE  /\ v.values \in Seq(Members)
         /\ v.typ = "object" => /\ v.keys \in Seq(J!Strings) /\ Len(v.keys) = Len(v.values)
                                /\ v = J!Object(v.keys, v.values)
         /\ v.typ # "object" => v = J!Array(v.values) /\ v.typ = "array"
  <1>1. J!IsValue(v, Members) /\ v.values \in Seq(Members)
    BY ValuesOfMembers
  <1>2. v \notin {J!Keyword(k) : k \in J!Keywords} \cup {J!Number(n) : n \in J!Numbers}
                  \cup {J!String(s) : s \in J!Strings}
    <2>1. \A k : ~IsNode(J!Keyword(k)) /\ ~IsNode(J!Number(k)) /\ ~IsNode(J!String(k))
      BY DEF IsNode, J!Keyword, J!Number, J!String, J!Null, J!Value
    <2> QED
      BY <2>1
  <1>3. \A k, w : J!Array(w).typ = "array" /\ J!Object(k, w).typ = "object"
    BY DEF J!Array, J!Object, J!Value
  <1>4. CASE v = J!Array(v.values)
    <2>1. v.typ = "array"
      BY <1>3, <1>4
    <2> QED
      BY <1>1, <1>4, <2>1
  <1>5. CASE /\ v.keys \in Seq(J!Strings) /\ Len(v.keys) = Len(v.values)
             /\ v = J!Object(v.keys, v.values)
    <2>1. v.typ = "object"
      BY <1>3, <1>5
    <2> QED
      BY <1>1, <1>5, <2>1
  <1> QED
    BY <1>1, <1>2, <1>4, <1>5 DEF J!IsValue

\* Building an object or an array.
LEMMA NodeRecords ==
  ASSUME NEW k, NEW w, NEW n, NEW u
  PROVE  /\ J!Object(k, w) = [typ |-> "object", val |-> 0, keys |-> k, values |-> w]
         /\ J!Array(w) = [typ |-> "array", val |-> 0, keys |-> <<>>, values |-> w]
         /\ J!AddValue(J!Array(w), u) = J!Array(Append(w, u))
         /\ J!AddValue(AddKey(J!Object(k, w), n), u) = J!Object(Append(k, n), Append(w, u))
  <1>1. \A a, b : J!Object(a, b) = [typ |-> "object", val |-> 0, keys |-> a, values |-> b]
    <2> DEFINE z == J!Value("object", 0)
    <2>1. z = [typ |-> "object", val |-> 0, keys |-> <<>>, values |-> <<>>]
      BY DEF J!Value
    <2>2. \A a, b : J!Object(a, b) = [z EXCEPT !.keys = a, !.values = b]
      BY DEF J!Object
    <2> HIDE DEF z
    <2> QED
      BY <2>1, <2>2
  <1>2. \A b : J!Array(b) = [typ |-> "array", val |-> 0, keys |-> <<>>, values |-> b]
    BY DEF J!Array, J!Value
  <1>3. J!AddValue(J!Array(w), u) = J!Array(Append(w, u))
    <2> DEFINE a == J!Array(w)
               e == J!AddValue(a, u)
    <2>1. a = [typ |-> "array", val |-> 0, keys |-> <<>>, values |-> w]
      BY <1>2
    <2>2. e = [a EXCEPT !.values = Append(@, u)]
      BY DEF J!AddValue
    <2> HIDE DEF a, e
    <2>3. e = [typ |-> "array", val |-> 0, keys |-> <<>>, values |-> Append(w, u)]
      BY <2>1, <2>2
    <2> QED
      BY <1>2, <2>3 DEF e, a
  <1>4. J!AddValue(AddKey(J!Object(k, w), n), u) = J!Object(Append(k, n), Append(w, u))
    <2> DEFINE a == J!Object(k, w)
               d == AddKey(a, n)
               e == J!AddValue(d, u)
    <2>1. a = [typ |-> "object", val |-> 0, keys |-> k, values |-> w]
      BY <1>1
    <2>2. d = [a EXCEPT !.keys = Append(@, n)] /\ e = [d EXCEPT !.values = Append(@, u)]
      BY DEF J!AddValue, AddKey
    <2> HIDE DEF a, d, e
    <2> DEFINE kn == Append(k, n)
               wu == Append(w, u)
    <2>3. d = [typ |-> "object", val |-> 0, keys |-> kn, values |-> w]
      BY <2>1, <2>2
    <2> HIDE DEF kn
    <2>5. d.values = w
      BY <2>3
    <2>6. e = [d EXCEPT !.values = wu]
      BY <2>2, <2>5
    <2> HIDE DEF wu
    <2>4. e = [typ |-> "object", val |-> 0, keys |-> kn, values |-> wu]
      BY <2>3, <2>6
    <2> QED
      BY <1>1, <2>4 DEF e, d, a, kn, wu
  <1> QED
    BY <1>1, <1>2, <1>3, <1>4

\* One member more.
LEMMA UptoGrows ==
  ASSUME NEW v \in Members, IsNode(v), NEW i \in 1..Len(v.values)
  PROVE  /\ v.typ = "object" => Upto(v, i) = J!AddValue(AddKey(Upto(v, i - 1), v.keys[i]), v.values[i])
         /\ v.typ # "object" => Upto(v, i) = J!AddValue(Upto(v, i - 1), v.values[i])
  <1> DEFINE k == v.keys
             w == v.values
  <1>1. ASSUME NEW S, NEW s \in Seq(S), i \in 1..Len(s)
        PROVE  SubSeq(s, 1, i) = Append(SubSeq(s, 1, i - 1), s[i])
    <2>1. 1 \in 1..Len(s) /\ i \in 1..Len(s) /\ Len(s) \in Nat
      BY <1>1
    <2>2. SubSeq(s, 1, i) = SubSeq(s, 1, i - 1) \o <<s[i]>>
      BY <1>1, <2>1, SubSeqRecursiveSecond
    <2>3. SubSeq(s, 1, i - 1) \in Seq(S) /\ s[i] \in S
      <3>1. \A j \in 1..i - 1 : s[j] \in S
        BY <2>1
      <3>2. 1 \in Int /\ i - 1 \in Int
        OBVIOUS
      <3> QED
        BY <2>1, <3>1, <3>2, SubSeqProperties
    <2> DEFINE t == SubSeq(s, 1, i - 1)
               e == s[i]
    <2> HIDE DEF t, e
    <2>4. Append(t, e) = t \o <<e>>
      BY <2>3, AppendIsConcat DEF t, e
    <2> QED
      BY <2>2, <2>4 DEF t, e
  <1>2. SubSeq(w, 1, i) = Append(SubSeq(w, 1, i - 1), w[i])
    BY <1>1, NodeOfMembers
  <1>3. ASSUME v.typ = "object"
        PROVE  Upto(v, i) = J!AddValue(AddKey(Upto(v, i - 1), v.keys[i]), v.values[i])
    <2>1. SubSeq(k, 1, i) = Append(SubSeq(k, 1, i - 1), k[i])
      <3>1. k \in Seq(J!Strings) /\ i \in 1..Len(k)
        BY <1>3, NodeOfMembers
      <3> QED
        BY <1>1, <3>1
    <2>2. \A a, b, c, d : J!AddValue(AddKey(J!Object(a, b), c), d) = J!Object(Append(a, c), Append(b, d))
      BY NodeRecords
    <2>3. /\ Upto(v, i) = J!Object(SubSeq(k, 1, i), SubSeq(w, 1, i))
          /\ Upto(v, i - 1) = J!Object(SubSeq(k, 1, i - 1), SubSeq(w, 1, i - 1))
      BY <1>3 DEF Upto
    <2> DEFINE ki == SubSeq(k, 1, i - 1)
               wi == SubSeq(w, 1, i - 1)
    <2> HIDE DEF ki, wi, k, w
    <2>4. Upto(v, i) = J!Object(Append(ki, k[i]), Append(wi, w[i])) /\ Upto(v, i - 1) = J!Object(ki, wi)
      BY <1>2, <2>1, <2>3 DEF ki, wi
    <2>5. Upto(v, i) = J!AddValue(AddKey(Upto(v, i - 1), k[i]), w[i])
      BY <2>2, <2>4
    <2> QED
      BY <2>5 DEF k, w
  <1>4. ASSUME v.typ # "object"
        PROVE  Upto(v, i) = J!AddValue(Upto(v, i - 1), v.values[i])
    <2>1. \A b, d : J!AddValue(J!Array(b), d) = J!Array(Append(b, d))
      BY NodeRecords
    <2> QED
      BY <1>2, <1>4, <2>1 DEF Upto
  <1> QED
    BY <1>3, <1>4

\* From an empty value to v itself.
LEMMA UptoEnds ==
  ASSUME NEW v \in Members, IsNode(v)
  PROVE  Upto(v, 0) = J!Value(v.typ, 0) /\ Upto(v, Len(v.values)) = v
  <1>1. \A s : SubSeq(s, 1, 0) = <<>>
    BY SubSeqEmpty
  <1>2. SubSeq(v.values, 1, Len(v.values)) = v.values
    BY NodeOfMembers, SubSeqFull
  <1>3. CASE v.typ = "object"
    <2>1. SubSeq(v.keys, 1, Len(v.values)) = v.keys
      BY <1>3, NodeOfMembers, SubSeqFull
    <2>2. J!Object(<<>>, <<>>) = J!Value("object", 0)
      BY NodeRecords DEF J!Value
    <2> QED
      BY <1>1, <1>2, <1>3, <2>1, <2>2, NodeOfMembers DEF Upto
  <1>4. CASE v.typ # "object"
    <2>1. J!Array(<<>>) = J!Value("array", 0)
      BY DEF J!Array, J!Value
    <2> QED
      BY <1>1, <1>2, <1>4, <2>1, NodeOfMembers DEF Upto
  <1> QED
    BY <1>3, <1>4

\* It stays an object or an array.
LEMMA UptoType ==
  ASSUME NEW v \in Members, IsNode(v), NEW i
  PROVE  Upto(v, i).typ = v.typ
  <1>1. \A k, w : J!Array(w).typ = "array" /\ J!Object(k, w).typ = "object"
    BY DEF J!Array, J!Object, J!Value
  <1> QED
    BY <1>1 DEF Upto, IsNode

\* After a value comes neither a comma nor an opening bracket.
Ends == Nat \ {J!Comma, J!ArrOpen}

\* The text of v, where a value is expected, adds v to the value around it.
IsRead(v) ==
    \A b, x, ro, l : IsSeq(b) =>
        \E t \in Ends : Leads(State(Append(b, x), ro, "value", l), Write[v],
                              State(Append(b, J!AddValue(x, v)), ro, "value", t))

\* A value of one token is read as what it is.
LEMMA AtomIsRead ==
  ASSUME NEW v \in Members, ~IsNode(v)
  PROVE  IsRead(v)
  <1>1. v \in {J!Keyword(k) : k \in J!Keywords} \cup {J!Number(n) : n \in J!Numbers}
                \cup {J!String(s) : s \in J!Strings}
    <2>1. J!IsValue(v, Members)
      BY ValuesOfMembers
    <2>2. \A k, w : J!Array(w).typ = "array" /\ J!Object(k, w).typ = "object"
      BY DEF J!Array, J!Object, J!Value
    <2> QED
      BY <2>1, <2>2 DEF J!IsValue, IsNode
  <1>2. v.typ # "object" /\ v.typ # "array"
    BY DEF IsNode
  <1>3. Write[v] = IF v = J!Null THEN <<110>> ELSE <<v.val>>
    BY <1>2, WriteIsRecursive DEF WriteOf
  <1>4. \E t \in Atoms : Write[v] = <<t>> /\ Atom(t) = v
    <2>1. CASE \E k \in J!Keywords : v = J!Keyword(k)
      <3>1. PICK k \in J!Keywords : v = J!Keyword(k)
        BY <2>1
      <3>2. Write[v] = <<k>>
        <4>1. CASE k = 110
          BY <1>3, <3>1, <4>1 DEF J!Keyword
        <4>2. CASE k # 110
          <5>1. v = J!Value("bool", k)
            BY <3>1, <4>2 DEF J!Keyword
          <5>2. v.val = k /\ v # J!Null
            BY <5>1 DEF J!Null, J!Value
          <5> QED
            BY <1>3, <5>2
        <4> QED
          BY <4>1, <4>2
      <3> QED
        BY <3>1, <3>2 DEF Atom, Atoms
    <2>2. CASE \E n \in J!Numbers : v = J!Number(n)
      <3>1. PICK n \in J!Numbers : v = J!Number(n)
        BY <2>2
      <3>2. v.val = n /\ v # J!Null
        BY <3>1 DEF J!Number, J!Null, J!Value
      <3>3. n \notin J!Keywords
        BY DEF J!Keywords, J!Numbers
      <3> QED
        BY <1>3, <3>1, <3>2, <3>3 DEF Atom, Atoms
    <2>3. CASE \E s \in J!Strings : v = J!String(s)
      <3>1. PICK s \in J!Strings : v = J!String(s)
        BY <2>3
      <3>2. v.val = s /\ v # J!Null
        BY <3>1 DEF J!String, J!Null, J!Value
      <3>3. s \notin J!Keywords /\ s \notin J!Numbers
        BY DEF J!Keywords, J!Numbers, J!Strings
      <3> QED
        BY <1>3, <3>1, <3>2, <3>3 DEF Atom, Atoms
    <2> QED
      BY <1>1, <2>1, <2>2, <2>3
  <1>5. PICK t \in Atoms : Write[v] = <<t>> /\ Atom(t) = v
    BY <1>4
  <1>6. t \in Ends
    BY DEF Atoms, Ends, J!Keywords, J!Numbers, J!Strings, J!Comma, J!ArrOpen
  <1>7. ASSUME NEW b, NEW x, NEW ro, NEW l, IsSeq(b)
        PROVE  Leads(State(Append(b, x), ro, "value", l), Write[v],
                     State(Append(b, J!AddValue(x, v)), ro, "value", t))
    <2> DEFINE r == State(Append(b, x), ro, "value", l)
    <2>1. After(r, t) = State(Append(b, J!AddValue(x, v)), ro, "value", t)
      BY <1>5, <1>7, AfterAtom
    <2>2. Leads(r, <<t>>, After(r, t))
      BY LeadsByOne
    <2> QED
      BY <1>5, <2>1, <2>2
  <1> QED
    BY <1>6, <1>7 DEF IsRead

\* One member more.
LEMMA PartIsRead ==
  ASSUME NEW v \in Members, IsNode(v), NEW i \in 1..Len(v.values), IsRead(v.values[i]),
         NEW b, IsSeq(b), NEW ro, NEW l
  PROVE  \E t \in Ends : Leads(State(Append(b, Upto(v, i - 1)), ro, First(v), l), Part(Write, v, i),
                               State(Append(b, Upto(v, i)), ro, "value", t))
  <1> DEFINE x == Upto(v, i - 1)
             u == v.values[i]
  <1>1. x.typ = v.typ
    BY UptoType
  <1>2. u \in Members /\ Write[u] \in Seq(Nat)
    <2>1. u \in Members
      BY NodeOfMembers
    <2>2. Write[u] \in Seq(1..255)
      BY <2>1, WrittenBytes
    <2>3. 1..255 \subseteq Nat
      OBVIOUS
    <2> QED
      BY <2>1, <2>2, <2>3, SeqMonotonic
  <1> HIDE DEF x, u
  <1>3. CASE v.typ = "object"
    <2> DEFINE k == v.keys[i]
               y == AddKey(x, k)
               r1 == State(Append(b, x), ro, "name", l)
               r2 == State(Append(b, y), ro, "colon", k)
               r3 == State(Append(b, y), ro, "value", J!Colon)
    <2>1. k \in J!Strings
      BY <1>3, NodeOfMembers
    <2>2. After(r1, k) = r2
      BY <2>1, AfterName
    <2>3. y.typ = "object"
      BY <1>1, <1>3 DEF AddKey, x, Upto, J!Object, J!Value
    <2>4. After(r2, J!Colon) = r3
      <3> HIDE DEF y, k
      <3> QED
        BY <2>3, AfterColon
    <2>5. PICK t \in Ends : Leads(r3, Write[u], State(Append(b, J!AddValue(y, u)), ro, "value", t))
      BY DEF IsRead, u
    <2>6. J!AddValue(y, u) = Upto(v, i)
      BY <1>3, UptoGrows DEF x, u
    <2> DEFINE q == State(Append(b, Upto(v, i)), ro, "value", t)
    <2>7. Leads(r3, Write[u], q)
      BY <2>5, <2>6
    <2>8. k \in Nat /\ J!Colon \in Nat
      <3>1. J!Strings \subseteq Nat /\ J!Colon \in Nat
        BY DEF J!Strings, J!Colon
      <3> QED
        BY <2>1, <3>1
    <2> HIDE DEF k, y, r1, r2, r3, q
    <2>9. Leads(r1, <<k>>, r2) /\ Leads(r2, <<J!Colon>>, r3)
      BY <2>2, <2>4, LeadsByOne
    <2> DEFINE c == J!Colon
    <2> HIDE DEF c
    <2>10. <<k>> \in Seq(Nat) /\ <<c>> \in Seq(Nat) /\ <<k, c>> \in Seq(Nat)
           /\ <<k, c>> = <<k>> \o <<c>>
      BY <2>8 DEF c
    <2>11. Leads(r1, <<k, c>>, r3)
      <3> DEFINE s1 == <<k>>
                 s2 == <<c>>
      <3>1. s1 \in Seq(Nat) /\ s2 \in Seq(Nat) /\ <<k, c>> = s1 \o s2
        BY <2>10
      <3>2. Leads(r1, s1, r2) /\ Leads(r2, s2, r3)
        BY <2>9 DEF c
      <3> HIDE DEF s1, s2
      <3>3. Leads(r1, s1 \o s2, r3)
        BY <3>1, <3>2, LeadsOn
      <3> QED
        BY <3>1, <3>3
    <2>12. Leads(r1, <<k, c>> \o Write[u], q)
      BY <1>2, <2>7, <2>10, <2>11, LeadsOn
    <2>13. Part(Write, v, i) = <<k, c>> \o Write[u] /\ First(v) = "name"
      BY <1>3 DEF Part, k, c, u, First
    <2> QED
      BY <2>12, <2>13 DEF r1, q, x
  <1>4. CASE v.typ # "object"
    <2> DEFINE r1 == State(Append(b, x), ro, "value", l)
    <2>1. PICK t \in Ends : Leads(r1, Write[u], State(Append(b, J!AddValue(x, u)), ro, "value", t))
      BY DEF IsRead, u
    <2>2. J!AddValue(x, u) = Upto(v, i)
      BY <1>4, UptoGrows DEF x, u
    <2>3. Part(Write, v, i) = Write[u] /\ First(v) = "value"
      BY <1>4 DEF Part, u, First
    <2> QED
      BY <2>1, <2>2, <2>3 DEF x
  <1> QED
    BY <1>3, <1>4

\* What write() puts down for one member.
LEMMA PartsAreTexts ==
  ASSUME NEW v \in Members, IsNode(v), NEW i \in 1..Len(v.values)
  PROVE  Parts(Write, v)[i] \in Seq(Nat)
  <1> DEFINE w == Write[v.values[i]]
  <1>1. w \in Seq(Nat)
    <2>1. w \in Seq(1..255)
      BY ValuesOfMembers, WrittenBytes
    <2>2. 1..255 \subseteq Nat
      OBVIOUS
    <2> QED
      BY <2>1, <2>2, SeqMonotonic
  <1>2. Parts(Write, v)[i] = Part(Write, v, i)
    BY ValuesOfMembers DEF Parts
  <1>3. CASE v.typ = "object"
    <2> DEFINE k == <<v.keys[i], J!Colon>>
    <2>1. k \in Seq(Nat)
      <3>1. v.keys[i] \in J!Strings
        BY <1>3, NodeOfMembers
      <3>2. J!Strings \subseteq Nat /\ J!Colon \in Nat
        BY DEF J!Strings, J!Colon
      <3>3. v.keys[i] \in Nat
        BY <3>1, <3>2
      <3> QED
        BY <3>2, <3>3
    <2>2. Part(Write, v, i) = k \o w
      BY <1>3 DEF Part
    <2> HIDE DEF k, w
    <2>3. k \o w \in Seq(Nat)
      BY <1>1, <2>1, ConcatProperties
    <2> QED
      BY <1>2, <2>2, <2>3
  <1>4. CASE v.typ # "object"
    BY <1>1, <1>2, <1>4 DEF Part
  <1> QED
    BY <1>3, <1>4

OpenOf(v) == IF v.typ = "object" THEN J!ObjOpen ELSE J!ArrOpen

\* All members, from the opening bracket to the closing one.
LEMMA MembersAreRead ==
  ASSUME NEW v \in Members, IsNode(v), \A u \in Range(v.values) : IsRead(u),
         NEW b, IsSeq(b), NEW ro
  PROVE  \E m, l : /\ m # "colon" /\ l # J!Comma
                   /\ Leads(State(Append(b, J!Value(v.typ, 0)), ro, First(v), OpenOf(v)),
                            J!Separated(Parts(Write, v)), State(Append(b, v), ro, m, l))
  <1> DEFINE n == Len(v.values)
             texts == Parts(Write, v)
             r == State(Append(b, J!Value(v.typ, 0)), ro, First(v), OpenOf(v))
             q(i, t) == State(Append(b, Upto(v, i)), ro, "value", t)
  <1>1. n \in Nat /\ texts = [i \in 1..n |-> texts[i]] /\ \A i \in 1..n : texts[i] = Part(Write, v, i)
    BY ValuesOfMembers DEF Parts
  <1>2. \A i \in 1..n : IsRead(v.values[i])
    BY ValuesOfMembers
  <1>3. r = State(Append(b, Upto(v, 0)), ro, First(v), OpenOf(v))
    BY UptoEnds
  <1>4. q(n, 0) = State(Append(b, v), ro, "value", 0)
    BY UptoEnds
  <1>5. ASSUME NEW i \in 1..n, NEW l
        PROVE  \E t \in Ends : Leads(State(Append(b, Upto(v, i - 1)), ro, First(v), l), texts[i], q(i, t))
    <2>1. i \in 1..Len(v.values) /\ IsRead(v.values[i]) /\ texts[i] = Part(Write, v, i)
      BY <1>1, <1>2
    <2> HIDE DEF texts
    <2> QED
      BY <2>1, PartIsRead
  <1>6. \A i \in 1..n : texts[i] \in Seq(Nat)
    BY PartsAreTexts
  <1>7. CASE n = 0
    <2>1. J!Separated(texts) = <<>>
      BY <1>1, <1>7, Separates
    <2>2. Leads(r, <<>>, r)
      BY LeadsByNone
    <2>3. r = State(Append(b, v), ro, First(v), OpenOf(v))
      BY <1>7, UptoEnds
    <2>4. First(v) # "colon" /\ OpenOf(v) # J!Comma
      BY DEF First, OpenOf, J!ObjOpen, J!ArrOpen, J!Comma
    <2> HIDE DEF r, texts
    <2> QED
      BY <2>1, <2>2, <2>3, <2>4 DEF r, texts
  <1>8. CASE n > 0
    <2>1. PICK f : IsJoined(f, texts, n) /\ J!Separated(texts) = f[n]
      BY <1>1, <1>8, Separates
    <2> DEFINE C == {i \in 0..n : i > 0 => f[i] \in Seq(Nat) /\ \E t \in Ends : Leads(r, f[i], q(i, t))}
    <2> HIDE DEF r, q, n, texts
    <2>2. 0 \in C
      BY <1>1
    <2>3. ASSUME NEW i \in 0..n, i \in C, i < n PROVE i + 1 \in C
      <3>1. i + 1 \in 1..n /\ i + 1 \in 0..n /\ (i + 1) - 1 = i
        BY <1>1, <2>3
      <3>2. CASE i = 0
        <4>1. f[1] = texts[1] /\ 1 \in 1..n
          BY <2>1, <3>1, <3>2 DEF IsJoined
        <4>2. \E t \in Ends : Leads(State(Append(b, Upto(v, 1 - 1)), ro, First(v), OpenOf(v)), texts[1], q(1, t))
          BY <1>5, <4>1
        <4>3. 1 - 1 = 0
          OBVIOUS
        <4>4. \E t \in Ends : Leads(r, f[1], q(1, t))
          BY <1>3, <4>1, <4>2, <4>3
        <4>5. f[1] \in Seq(Nat)
          BY <1>6, <4>1
        <4> QED
          BY <3>1, <3>2, <4>4, <4>5
      <3>3. CASE i # 0
        <4>1. i + 1 \in 2..n /\ i > 0
          BY <1>1, <3>1, <3>3
        <4>2. f[i + 1] = f[i] \o (<<J!Comma>> \o texts[i + 1])
          BY <2>1, <3>1, <4>1 DEF IsJoined
        <4>3. f[i] \in Seq(Nat) /\ \E t \in Ends : Leads(r, f[i], q(i, t))
          BY <2>3, <4>1
        <4>4. PICK t \in Ends : Leads(r, f[i], q(i, t))
          BY <4>3
        <4> DEFINE p == State(Append(b, Upto(v, i)), ro, First(v), J!Comma)
        <4>5. After(q(i, t), J!Comma) = p
          <5>1. Upto(v, i).typ = v.typ /\ t # J!Comma /\ t # J!ArrOpen
            BY UptoType DEF Ends
          <5> DEFINE x == Upto(v, i)
          <5> HIDE DEF x
          <5>2. After(State(Append(b, x), ro, "value", t), J!Comma)
                  = State(Append(b, x), ro, IF x.typ = "object" THEN "name" ELSE "value", J!Comma)
            BY <5>1, AfterComma
          <5>3. (IF x.typ = "object" THEN "name" ELSE "value") = First(v)
            BY <5>1 DEF First, x
          <5> QED
            BY <5>2, <5>3 DEF q, x
        <4> HIDE DEF p
        <4>6. Leads(q(i, t), <<J!Comma>>, p)
          BY <4>5, LeadsByOne
        <4>7. \E u \in Ends : Leads(State(Append(b, Upto(v, (i + 1) - 1)), ro, First(v), J!Comma),
                                    texts[i + 1], q(i + 1, u))
          BY <1>5, <3>1
        <4>8. PICK u \in Ends : Leads(p, texts[i + 1], q(i + 1, u))
          BY <3>1, <4>7 DEF p
        <4>9. <<J!Comma>> \in Seq(Nat) /\ texts[i + 1] \in Seq(Nat)
          BY <1>6, <3>1 DEF J!Comma
        <4> DEFINE c == <<J!Comma>>
                   w == texts[i + 1]
        <4> HIDE DEF c, w
        <4>10. c \o w \in Seq(Nat) /\ Leads(q(i, t), c \o w, q(i + 1, u))
          BY <4>6, <4>8, <4>9, LeadsOn, ConcatProperties DEF c, w
        <4> DEFINE cw == c \o w
        <4> HIDE DEF cw
        <4>11. f[i] \o cw \in Seq(Nat) /\ Leads(r, f[i] \o cw, q(i + 1, u))
          BY <4>3, <4>4, <4>10, LeadsOn, ConcatProperties DEF cw
        <4>12. f[i + 1] \in Seq(Nat) /\ Leads(r, f[i + 1], q(i + 1, u))
          BY <4>2, <4>11 DEF cw, c, w
        <4> QED
          BY <3>1, <4>12
      <3> QED
        BY <3>2, <3>3
    <2> HIDE DEF C
    <2>4. n \in C
      <3>1. 0..n \subseteq C
        BY <1>1, <2>2, <2>3, BoundedInduction
      <3> QED
        BY <1>1, <3>1
    <2>5. PICK t \in Ends : Leads(r, f[n], q(n, t))
      BY <1>8, <2>4 DEF C
    <2>6. q(n, t) = State(Append(b, v), ro, "value", t)
      BY UptoEnds DEF q, n
    <2>7. t # J!Comma
      BY DEF Ends
    <2> QED
      BY <2>1, <2>5, <2>6, <2>7 DEF r, texts
  <1> QED
    BY <1>1, <1>7, <1>8

\* Between its brackets a value is read whole, and left.
LEMMA NodeText ==
  ASSUME NEW v \in Members, IsNode(v)
  PROVE  /\ Write[v] = <<OpenOf(v)>> \o J!Separated(Parts(Write, v)) \o <<CloseOf(v)>>
         /\ J!Separated(Parts(Write, v)) \in Seq(Nat)
  <1>1. Write[v] = <<OpenOf(v)>> \o J!Separated(Parts(Write, v)) \o <<CloseOf(v)>>
    BY WriteIsRecursive DEF WriteOf, IsNode, OpenOf, CloseOf
  <1> DEFINE n == Len(v.values)
             texts == Parts(Write, v)
  <1>2. n \in Nat /\ texts = [i \in 1..n |-> texts[i]]
    BY ValuesOfMembers DEF Parts
  <1>3. \A i \in 1..n : texts[i] \in Seq(Nat)
    BY PartsAreTexts
  <1> HIDE DEF n, texts
  <1>4. J!Separated(texts) \in Seq(Nat)
    <2>1. J!Comma \in Nat
      BY DEF J!Comma
    <2> QED
      BY <1>2, <1>3, <2>1, SeparatedType
  <1> QED
    BY <1>1, <1>4 DEF texts

\* A text in brackets.
LEMMA BracketsLead ==
  ASSUME NEW s \in Seq(Nat), NEW a \in Nat, NEW c \in Nat,
         NEW r0, NEW r1, NEW r2, NEW r3,
         After(r0, a) = r1, Leads(r1, s, r2), After(r2, c) = r3
  PROVE  Leads(r0, <<a>> \o s \o <<c>>, r3)
  <1> DEFINE x == <<a>>
             y == <<c>>
  <1>1. x \in Seq(Nat) /\ y \in Seq(Nat) /\ Leads(r0, x, r1) /\ Leads(r2, y, r3)
    BY LeadsByOne
  <1> HIDE DEF x, y
  <1>2. x \o s \in Seq(Nat) /\ Leads(r0, x \o s, r2)
    BY <1>1, LeadsOn, ConcatProperties
  <1> DEFINE xs == x \o s
  <1> HIDE DEF xs
  <1>3. Leads(r0, xs \o y, r3)
    BY <1>1, <1>2, LeadsOn DEF xs
  <1> QED
    BY <1>3 DEF xs, x, y

\* The bracket that opens v.
LEMMA AfterOpen ==
  ASSUME NEW v, IsNode(v), NEW s, NEW ro, NEW l
  PROVE  After(State(s, ro, "value", l), OpenOf(v))
           = State(Append(s, J!Value(v.typ, 0)), IF s = <<>> THEN J!Null ELSE ro, First(v), OpenOf(v))
  <1>1. CASE v.typ = "object"
    <2>1. After(State(s, ro, "value", l), J!ObjOpen)
            = State(Append(s, J!Value("object", 0)), IF s = <<>> THEN J!Null ELSE ro, "name", J!ObjOpen)
      BY AfterObjOpen
    <2> QED
      BY <1>1, <2>1 DEF OpenOf, First
  <1>2. CASE v.typ = "array"
    <2>1. After(State(s, ro, "value", l), J!ArrOpen)
            = State(Append(s, J!Value("array", 0)), IF s = <<>> THEN J!Null ELSE ro, "value", J!ArrOpen)
      BY AfterArrOpen
    <2> QED
      BY <1>2, <2>1 DEF OpenOf, First
  <1> QED
    BY <1>1, <1>2 DEF IsNode

\* A value is read as what it is when its members are.
LEMMA NodeIsRead ==
  ASSUME NEW v \in Members, IsNode(v), \A u \in Range(v.values) : IsRead(u)
  PROVE  IsRead(v)
  <1> SUFFICES ASSUME NEW b, NEW x, NEW ro, NEW l, IsSeq(b)
               PROVE  \E t \in Ends : Leads(State(Append(b, x), ro, "value", l), Write[v],
                                            State(Append(b, J!AddValue(x, v)), ro, "value", t))
    BY DEF IsRead
  <1> DEFINE s == Append(b, x)
             z == J!Separated(Parts(Write, v))
             r0 == State(s, ro, "value", l)
             r1 == State(Append(s, J!Value(v.typ, 0)), ro, First(v), OpenOf(v))
             t == CloseOf(v)
             r3 == State(Append(b, J!AddValue(x, v)), ro, "value", t)
  <1>1. IsSeq(s) /\ s # <<>>
    BY StackTop
  <1> HIDE DEF s
  <1>2. After(r0, OpenOf(v)) = r1
    BY <1>1, AfterOpen
  <1>3. PICK m, k : m # "colon" /\ k # J!Comma /\ Leads(r1, z, State(Append(s, v), ro, m, k))
    BY <1>1, MembersAreRead
  <1> DEFINE r2 == State(Append(s, v), ro, m, k)
  <1>4. After(r2, t) = r3
    BY <1>3, AfterClose DEF s
  <1>5. z \in Seq(Nat) /\ OpenOf(v) \in Nat /\ t \in Nat /\ t \in Ends
    <2>1. z \in Seq(Nat)
      BY NodeText
    <2>2. OpenOf(v) \in Nat /\ t \in Nat /\ t \in Ends
      BY DEF OpenOf, CloseOf, Ends, J!ObjOpen, J!ObjClose, J!ArrOpen, J!ArrClose, J!Comma
    <2> QED
      BY <2>1, <2>2
  <1>6. Leads(r1, z, r2)
    BY <1>3
  <1> HIDE DEF r0, r1, r2, r3, z, t
  <1> DEFINE o == OpenOf(v)
  <1> HIDE DEF o
  <1>7. Leads(r0, <<o>> \o z \o <<t>>, r3)
    BY <1>2, <1>4, <1>5, <1>6, BracketsLead DEF o
  <1>8. Write[v] = <<o>> \o z \o <<t>>
    BY NodeText DEF o, z, t
  <1> QED
    BY <1>5, <1>7, <1>8 DEF r0, r3, s, t

\* Every value is: one that was not would have a member that is not.
LEMMA AllAreRead == \A v \in Members : IsRead(v)
  <1> DEFINE S == {v \in Members : ~IsRead(v)}
  <1> SUFFICES ASSUME S # {} PROVE FALSE
    OBVIOUS
  <1>1. PICK v \in S : Range(v.values) \cap S = {}
    <2>1. S \in SUBSET Members
      OBVIOUS
    <2> HIDE DEF S
    <2> QED
      BY <2>1, TreeAssumption
  <1>2. v \in Members /\ ~IsRead(v)
    OBVIOUS
  <1>3. \A u \in Range(v.values) : IsRead(u)
    BY <1>1, <1>2, ValuesOfMembers
  <1> HIDE DEF S
  <1> QED
    BY <1>2, <1>3, NodeIsRead, AtomIsRead

\* What was written of an object or an array, read gives it back.
LEMMA ReadsWritten ==
  ASSUME NEW v \in Members, IsNode(v)
  PROVE  J!read(Write[v]).ok /\ J!read(Write[v]).value = v
  <1> DEFINE z == J!Separated(Parts(Write, v))
             r0 == State(Bottom, J!Null, "value", 0)
             r1 == State(Append(Bottom, J!Value(v.typ, 0)), J!Null, First(v), OpenOf(v))
             o == OpenOf(v)
             t == CloseOf(v)
             r3 == State(Bottom, v, "value", t)
  <1>1. \A u \in Range(v.values) : IsRead(u)
    BY AllAreRead, ValuesOfMembers
  <1>2. After(r0, o) = r1
    <2>1. After(r0, o) = State(Append(Bottom, J!Value(v.typ, 0)),
                               IF Bottom = <<>> THEN J!Null ELSE J!Null, First(v), OpenOf(v))
      BY AfterOpen
    <2> QED
      BY <2>1
  <1>3. PICK m, k : m # "colon" /\ k # J!Comma /\ Leads(r1, z, State(Append(Bottom, v), J!Null, m, k))
    BY <1>1, EmptyIsSeq, MembersAreRead
  <1> DEFINE r2 == State(Append(Bottom, v), J!Null, m, k)
  <1>4. After(r2, t) = r3
    <2>1. After(State(Append(<<>>, v), J!Null, m, k), CloseOf(v)) = State(<<>>, v, "value", CloseOf(v))
      BY <1>3, AfterLastClose
    <2> QED
      BY <2>1 DEF Bottom
  <1>5. z \in Seq(Nat) /\ o \in Nat /\ t \in Nat
    <2>1. z \in Seq(Nat)
      BY NodeText
    <2>2. o \in Nat /\ t \in Nat
      BY DEF OpenOf, CloseOf, J!ObjOpen, J!ObjClose, J!ArrOpen, J!ArrClose
    <2> QED
      BY <2>1, <2>2
  <1>6. Leads(r1, z, r2)
    BY <1>3
  <1>7. J!Start = r0
    BY StartState DEF Bottom
  <1> HIDE DEF r0, r1, r2, z, o
  <1>8. Leads(J!Start, <<o>> \o z \o <<t>>, r3)
    <2> HIDE DEF r3, t
    <2> QED
      BY <1>2, <1>4, <1>5, <1>6, <1>7, BracketsLead
  <1>9. Write[v] = <<o>> \o z \o <<t>>
    BY NodeText DEF o, z
  <1> DEFINE text == Write[v]
  <1> HIDE DEF t
  <1>10. text \in Seq(Nat)
    <2>1. text \in Seq(1..255)
      BY WrittenBytes
    <2>2. 1..255 \subseteq Nat
      OBVIOUS
    <2> QED
      BY <2>1, <2>2, SeqMonotonic
  <1>11. J!Run(text)[Len(text)] = r3
    <2>1. Leads(J!Start, text, r3)
      BY <1>8, <1>9
    <2> HIDE DEF text, r3
    <2> QED
      BY <1>10, <2>1, RunLeads
  <1> HIDE DEF text
  <1>12. J!read(text).ok /\ J!read(text).value = v
    BY <1>11, ReadClosed DEF Bottom
  <1> QED
    BY <1>12 DEF text
-----------------------------------------------------------------------------
(***************************************************************************)
(* The inductive invariant.                                                *)
(***************************************************************************)
\* The envelope that a command of the wallet is in, and an answer of the device.
CommandIsSealed ==
    step = "send" => \E iv \in IVs : sent = encryptAndEncodeCommand(Write[cmd], password, iv)

Sealed(a, iv) == Raw(CiphertextText, base64_encode(iv \o aesEncrypt(devicePassword, iv, Write[a])))

\* What waits for Decrypt: an envelope with the answer, an error that says so,
\* characters that are none, or the beginning of one of these.
AnswerIsSealed == whole /\ answer \in Answers /\ \E iv \in IVs : raw = Sealed(answer, iv)
NoAnswer == /\ whole /\ answer = J!Null
            /\ raw \in {Raw(InputErrorText, <<>>), Raw(ErrorText, <<>>), Raw(CiphertextText, <<Other>>)}
CutShort == /\ ~whole
            /\ \E text \in DeviceTexts : \E n \in 0..Len(text) - 1 :
                  raw = Raw(SubSeq(text, 1, n), raw.body)

RawIsKnown == step = "answer" => AnswerIsSealed \/ NoAnswer \/ CutShort

NothingYet == step \in {"send", "device"} => answer = J!Null /\ raw = NoRaw

AnswerIsKnown == answer \in Answers \cup {J!Null}

ExchangeInv == /\ TypeOK
               /\ CommandIsSealed
               /\ NothingYet
               /\ DeviceReadsCommand
               /\ RawIsKnown
               /\ StatusTellsText
               /\ OnlyGarbageOverreads
               /\ AnswerIsKnown
               /\ AnswerIsDelivered

\* What the assumptions say of the keys, the IVs and the values, and what is
\* proved of their texts.
LEMMA KeysAndTexts ==
  /\ Keys \subseteq Byte /\ IVs \subseteq [1..Block -> Byte]
  /\ \A v \in Members : Write[v] \in Seq(1..255) /\ Write[v] \in Seq(Byte)
  /\ Commands \subseteq Members /\ Answers \subseteq Members
  /\ Block \in 1..255
  /\ \A a \in Answers : a # J!Null
  <1>1. \A v \in Members : Write[v] \in Seq(1..255)
    BY WrittenBytes
  <1>2. ASSUME NEW s \in Seq(1..255) PROVE s \in Seq(Byte)
    <2>1. 1..255 \subseteq Byte
      BY DEF Byte
    <2> QED
      BY <2>1, SeqOfLarger
  <1>3. J!Null.typ # "object"
    BY DEF J!Null, J!Value
  <1> QED
    BY <1>1, <1>2, <1>3, ExchangeAssumption

\* The fields of an answer.
LEMMA RawFields ==
  ASSUME NEW text, NEW body
  PROVE  Raw(text, body).text = text /\ Raw(text, body).body = body
  BY DEF Raw

\* What the device makes of the command.
LEMMA DeviceDeciphers ==
  ASSUME NEW key \in Byte, NEW other \in Byte, NEW iv \in IVs, NEW v \in Members
  PROVE  LET bytes == BytesOf(encryptAndEncodeCommand(Write[v], key, iv))
             d == aesDecrypt(other, SubSeq(bytes, 1, Block), SubSeq(bytes, Block + 1, Len(bytes)))
             t == IF d.ok THEN SubSeq(d.stream, 1, Len(d.stream) - Last(d.stream)) ELSE <<>>
         IN  t \in Seq(Byte) /\ (key = other => t = Write[v])
  <1> DEFINE text == Write[v]
             c == aesEncrypt(key, iv, text)
             bytes == iv \o c
             d == aesDecrypt(other, iv, c)
             t == IF d.ok THEN SubSeq(d.stream, 1, Len(d.stream) - Last(d.stream)) ELSE <<>>
  <1>1. text \in Seq(Byte) /\ iv \in [1..Block -> Byte]
    BY KeysAndTexts
  <1> HIDE DEF text
  <1>2. /\ BytesOf(encryptAndEncodeCommand(text, key, iv)) = bytes
        /\ SubSeq(bytes, 1, Block) = iv
        /\ SubSeq(bytes, Block + 1, Len(bytes)) = c
        /\ c \in Seq(Byte)
    <2>1. /\ encryptAndEncodeCommand(text, key, iv) = base64_encode(bytes)
          /\ BytesOf(base64_encode(bytes)) = bytes
      BY <1>1, EnvelopeBytes, ZenonT(30)
    <2>2. SubSeq(bytes, 1, Block) = iv /\ SubSeq(bytes, Block + 1, Len(bytes)) = c
      BY <1>1, OpensSealed
    <2>3. c \in Seq(Byte)
      BY <1>1, OpenedText
    <2> QED
      BY <2>1, <2>2, <2>3
  <1>3. key = other => d.ok /\ SubSeq(d.stream, 1, Len(d.stream) - Last(d.stream)) = text
    <2> SUFFICES ASSUME key = other
                 PROVE  d.ok /\ SubSeq(d.stream, 1, Len(d.stream) - Last(d.stream)) = text
      OBVIOUS
    <2> QED
      BY <1>1, OpenedText
  <1> HIDE DEF c, bytes
  <1>4. d.ok => SubSeq(d.stream, 1, Len(d.stream) - Last(d.stream)) \in Seq(Byte)
    BY <1>1, <1>2, PaddingIsInStream
  <1> HIDE DEF d
  <1>5. t \in Seq(Byte) /\ (key = other => t = text)
    BY <1>3, <1>4
  <1> QED
    BY <1>2, <1>5 DEF text, d, t

\* What the wallet makes of an answer, under its own key and under another.
LEMMA WalletDeciphers ==
  ASSUME NEW key \in Byte, NEW other \in Byte, NEW iv \in IVs, NEW v \in Members
  PROVE  LET chars == base64_encode(iv \o aesEncrypt(key, iv, Write[v]))
             d == Deciphered(other, chars)
         IN  /\ Len(base64_decode(chars)) >= Block /\ Len(base64_decode(chars)) \in Nat
             /\ d.text \in Seq(Byte)
             /\ key = other => d.ok /\ d.text = Write[v]
  <1> DEFINE text == Write[v]
             c == aesEncrypt(key, iv, text)
             bytes == iv \o c
             d == aesDecrypt(other, iv, c)
             r == Deciphered(other, base64_encode(bytes))
  <1>1. text \in Seq(1..255) /\ text \in Seq(Byte) /\ iv \in [1..Block -> Byte]
    BY KeysAndTexts
  <1> HIDE DEF text
  <1>2. /\ base64_decode(base64_encode(bytes)) = bytes
        /\ SubSeq(bytes, 1, Block) = iv
        /\ SubSeq(bytes, Block + 1, Len(bytes)) = c
        /\ c \in Seq(Byte)
    BY <1>1, EnvelopeBytes
  <1>3. key = other => d.ok /\ SubSeq(d.stream, 1, Len(d.stream) - Last(d.stream)) = text
    <2> SUFFICES ASSUME key = other
                 PROVE  d.ok /\ SubSeq(d.stream, 1, Len(d.stream) - Last(d.stream)) = text
      OBVIOUS
    <2> QED
      BY <1>1, OpenedText
  <1> HIDE DEF c, bytes
  <1>4. d.ok => /\ Last(d.stream) \in 1..Block
                /\ SubSeq(d.stream, 1, Len(d.stream) - Last(d.stream)) \in Seq(Byte)
    BY <1>1, <1>2, PaddingIsInStream
  <1>5. Len(bytes) >= Block /\ Len(bytes) \in Nat
    <2>1. iv \in Seq(Byte) /\ Len(iv) = Block
      BY <1>1, ExchangeAssumption
    <2>2. c \in Seq(Byte) /\ Len(c) \in Nat
      BY <1>2, LenProperties
    <2>3. Len(bytes) = Len(iv) + Len(c)
      BY <2>1, <2>2, ConcatProperties DEF bytes
    <2> QED
      BY <2>1, <2>2, <2>3, ExchangeAssumption
  <1>6. r = IF d.ok
              THEN [ok |-> TRUE, text |-> CString(SubSeq(d.stream, 1, Len(d.stream) - Last(d.stream)))]
              ELSE Failed
    <2>1. r = IF Len(bytes) < Block \/ ~d.ok
                THEN Failed
                ELSE [ok |-> TRUE,
                      text |-> CString(SubSeq(d.stream, 1, Len(d.stream) - Last(d.stream)))]
      BY <1>2 DEF Deciphered
    <2>2. Len(bytes) \in Nat /\ Block \in Nat
      BY <1>5, ExchangeAssumption
    <2> HIDE DEF r, d
    <2> QED
      BY <1>5, <2>1, <2>2
  <1> HIDE DEF d, r
  <1>7. CASE d.ok
    <2>1. r.ok /\ r.text = CString(SubSeq(d.stream, 1, Len(d.stream) - Last(d.stream)))
      BY <1>6, <1>7
    <2>2. r.text \in Seq(Byte)
      BY <1>4, <1>7, <2>1, CStringOfBytes
    <2>3. key = other => r.text = text
      BY <1>1, <1>3, <2>1, TextIsCString
    <2> QED
      BY <1>2, <1>5, <2>1, <2>2, <2>3 DEF r, bytes, c, text
  <1>8. CASE ~d.ok
    <2>1. r.text = <<>>
      BY <1>6, <1>8 DEF Failed
    <2>2. r.text \in Seq(Byte)
      BY <2>1
    <2> QED
      BY <1>2, <1>3, <1>5, <1>8, <2>2 DEF r, bytes, c, text
  <1> QED
    BY <1>7, <1>8

\* Characters of which none is in the alphabet.
LEMMA NothingDeciphered ==
  ASSUME NEW key
  PROVE  Deciphered(key, <<Other>>) = Failed
  <1> DEFINE S == {i \in 0..Len(<<Other>>) : i = Len(<<Other>>) \/ <<Other>>[i + 1] \notin Sextet}
  <1>1. Min(S) = 0
    <2>1. Len(<<Other>>) = 1 /\ <<Other>>[0 + 1] \notin Sextet
      BY DEF Other, Sextet
    <2>2. S \subseteq 0..1 /\ 0 \in S
      BY <2>1
    <2>3. \A i \in 0..1 : i < 0 => i \notin S
      OBVIOUS
    <2> HIDE DEF S
    <2> QED
      BY <2>2, <2>3, FirstStop
  <1>2. Alphabetic(<<Other>>) = <<>>
    <2>1. Alphabetic(<<Other>>) = SubSeq(<<Other>>, 1, 0)
      BY <1>1 DEF Alphabetic
    <2>2. SubSeq(<<Other>>, 1, 0) = <<>>
      BY SubSeqEmpty
    <2> QED
      BY <2>1, <2>2
  <1>3. base64_decode(<<Other>>) = <<>>
    <2> DEFINE f(j) == Triple(<<>>, (j + 2) \div 3)[((j - 1) % 3) + 1]
               n == 3 * (Len(<<>>) \div 4) + (IF Len(<<>>) % 4 = 0 THEN 0 ELSE (Len(<<>>) % 4) - 1)
    <2>1. n = 0
      <3>1. Len(<<>>) = 0
        OBVIOUS
      <3>2. 3 * (0 \div 4) + (IF 0 % 4 = 0 THEN 0 ELSE (0 % 4) - 1) = 0
        OBVIOUS
      <3> QED
        BY <3>1, <3>2
    <2>2. base64_decode(<<Other>>) = [j \in 1..n |-> f(j)]
      BY <1>2 DEF base64_decode
    <2> HIDE DEF n, f
    <2>3. [j \in 1..0 |-> f(j)] = <<>>
      OBVIOUS
    <2> QED
      BY <2>1, <2>2, <2>3
  <1>4. Len(base64_decode(<<Other>>)) < Block
    BY <1>3, ExchangeAssumption
  <1> QED
    BY <1>4 DEF Deciphered
-----------------------------------------------------------------------------
(***************************************************************************)
(* Its steps.                                                              *)
(***************************************************************************)
LEMMA InitHolds == Init => ExchangeInv
  <1> SUFFICES ASSUME Init PROVE ExchangeInv
    OBVIOUS
  <1> USE DEF Init
  <1>1. TypeOK
    BY DEF TypeOK, NoRaw, Raw, Byte
  <1>2. CommandIsSealed /\ NothingYet /\ DeviceReadsCommand /\ RawIsKnown
    BY DEF CommandIsSealed, NothingYet, DeviceReadsCommand, RawIsKnown
  <1>3. StatusTellsText /\ OnlyGarbageOverreads
    BY DEF StatusTellsText, OnlyGarbageOverreads
  <1>4. AnswerIsKnown /\ AnswerIsDelivered
    BY DEF AnswerIsKnown, AnswerIsDelivered
  <1> QED
    BY <1>1, <1>2, <1>3, <1>4 DEF ExchangeInv

\* A command is sealed under the password of the session.
LEMMA EncryptKeeps == ExchangeInv /\ Encrypt => ExchangeInv'
  <1> SUFFICES ASSUME ExchangeInv, Encrypt PROVE ExchangeInv'
    OBVIOUS
  <1>1. PICK c \in Commands, iv \in IVs :
            cmd' = c /\ sent' = encryptAndEncodeCommand(Write[c], password, iv)
    BY DEF Encrypt
  <1>2. /\ step' = "send" /\ taken' = <<>> /\ answer' = J!Null /\ raw' = NoRaw /\ whole' = TRUE
        /\ UNCHANGED <<link, out, status, response>>
    BY DEF Encrypt
  <1>3. sent' \in Seq(Sextet \cup {Equals})
    <2>1. password \in Byte /\ iv \in [1..Block -> Byte] /\ Write[c] \in Seq(Byte)
      BY KeysAndTexts DEF ExchangeInv, TypeOK
    <2> DEFINE text == Write[c]
    <2> HIDE DEF text
    <2>2. encryptAndEncodeCommand(text, password, iv) \in Seq(Sextet \cup {Equals})
      BY <2>1, EnvelopeBytes DEF text
    <2> QED
      BY <1>1, <2>2 DEF text
  <1>4. TypeOK'
    BY <1>1, <1>2, <1>3 DEF ExchangeInv, TypeOK, link, NoRaw, Raw, Byte
  <1>5. CommandIsSealed'
    BY <1>1, <1>2 DEF CommandIsSealed, link
  <1>6. NothingYet' /\ DeviceReadsCommand' /\ RawIsKnown' /\ StatusTellsText' /\ OnlyGarbageOverreads'
    <2>1. (J!Null)' = J!Null /\ NoRaw' = NoRaw
      BY DEF J!Null, J!Value, NoRaw, Raw
    <2> QED
      BY <1>2, <2>1 DEF NothingYet, DeviceReadsCommand, RawIsKnown, StatusTellsText, OnlyGarbageOverreads
  <1>7. AnswerIsKnown' /\ AnswerIsDelivered'
    BY <1>2 DEF AnswerIsKnown, AnswerIsDelivered
  <1> QED
    BY <1>4, <1>5, <1>6, <1>7 DEF ExchangeInv

\* Without an answer the text is empty, as raw still is.
LEMMA SendFailsKeeps == ExchangeInv /\ SendFails => ExchangeInv'
  <1> SUFFICES ASSUME ExchangeInv, SendFails PROVE ExchangeInv'
    OBVIOUS
  <1>1. /\ step = "send" /\ out' = <<>> /\ status' = "ENCRYPTION_FAILED" /\ step' = "callback"
        /\ UNCHANGED <<password, devicePassword, cmd, sent, taken, answer, raw, whole>>
    BY DEF SendFails, link
  <1>2. TypeOK'
    BY <1>1 DEF ExchangeInv, TypeOK
  <1>3. CommandIsSealed' /\ NothingYet' /\ DeviceReadsCommand' /\ RawIsKnown' /\ OnlyGarbageOverreads'
    BY <1>1 DEF CommandIsSealed, NothingYet, DeviceReadsCommand, RawIsKnown, OnlyGarbageOverreads
  <1>4. StatusTellsText'
    <2>1. answer = J!Null /\ raw.text = <<>>
      BY <1>1 DEF ExchangeInv, NothingYet, NoRaw, Raw
    <2> QED
      BY <1>1, <2>1 DEF StatusTellsText
  <1>5. AnswerIsKnown' /\ AnswerIsDelivered'
    BY <1>1 DEF ExchangeInv, AnswerIsKnown, AnswerIsDelivered
  <1> QED
    BY <1>2, <1>3, <1>4, <1>5 DEF ExchangeInv

\* The device opens what was sealed.
LEMMA ReceiveKeeps == ExchangeInv /\ Receive => ExchangeInv'
  <1> SUFFICES ASSUME ExchangeInv, Receive PROVE ExchangeInv'
    OBVIOUS
  <1>1. /\ step = "send" /\ step' = "device"
        /\ UNCHANGED <<password, devicePassword, cmd, sent, answer, raw, whole, out, status>>
    BY DEF Receive, link
  <1>2. PICK iv \in IVs : sent = encryptAndEncodeCommand(Write[cmd], password, iv)
    BY <1>1 DEF ExchangeInv, CommandIsSealed
  <1>3. password \in Byte /\ devicePassword \in Byte /\ cmd \in Members
    BY KeysAndTexts DEF ExchangeInv, TypeOK
  <1>4. taken' \in Seq(Byte) /\ (password = devicePassword => taken' = Write[cmd])
    <2> DEFINE bytes == BytesOf(sent)
               d == aesDecrypt(devicePassword, SubSeq(bytes, 1, Block),
                               SubSeq(bytes, Block + 1, Len(bytes)))
               t == IF d.ok THEN SubSeq(d.stream, 1, Len(d.stream) - Last(d.stream)) ELSE <<>>
    <2>1. taken' = t
      BY DEF Receive
    <2>2. t \in Seq(Byte) /\ (password = devicePassword => t = Write[cmd])
      BY <1>2, <1>3, DeviceDeciphers
    <2> HIDE DEF t
    <2> QED
      BY <2>1, <2>2
  <1>5. TypeOK'
    BY <1>1, <1>4 DEF ExchangeInv, TypeOK
  <1>6. DeviceReadsCommand'
    BY <1>1, <1>4 DEF DeviceReadsCommand
  <1>7. CommandIsSealed' /\ NothingYet' /\ RawIsKnown' /\ StatusTellsText' /\ OnlyGarbageOverreads'
    BY <1>1 DEF ExchangeInv, CommandIsSealed, NothingYet, RawIsKnown, StatusTellsText, OnlyGarbageOverreads
  <1>8. AnswerIsKnown' /\ AnswerIsDelivered'
    BY <1>1 DEF ExchangeInv, AnswerIsKnown, AnswerIsDelivered
  <1> QED
    BY <1>5, <1>6, <1>7, <1>8 DEF ExchangeInv

\* The device's answer arrives whole, or cut.
LEMMA Replies ==
  ASSUME NEW text \in DeviceTexts, NEW body \in Seq(0..Other), Reply(Raw(text, body))
  PROVE  /\ raw'.text \in Seq(Byte) /\ raw'.body = body /\ whole' \in BOOLEAN
         /\ \/ whole' /\ raw' = Raw(text, body)
            \/ ~whole' /\ \E n \in 0..Len(text) - 1 : raw' = Raw(SubSeq(text, 1, n), body)
  <1>1. text \in Seq(Byte) /\ Len(text) \in Nat \ {0}
    <2>1. CASE text = CiphertextText
      BY <2>1, DeviceTextsAreTexts
    <2>2. CASE text = InputErrorText
      BY <2>2, DeviceTextsAreTexts
    <2>3. CASE text = ErrorText
      BY <2>3, DeviceTextsAreTexts
    <2> QED
      BY <2>1, <2>2, <2>3 DEF DeviceTexts
  <1>2. CASE raw' = Raw(text, body) /\ whole' = TRUE
    BY <1>1, <1>2, RawFields
  <1>3. CASE whole' = FALSE /\ \E n \in 0..Len(text) - 1 : raw' = Raw(SubSeq(text, 1, n), body)
    <2>1. PICK n \in 0..Len(text) - 1 : raw' = Raw(SubSeq(text, 1, n), body)
      BY <1>3
    <2>2. SubSeq(text, 1, n) \in Seq(Byte)
      <3>1. n \in Int /\ n <= Len(text)
        BY <1>1
      <3> QED
        BY <1>1, <3>1, SubSeqOfBytes
    <2>3. raw'.text = SubSeq(text, 1, n) /\ raw'.body = body
      BY <2>1, RawFields
    <2> QED
      BY <1>3, <2>2, <2>3
  <1>4. \/ raw' = Raw(text, body) /\ whole' = TRUE
        \/ whole' = FALSE /\ \E n \in 0..Len(text) - 1 : raw' = Raw(SubSeq(text, 1, n), body)
    BY DEF Reply, Raw
  <1> QED
    BY <1>2, <1>3, <1>4

\* It answers in one of the texts that RawIsKnown names.
LEMMA RespondKeeps == ExchangeInv /\ Respond => ExchangeInv'
  <1> SUFFICES ASSUME ExchangeInv, Respond PROVE ExchangeInv'
    OBVIOUS
  <1>1. /\ step = "device" /\ step' = "answer"
        /\ UNCHANGED <<password, devicePassword, cmd, sent, taken, out, status>>
    BY DEF Respond, link
  <1>2. answer = J!Null
    BY <1>1 DEF ExchangeInv, NothingYet
  <1>3. <<>> \in Seq(0..Other) /\ <<Other>> \in Seq(0..Other)
    BY DEF Other
  <1>4. /\ raw'.text \in Seq(Byte) /\ raw'.body \in Seq(0..Other) /\ whole' \in BOOLEAN
        /\ RawIsKnown'
    <2>1. CASE \E a \in Answers, iv \in IVs : answer' = a /\ Reply(Sealed(a, iv))
      <3>1. PICK a \in Answers, iv \in IVs : answer' = a /\ Reply(Sealed(a, iv))
        BY <2>1
      <3> DEFINE body == base64_encode(iv \o aesEncrypt(devicePassword, iv, Write[a]))
      <3>2. body \in Seq(0..Other)
        <4> DEFINE text == Write[a]
        <4>1. devicePassword \in Byte /\ iv \in [1..Block -> Byte] /\ text \in Seq(Byte)
          BY KeysAndTexts DEF ExchangeInv, TypeOK
        <4> HIDE DEF text
        <4> QED
          BY <4>1, EnvelopeBytes DEF text
      <3>3. Sealed(a, iv) = Raw(CiphertextText, body)
        BY DEF Sealed
      <3>4. Sealed(a, iv)' = Sealed(a, iv)
        BY <1>1 DEF Sealed
      <3> HIDE DEF body
      <3>5. /\ raw'.text \in Seq(Byte) /\ raw'.body = body /\ whole' \in BOOLEAN
            /\ \/ whole' /\ raw' = Raw(CiphertextText, body)
               \/ ~whole' /\ \E n \in 0..Len(CiphertextText) - 1 :
                                raw' = Raw(SubSeq(CiphertextText, 1, n), body)
        BY <3>1, <3>2, <3>3, Replies DEF DeviceTexts
      <3>6. RawIsKnown'
        <4>1. CASE whole' /\ raw' = Raw(CiphertextText, body)
          <5>1. AnswerIsSealed'
            BY <3>1, <3>3, <3>4, <4>1 DEF AnswerIsSealed
          <5> QED
            BY <5>1 DEF RawIsKnown
        <4>2. CASE ~whole' /\ \E n \in 0..Len(CiphertextText) - 1 :
                                raw' = Raw(SubSeq(CiphertextText, 1, n), body)
          BY <3>5, <4>2 DEF RawIsKnown, CutShort, DeviceTexts
        <4> QED
          BY <3>5, <4>1, <4>2
      <3> QED
        BY <3>2, <3>5, <3>6
    <2>2. ASSUME NEW text \in DeviceTexts, NEW body \in Seq(0..Other),
                 answer' = answer, Reply(Raw(text, body)),
                 Raw(text, body) \in {Raw(InputErrorText, <<>>), Raw(ErrorText, <<>>),
                                      Raw(CiphertextText, <<Other>>)}
          PROVE  /\ raw'.text \in Seq(Byte) /\ raw'.body \in Seq(0..Other) /\ whole' \in BOOLEAN
                 /\ RawIsKnown'
      <3>1. /\ raw'.text \in Seq(Byte) /\ raw'.body = body /\ whole' \in BOOLEAN
            /\ \/ whole' /\ raw' = Raw(text, body)
               \/ ~whole' /\ \E n \in 0..Len(text) - 1 : raw' = Raw(SubSeq(text, 1, n), body)
        BY <2>2, Replies
      <3>2. RawIsKnown'
        <4>1. CASE whole' /\ raw' = Raw(text, body)
          BY <1>2, <2>2, <4>1 DEF RawIsKnown, NoAnswer
        <4>2. CASE ~whole' /\ \E n \in 0..Len(text) - 1 : raw' = Raw(SubSeq(text, 1, n), body)
          BY <3>1, <4>2 DEF RawIsKnown, CutShort
        <4> QED
          BY <3>1, <4>1, <4>2
      <3> QED
        BY <3>1, <3>2
    <2>3. \/ \E a \in Answers, iv \in IVs : answer' = a /\ Reply(Sealed(a, iv))
          \/ answer' = answer /\ Reply(Raw(InputErrorText, <<>>))
          \/ answer' = answer /\ Reply(Raw(ErrorText, <<>>))
          \/ answer' = answer /\ Reply(Raw(CiphertextText, <<Other>>))
      BY DEF Respond, Sealed
    <2>4. CASE answer' = answer /\ Reply(Raw(InputErrorText, <<>>))
      BY <1>3, <2>2, <2>4 DEF DeviceTexts
    <2>5. CASE answer' = answer /\ Reply(Raw(ErrorText, <<>>))
      BY <1>3, <2>2, <2>5 DEF DeviceTexts
    <2>6. CASE answer' = answer /\ Reply(Raw(CiphertextText, <<Other>>))
      BY <1>3, <2>2, <2>6 DEF DeviceTexts
    <2> QED
      BY <2>1, <2>3, <2>4, <2>5, <2>6
  <1>5. TypeOK'
    BY <1>1, <1>4 DEF ExchangeInv, TypeOK
  <1>6. CommandIsSealed' /\ NothingYet' /\ DeviceReadsCommand' /\ StatusTellsText' /\ OnlyGarbageOverreads'
    BY <1>1 DEF CommandIsSealed, NothingYet, DeviceReadsCommand, StatusTellsText, OnlyGarbageOverreads
  <1>7. AnswerIsDelivered'
    BY <1>1 DEF AnswerIsDelivered
  <1>8. AnswerIsKnown'
    <2>1. answer' \in Answers \/ answer' = answer
      BY DEF Respond
    <2> QED
      BY <1>2, <2>1 DEF AnswerIsKnown
  <1> QED
    BY <1>4, <1>5, <1>6, <1>7, <1>8 DEF ExchangeInv

\* What decryptAndDecodeCommand gives of each of them.
LEMMA Decrypted ==
  ASSUME TypeOK, RawIsKnown, step = "answer"
  PROVE  LET d == decryptAndDecodeCommand(raw, password)
         IN  /\ d.ok => whole /\ answer # J!Null
             /\ d.ok => d.text \in Seq(Byte)
             /\ password = devicePassword /\ whole /\ answer # J!Null
                  => d.ok /\ d.text = Write[answer]
  <1> DEFINE d == decryptAndDecodeCommand(raw, password)
  <1>1. password \in Byte /\ devicePassword \in Byte
    BY KeysAndTexts DEF TypeOK
  <1>2. Failed.ok = FALSE
    BY DEF Failed
  <1>3. CASE AnswerIsSealed
    <2>1. PICK iv \in IVs : raw = Sealed(answer, iv)
      BY <1>3 DEF AnswerIsSealed
    <2>2. whole /\ answer # J!Null /\ answer \in Members
      BY <1>3, KeysAndTexts DEF AnswerIsSealed
    <2> DEFINE body == base64_encode(iv \o aesEncrypt(devicePassword, iv, Write[answer]))
               e == Deciphered(password, body)
    <2>3. d = e
      BY <2>1, Envelope DEF Sealed
    <2>4. /\ e.text \in Seq(Byte)
          /\ devicePassword = password => e.ok /\ e.text = Write[answer]
      BY <1>1, <2>2, WalletDeciphers
    <2> HIDE DEF d, e
    <2> QED
      BY <2>2, <2>3, <2>4 DEF d
  <1>4. CASE NoAnswer
    <2>1. d = Failed
      <3>1. CASE raw = Raw(InputErrorText, <<>>) \/ raw = Raw(ErrorText, <<>>)
        BY <3>1, DeviceError
      <3>2. CASE raw = Raw(CiphertextText, <<Other>>)
        BY <3>2, Envelope, NothingDeciphered
      <3> QED
        BY <1>4, <3>1, <3>2 DEF NoAnswer
    <2>2. answer = J!Null
      BY <1>4 DEF NoAnswer
    <2> HIDE DEF d
    <2> QED
      BY <1>2, <2>1, <2>2 DEF d
  <1>5. CASE CutShort
    <2>1. d = Failed
      <3>1. PICK text \in DeviceTexts : \E n \in 0..Len(text) - 1 :
                raw = Raw(SubSeq(text, 1, n), raw.body)
        BY <1>5 DEF CutShort
      <3>2. PICK n \in 0..Len(text) - 1 : raw = Raw(SubSeq(text, 1, n), raw.body)
        BY <3>1
      <3> DEFINE body == raw.body
      <3> HIDE DEF body
      <3>3. decryptAndDecodeCommand(Raw(SubSeq(text, 1, n), body), password) = Failed
        BY CutAnswer
      <3> QED
        BY <3>2, <3>3 DEF body
    <2>2. ~whole
      BY <1>5 DEF CutShort
    <2> HIDE DEF d
    <2> QED
      BY <1>2, <2>1, <2>2 DEF d
  <1> QED
    BY <1>3, <1>4, <1>5 DEF RawIsKnown

\* The status says whether decryption succeeded.
LEMMA DecryptKeeps == ExchangeInv /\ Decrypt => ExchangeInv'
  <1> SUFFICES ASSUME ExchangeInv, Decrypt PROVE ExchangeInv'
    OBVIOUS
  <1> DEFINE d == decryptAndDecodeCommand(raw, password)
  <1>1. /\ step = "answer" /\ step' = "callback"
        /\ UNCHANGED <<password, devicePassword, cmd, sent, taken, answer, raw, whole>>
    BY DEF Decrypt, link
  <1>2. IF d.ok THEN out' = d.text /\ status' = "OK"
                ELSE out' = raw.text /\ status' = "ENCRYPTION_FAILED"
    BY DEF Decrypt
  <1>3. /\ d.ok => whole /\ answer # J!Null
        /\ d.ok => d.text \in Seq(Byte)
        /\ password = devicePassword /\ whole /\ answer # J!Null
             => d.ok /\ d.text = Write[answer]
    BY <1>1, Decrypted DEF ExchangeInv
  <1> HIDE DEF d
  <1>4. TypeOK'
    <2>1. out' \in Seq(Byte) /\ status' \in {"OK", "ENCRYPTION_FAILED"}
      BY <1>2, <1>3 DEF ExchangeInv, TypeOK
    <2> QED
      BY <1>1, <1>3, <2>1 DEF ExchangeInv, TypeOK
  <1>5. StatusTellsText'
    BY <1>1, <1>2, <1>3 DEF StatusTellsText
  <1>6. OnlyGarbageOverreads'
    BY <1>1 DEF OnlyGarbageOverreads
  <1>7. CommandIsSealed' /\ NothingYet' /\ DeviceReadsCommand' /\ RawIsKnown'
    BY <1>1 DEF CommandIsSealed, NothingYet, DeviceReadsCommand, RawIsKnown
  <1>8. AnswerIsKnown' /\ AnswerIsDelivered'
    BY <1>1 DEF ExchangeInv, AnswerIsKnown, AnswerIsDelivered
  <1> QED
    BY <1>4, <1>5, <1>6, <1>7, <1>8 DEF ExchangeInv

\* What a device has sealed is not too short, and what was cut has no ciphertext.
LEMMA OverreadKeeps == ExchangeInv /\ Overread => ExchangeInv'
  <1> SUFFICES ASSUME ExchangeInv, Overread PROVE ExchangeInv'
    OBVIOUS
  <1>1. /\ step = "answer" /\ step' = "crashed" /\ TooShort(raw)
        /\ UNCHANGED <<password, devicePassword, cmd, sent, taken, answer, raw, whole, out,
                       status, response>>
    BY DEF Overread, link
  <1>2. ~AnswerIsSealed
    <2> SUFFICES ASSUME AnswerIsSealed PROVE FALSE
      OBVIOUS
    <2>1. PICK iv \in IVs : raw = Sealed(answer, iv)
      BY DEF AnswerIsSealed
    <2> DEFINE chars == base64_encode(iv \o aesEncrypt(devicePassword, iv, Write[answer]))
    <2>2. raw.body = chars
      BY <2>1, RawFields DEF Sealed
    <2>3. Len(base64_decode(chars)) >= Block /\ Len(base64_decode(chars)) \in Nat
      <3>1. devicePassword \in Byte /\ answer \in Members
        BY KeysAndTexts DEF AnswerIsSealed, ExchangeInv, TypeOK
      <3> QED
        BY <3>1, WalletDeciphers
    <2> HIDE DEF chars
    <2>4. Len(base64_decode(chars)) < Block
      BY <1>1, <2>2 DEF TooShort
    <2> QED
      BY <2>3, <2>4, ExchangeAssumption
  <1>3. ~CutShort
    <2> SUFFICES ASSUME CutShort PROVE FALSE
      OBVIOUS
    <2>1. PICK text \in DeviceTexts : \E n \in 0..Len(text) - 1 :
              raw = Raw(SubSeq(text, 1, n), raw.body)
      BY DEF CutShort
    <2>2. PICK n \in 0..Len(text) - 1 : raw = Raw(SubSeq(text, 1, n), raw.body)
      BY <2>1
    <2> DEFINE body == raw.body
    <2> HIDE DEF body
    <2>3. ~HasCiphertext(Raw(SubSeq(text, 1, n), body))
      BY CutAnswer
    <2> QED
      BY <1>1, <2>2, <2>3 DEF TooShort, body
  <1>4. OnlyGarbageOverreads'
    BY <1>1, <1>2, <1>3 DEF ExchangeInv, RawIsKnown, NoAnswer, OnlyGarbageOverreads
  <1>5. TypeOK'
    BY <1>1 DEF ExchangeInv, TypeOK
  <1>6. /\ CommandIsSealed' /\ NothingYet' /\ DeviceReadsCommand' /\ RawIsKnown'
        /\ StatusTellsText' /\ AnswerIsDelivered'
    BY <1>1 DEF CommandIsSealed, NothingYet, DeviceReadsCommand, RawIsKnown, StatusTellsText,
                AnswerIsDelivered
  <1>7. AnswerIsKnown'
    BY <1>1 DEF ExchangeInv, AnswerIsKnown
  <1> QED
    BY <1>4, <1>5, <1>6, <1>7 DEF ExchangeInv

\* The text of an answer is read as the answer.
LEMMA CallbackKeeps == ExchangeInv /\ Callback => ExchangeInv'
  <1> SUFFICES ASSUME ExchangeInv, Callback PROVE ExchangeInv'
    OBVIOUS
  <1>1. /\ step = "callback" /\ step' = "idle"
        /\ UNCHANGED <<password, devicePassword, cmd, sent, taken, answer, raw, whole, out, status>>
    BY DEF Callback, link
  <1>2. TypeOK'
    BY <1>1 DEF ExchangeInv, TypeOK
  <1>3. CommandIsSealed' /\ NothingYet' /\ DeviceReadsCommand' /\ RawIsKnown'
    BY <1>1 DEF CommandIsSealed, NothingYet, DeviceReadsCommand, RawIsKnown
  <1>4. StatusTellsText' /\ OnlyGarbageOverreads'
    BY <1>1 DEF StatusTellsText, OnlyGarbageOverreads
  <1>5. AnswerIsKnown'
    BY <1>1 DEF ExchangeInv, AnswerIsKnown
  <1>6. AnswerIsDelivered'
    <2> SUFFICES ASSUME password = devicePassword, answer # J!Null, whole
                 PROVE  response' = answer
      BY <1>1 DEF AnswerIsDelivered
    <2>1. out = Write[answer]
      BY <1>1 DEF ExchangeInv, StatusTellsText
    <2>2. answer \in Members /\ IsNode(answer)
      BY ExchangeAssumption DEF ExchangeInv, AnswerIsKnown, IsNode
    <2>3. J!read(Write[answer]).value = answer
      BY <2>2, ReadsWritten
    <2> QED
      BY <2>1, <2>3 DEF Callback
  <1> QED
    BY <1>2, <1>3, <1>4, <1>5, <1>6 DEF ExchangeInv

\* Every state satisfies the invariant.
THEOREM Invariant == Spec => []ExchangeInv
  <1>1. ExchangeInv /\ [Next]_vars => ExchangeInv'
    <2> SUFFICES ASSUME ExchangeInv, [Next]_vars PROVE ExchangeInv'
      OBVIOUS
    <2>1. CASE Next /\ ~Crashed
      BY <2>1, EncryptKeeps, SendFailsKeeps, ReceiveKeeps, RespondKeeps, DecryptKeeps,
         CallbackKeeps, OverreadKeeps DEF Next
    <2>2. CASE UNCHANGED vars
      <3>1. TypeOK'
        BY <2>2 DEF vars, link, ExchangeInv, TypeOK
      <3>2. CommandIsSealed' /\ NothingYet' /\ DeviceReadsCommand'
        BY <2>2 DEF vars, link, ExchangeInv, CommandIsSealed, NothingYet, DeviceReadsCommand
      <3>3. RawIsKnown'
        BY <2>2 DEF vars, link, ExchangeInv, RawIsKnown, AnswerIsSealed, NoAnswer, CutShort, Sealed
      <3>4. StatusTellsText' /\ OnlyGarbageOverreads'
        BY <2>2 DEF vars, link, ExchangeInv, StatusTellsText, OnlyGarbageOverreads
      <3>5. AnswerIsKnown' /\ AnswerIsDelivered'
        BY <2>2 DEF vars, link, ExchangeInv, AnswerIsKnown, AnswerIsDelivered
      <3> QED
        BY <3>1, <3>2, <3>3, <3>4, <3>5 DEF ExchangeInv
    <2> QED
      BY <2>1, <2>2 DEF Crashed
  <1> QED
    BY InitHolds, <1>1, PTL DEF Spec
-----------------------------------------------------------------------------
(***************************************************************************)
(* The theorems.                                                           *)
(***************************************************************************)
\* The texts on their way have their types: what goes to the device is of the
\* base64 alphabet, and everything else is bytes.
THEOREM TypeCorrect == Spec => []TypeOK
  <1>1. ExchangeInv => TypeOK
    BY DEF ExchangeInv
  <1> QED
    BY <1>1, Invariant, PTL

\* A device that has the password of the session reads the command that was
\* posted, for every command, IV and block length.
THEOREM DeviceReads == Spec => []DeviceReadsCommand
  <1>1. ExchangeInv => DeviceReadsCommand
    BY DEF ExchangeInv
  <1> QED
    BY <1>1, Invariant, PTL

\* Its answer, if it is not cut, reaches the window as the value that it sent.
THEOREM AnswerDelivered == Spec => []AnswerIsDelivered
  <1>1. ExchangeInv => AnswerIsDelivered
    BY DEF ExchangeInv
  <1> QED
    BY <1>1, Invariant, PTL

\* The status that the callback is given tells what its text is.
THEOREM StatusTells == Spec => []StatusTellsText
  <1>1. ExchangeInv => StatusTellsText
    BY DEF ExchangeInv
  <1> QED
    BY <1>1, Invariant, PTL

\* The bytes run out only for an answer that carries none: what a device seals,
\* with whatever password, and what is left of a cut answer never read behind
\* their end.
THEOREM GarbageOverreads == Spec => []OnlyGarbageOverreads
  <1>1. ExchangeInv => OnlyGarbageOverreads
    BY DEF ExchangeInv
  <1> QED
    BY <1>1, Invariant, PTL
=============================================================================

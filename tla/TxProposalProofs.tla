-------------------------- MODULE TxProposalProofs --------------------------
(***************************************************************************)
(* Proofs about TxProposal: what is signed and where it is posted, for any *)
(* proposals and any number of rounds.                                     *)
(*                                                                         *)
(* SignatureGoesHome looks at what was posted only.  The invariant says of *)
(* a command, of an event and of what was posted that the hash is the      *)
(* first of the proposal it travels with; what this hash is follows from   *)
(* the definitions of ParseTxProposal.                                     *)
(***************************************************************************)
EXTENDS TxProposal, Induction, FiniteSetTheorems, SequenceTheorems, TLAPS

Paths == {i.path : i \in UNION {ToSet(p.inputs) : p \in Proposals}}
Hashes == {h.hash : h \in UNION {ToSet(InputTxHashes(p)) : p \in Proposals}}
Event == [proposal : Proposals, sig : Signatures, path : Paths, hash : Hashes]

\* The path and the hash are the first that the proposal has.
Own(c) == /\ c.path = InputTxHashes(c.proposal)[1].path
          /\ c.hash = InputTxHashes(c.proposal)[1].hash

OwnCommand == {c \in Command : Own(c)}
OwnEvent == {e \in Event : Own(e)}

ControlInv == /\ pc \in {"idle", "ask", "dead"}
              /\ clicks \in 0..MaxClicks
              /\ busy \in BOOLEAN
FetchedInv == values \in Replies /\ (pc = "ask" => values # <<>>)
QueueInv == queue \in Seq(OwnCommand)
EventInv == events \in Seq(OwnEvent)
PostedInv == \A m \in posted : \E e \in OwnEvent :
                /\ m.id = e.proposal.id /\ m.hash = e.hash
                /\ m.sig = e.sig /\ m.der = ecdsa_sig_to_der(e.sig)

IInv == ControlInv /\ FetchedInv /\ QueueInv /\ EventInv /\ PostedInv
-----------------------------------------------------------------------------
(***************************************************************************)
(* What is fetched.                                                        *)
(***************************************************************************)
LEMMA RepliesAreSequences == Replies \subseteq Seq(Proposals)
  <1>1. SUFFICES ASSUME NEW S \in SUBSET Proposals, NEW r \in SetToSeqs(S)
                 PROVE  r \in Seq(Proposals)
    BY DEF Replies
  <1>2. Cardinality(S) \in Nat
    BY ProposalAssumption, FS_Subset, FS_CardinalityType
  <1>3. r \in [1..Cardinality(S) -> S]
    BY DEF SetToSeqs
  <1> QED
    BY <1>2, <1>3

LEMMA EmptyReply == <<>> \in Replies
  <1>1. Cardinality({}) = 0
    BY FS_EmptySet
  <1>2. <<>> \in SetToSeqs({})
    BY <1>1 DEF SetToSeqs
  <1> QED
    BY <1>2 DEF Replies

(***************************************************************************)
(* ParseTxProposal.                                                        *)
(***************************************************************************)
LEMMA FirstInput ==
  ASSUME NEW p \in Proposals
  PROVE  /\ p.inputs \in Seq(Range(p.inputs))
         /\ 1 \in DOMAIN p.inputs
         /\ DOMAIN p.inputs = 1..Len(p.inputs)
         /\ Len(p.inputs) \in Nat
  BY ProposalAssumption DEF IsProposal

\* The first hash of a proposal: the script of its first input, in the
\* transaction of the proposal.
LEMMA FirstHash ==
  ASSUME NEW p \in Proposals
  PROVE  LET h == InputTxHashes(p)[1]
         IN  /\ h \in ToSet(InputTxHashes(p))
             /\ h.path = p.inputs[1].path
             /\ h.hash = SignatureHash(RedeemScript(p, p.inputs[1]), Tx(p), 1)
             /\ h.hash.tx = Tx(p)
  BY FirstInput DEF InputTxHashes, SignatureHash, ToSet

LEMMA OwnTypes ==
  ASSUME NEW p \in Proposals
  PROVE  InputTxHashes(p)[1].path \in Paths /\ InputTxHashes(p)[1].hash \in Hashes
  <1>1. p.inputs[1] \in ToSet(p.inputs)
    BY FirstInput DEF ToSet
  <1> QED
    BY <1>1, FirstHash DEF Paths, Hashes

LEMMA OwnTx ==
  ASSUME NEW c, c.proposal \in Proposals, Own(c)
  PROVE  c.hash.tx = Tx(c.proposal)
  BY FirstHash DEF Own

\* With a single input the order of the inputs does not matter.
LEMMA SingleInput ==
  ASSUME NEW p \in Proposals, Len(p.inputs) = 1
  PROVE  /\ Vin(p)[1] = p.inputs[1].txid
         /\ InTotal(p) = p.inputs[1].satoshis
  <1> DEFINE ids == [k \in DOMAIN p.inputs |-> p.inputs[k].txid]
  <1>1. ids \in Seq({p.inputs[1].txid}) /\ Len(ids) = 1
    BY FirstInput
  <1>2. Reverse(ids)[1] = p.inputs[1].txid
    <2>1. ids[1] = p.inputs[1].txid
      BY FirstInput
    <2> HIDE DEF ids
    <2> QED
      BY <1>1, <2>1 DEF Reverse
  <1>3. Last(p.inputs) = p.inputs[1]
    BY DEF Last
  <1> QED
    BY <1>2, <1>3 DEF Vin, InTotal
-----------------------------------------------------------------------------
(***************************************************************************)
(* The encoding of a signature.                                            *)
(***************************************************************************)
\* The values of the first n bytes, for each n.
PrefixValues(bytes, N) == {v \in [0..N -> Nat] :
                               /\ v[0] = 0
                               /\ \A n \in 1..N : v[n] = 256 * v[n - 1] + bytes[n]}

\* What Value computes, byte by byte.
LEMMA ValueByBytes ==
  ASSUME NEW bytes \in Seq(Nat)
  PROVE  \E v \in PrefixValues(bytes, Len(bytes)) : Value(bytes) = v[Len(bytes)]
  <1> DEFINE N == Len(bytes)
             rec(v) == v = [n \in 0..N |-> IF n = 0 THEN 0 ELSE 256 * v[n - 1] + bytes[n]]
             upto(v, k) == /\ v[0] = 0
                           /\ \A n \in 1..k : v[n] = 256 * v[n - 1] + bytes[n]
             S == {k \in 0..N : \E v \in [0..N -> Nat] : upto(v, k)}
  <1>0. N \in Nat /\ bytes \in [1..N -> Nat]
    BY LenProperties
  <1> HIDE DEF N
  <1>1. 0 \in S
    <2>1. [n \in 0..N |-> 0] \in [0..N -> Nat] /\ [n \in 0..N |-> 0][0] = 0
      BY <1>0
    <2>2. 0 \in 0..N /\ 1..0 = {}
      BY <1>0
    <2>3. PICK v \in [0..N -> Nat] : v[0] = 0
      BY <2>1
    <2> QED
      BY <2>2, <2>3
  <1>2. ASSUME NEW k \in 0..N, k \in S, k < N
        PROVE  k + 1 \in S
    <2>1. PICK v \in [0..N -> Nat] : upto(v, k)
      BY <1>2
    <2> DEFINE w == [v EXCEPT ![k + 1] = 256 * v[k] + bytes[k + 1]]
    <2>2. bytes[k + 1] \in Nat /\ v[k] \in Nat
      <3>1. k + 1 \in 1..N /\ k \in 0..N
        BY <1>0, <1>2
      <3> QED
        BY <1>0, <3>1
    <2>3. w \in [0..N -> Nat]
      <3>1. 256 * v[k] + bytes[k + 1] \in Nat
        BY <2>2
      <3> QED
        BY <3>1
    <2>4. /\ w[k + 1] = 256 * v[k] + bytes[k + 1]
          /\ \A n \in 0..k : w[n] = v[n]
      BY <1>0, <1>2
    <2> HIDE DEF w
    <2>5. upto(w, k + 1)
      <3>1. w[0] = 0
        BY <1>2, <2>1, <2>4
      <3>2. ASSUME NEW n \in 1..k + 1 PROVE w[n] = 256 * w[n - 1] + bytes[n]
        <4>1. CASE n = k + 1
          BY <1>2, <2>4, <4>1
        <4>2. CASE n \in 1..k
          <5>1. n \in 0..k /\ n - 1 \in 0..k
            BY <1>2, <4>2
          <5>2. w[n] = v[n] /\ w[n - 1] = v[n - 1] /\ v[n] = 256 * v[n - 1] + bytes[n]
            BY <2>1, <2>4, <4>2, <5>1
          <5> QED
            BY <5>2
        <4> QED
          BY <1>2, <4>1, <4>2
      <3> QED
        BY <3>1, <3>2
    <2>6. k + 1 \in 0..N
      BY <1>0, <1>2
    <2> QED
      BY <2>3, <2>5, <2>6
  <1>3. N \in S
    <2> HIDE DEF S
    <2>1. 0..N \subseteq S
      BY <1>0, <1>1, <1>2, BoundedInduction
    <2> QED
      BY <1>0, <2>1
  <1>4. PICK v \in [0..N -> Nat] : upto(v, N)
    BY <1>3
  <1>5. rec(v)
    BY <1>0, <1>4
  <1> DEFINE f == CHOOSE u : rec(u)
  <1>6. rec(f)
    BY <1>5
  <1>7. Value(bytes) = f[N]
    BY DEF Value, N
  <1> HIDE DEF f
  <1>8. f[0] = 0 /\ \A n \in 1..N : f[n] = 256 * f[n - 1] + bytes[n]
    <2>1. \A n \in 0..N : f[n] = IF n = 0 THEN 0 ELSE 256 * f[n - 1] + bytes[n]
      BY <1>6
    <2> QED
      BY <1>0, <2>1
  <1>9. f \in [0..N -> Nat]
    <2> DEFINE T == {n \in 0..N : f[n] \in Nat}
    <2>1. 0 \in T
      BY <1>0, <1>8
    <2>2. ASSUME NEW n \in 0..N, n \in T, n < N
          PROVE  n + 1 \in T
      <3>1. f[n + 1] = 256 * f[n] + bytes[n + 1] /\ bytes[n + 1] \in Nat
        BY <1>0, <1>8, <2>2
      <3> QED
        BY <1>0, <2>2, <3>1
    <2>3. 0..N \subseteq T
      <3> HIDE DEF T
      <3> QED
        BY <1>0, <2>1, <2>2, BoundedInduction
    <2> QED
      BY <1>6, <2>3
  <1> QED
    BY <1>7, <1>8, <1>9 DEF PrefixValues, N

\* Zeroes in front do not count.
LEMMA LeadingZeroes ==
  ASSUME NEW a \in Seq(Nat), NEW b \in Seq(Nat), NEW z \in Nat,
         Len(a) = z + Len(b),
         \A i \in 1..z : a[i] = 0,
         \A i \in 1..Len(b) : a[z + i] = b[i]
  PROVE  Value(a) = Value(b)
  <1> DEFINE M == Len(b)
  <1>0. M \in Nat /\ M \in 0..M /\ b \in [1..M -> Nat] /\ a \in [1..z + M -> Nat]
    BY LenProperties
  <1>00. Len(b) = M /\ Len(a) = z + M
    OBVIOUS
  <1> HIDE DEF M
  <1>1. PICK v \in PrefixValues(a, Len(a)) : Value(a) = v[Len(a)]
    BY ValueByBytes
  <1>2. PICK w \in PrefixValues(b, Len(b)) : Value(b) = w[Len(b)]
    BY ValueByBytes
  <1>3. /\ v \in [0..z + M -> Nat] /\ Value(a) = v[z + M] /\ v[0] = 0
        /\ \A n \in 1..z + M : v[n] = 256 * v[n - 1] + a[n]
    BY <1>00, <1>1 DEF PrefixValues
  <1>4. /\ w \in [0..M -> Nat] /\ Value(b) = w[M] /\ w[0] = 0
        /\ \A n \in 1..M : w[n] = 256 * w[n - 1] + b[n]
    BY <1>00, <1>2 DEF PrefixValues
  <1> DEFINE S == {n \in 0..z : v[n] = 0}
             T == {n \in 0..M : v[z + n] = w[n]}
  <1>5. v[z] = 0
    <2>1. 0 \in S
      BY <1>3
    <2>2. ASSUME NEW n \in 0..z, n \in S, n < z PROVE n + 1 \in S
      <3>0. n + 1 \in 1..z /\ n + 1 \in 1..z + M /\ (n + 1) - 1 = n /\ n + 1 \in 0..z
        BY <1>0, <2>2
      <3>1. v[n + 1] = 256 * v[n] + a[n + 1] /\ a[n + 1] = 0 /\ v[n] = 0
        <4>1. v[n + 1] = 256 * v[(n + 1) - 1] + a[n + 1]
          BY <1>3, <3>0
        <4> QED
          BY <2>2, <3>0, <4>1
      <3>2. v[n + 1] = 0
        BY <3>1
      <3> QED
        BY <3>0, <3>2
    <2> HIDE DEF S
    <2>3. 0..z \subseteq S
      BY <2>1, <2>2, BoundedInduction
    <2> QED
      BY <2>3 DEF S
  <1>6. v[z + M] = w[M]
    <2>1. 0 \in T
      BY <1>0, <1>4, <1>5
    <2>2. ASSUME NEW n \in 0..M, n \in T, n < M PROVE n + 1 \in T
      <3>0. /\ n + 1 \in 1..M /\ z + (n + 1) \in 1..z + M /\ n + 1 \in 0..M
            /\ (n + 1) - 1 = n /\ (z + (n + 1)) - 1 = z + n
        BY <1>0, <2>2
      <3>1. v[z + (n + 1)] = 256 * v[z + n] + a[z + (n + 1)]
        <4>1. v[z + (n + 1)] = 256 * v[(z + (n + 1)) - 1] + a[z + (n + 1)]
          BY <1>3, <3>0
        <4> QED
          BY <3>0, <4>1
      <3>2. w[n + 1] = 256 * w[n] + b[n + 1]
        <4>1. w[n + 1] = 256 * w[(n + 1) - 1] + b[n + 1]
          BY <1>4, <3>0
        <4> QED
          BY <3>0, <4>1
      <3>3. a[z + (n + 1)] = b[n + 1]
        BY <1>00, <3>0
      <3>4. v[z + n] = w[n]
        BY <2>2
      <3>5. v[z + (n + 1)] = w[n + 1]
        BY <3>1, <3>2, <3>3, <3>4
      <3> QED
        BY <3>0, <3>5
    <2> HIDE DEF T
    <2>3. 0..M \subseteq T
      BY <1>0, <2>1, <2>2, BoundedInduction
    <2>4. M \in T
      BY <1>0, <2>3
    <2> QED
      BY <2>4 DEF T
  <1> QED
    BY <1>3, <1>4, <1>6

\* One integer: minimal, and with the value of the bytes it is made of.
LEMMA IntegerIsMinimal ==
  ASSUME NEW sig \in [1..2 * W -> Byte], NEW i \in 1..2 * W, NEW j \in i..2 * W,
         \E k \in i..j : sig[k] # 0
  PROVE  /\ DerInteger(sig, i, j) \in Seq(Nat)
         /\ Len(DerInteger(sig, i, j)) \in 1..j - i + 2
         /\ IsMinimal(DerInteger(sig, i, j))
         /\ Value(DerInteger(sig, i, j)) = Value(SubSeq(sig, i, j))
  <1> USE WidthAssumption
  <1> DEFINE first == SkipZeroes(sig, i, j)
             rest == SubSeq(sig, first, j)
             all == SubSeq(sig, i, j)
             c == DerInteger(sig, i, j)
  <1>0. sig \in [1..2 * W -> Nat]
    <2>1. Byte \subseteq Nat
      BY DEF Byte
    <2> QED
      BY <2>1
  <1>1. first \in i..j /\ sig[first] # 0 /\ \A k \in i..first - 1 : sig[k] = 0
    <2> DEFINE S == {k \in i..j + 1 : k = j + 1 \/ sig[k] # 0}
    <2>1. S \in SUBSET Nat /\ S # {}
      OBVIOUS
    <2>2. first = Min(S)
      BY DEF SkipZeroes
    <2>3. first \in S /\ \A k \in S : first <= k
      <3> HIDE DEF S, first
      <3> QED
        BY <2>1, <2>2, MinIsLeast
    <2> HIDE DEF first
    <2> QED
      BY <2>3
  <1> HIDE DEF first
  <1>2. /\ all \in Seq(Nat) /\ Len(all) = j - i + 1
        /\ \A k \in 1..j - i + 1 : all[k] = sig[i + k - 1]
    BY <1>0, SubSeqProperties
  <1>3. /\ rest \in Seq(Nat) /\ Len(rest) = j - first + 1
        /\ \A k \in 1..j - first + 1 : rest[k] = sig[first + k - 1]
    BY <1>0, <1>1, SubSeqProperties
  <1> HIDE DEF all, rest
  <1>4. Value(all) = Value(rest)
    <2>1. first - i \in Nat /\ Len(all) = (first - i) + Len(rest)
      BY <1>1, <1>2, <1>3
    <2>2. ASSUME NEW k \in 1..first - i PROVE all[k] = 0
      <3>1. k \in 1..j - i + 1 /\ i + k - 1 \in i..first - 1
        BY <1>1
      <3> QED
        BY <1>1, <1>2, <3>1
    <2>3. ASSUME NEW k \in 1..Len(rest) PROVE all[(first - i) + k] = rest[k]
      <3>1. /\ k \in 1..j - first + 1 /\ (first - i) + k \in 1..j - i + 1
            /\ i + ((first - i) + k) - 1 = first + k - 1
        BY <1>1, <1>3
      <3>2. all[(first - i) + k] = sig[i + ((first - i) + k) - 1]
        BY <1>2, <3>1
      <3> QED
        BY <1>3, <3>1, <3>2
    <2> QED
      BY <1>2, <1>3, <2>1, <2>2, <2>3, LeadingZeroes
  <1>5. rest[1] = sig[first] /\ sig[first] \in Nat
    BY <1>0, <1>1, <1>3
  <1>6. CASE sig[first] >= 128
    <2>1. c = <<0>> \o rest
      BY <1>6 DEF DerInteger, first, rest
    <2>2. <<0>> \in Seq(Nat) /\ Len(<<0>>) = 1 /\ <<0>>[1] = 0
      OBVIOUS
    <2>3. /\ c \in Seq(Nat) /\ Len(c) = 1 + Len(rest)
          /\ c[1] = 0 /\ \A k \in 1..Len(rest) : c[1 + k] = rest[k]
      <3>1. /\ c \in Seq(Nat) /\ Len(c) = 1 + Len(rest)
            /\ \A k \in 1..1 + Len(rest) : c[k] = IF k <= 1 THEN <<0>>[k] ELSE rest[k - 1]
        BY <1>3, <2>1, <2>2, ConcatProperties
      <3> HIDE DEF c
      <3> QED
        BY <1>1, <1>3, <2>2, <3>1
    <2> HIDE DEF c
    <2>4. c[2] = sig[first]
      BY <1>1, <1>3, <1>5, <2>3
    <2>5. Value(c) = Value(rest)
      BY <1>3, <2>3, LeadingZeroes
    <2>6. c # <<>>
      BY <2>3, <1>3, <1>1, EmptySeq
    <2> QED
      BY <1>1, <1>3, <1>4, <1>6, <2>3, <2>4, <2>5, <2>6 DEF IsMinimal, c, all
  <1>7. CASE ~(sig[first] >= 128)
    <2>1. c = <<>> \o rest
      BY <1>7 DEF DerInteger, first, rest
    <2>2. c = rest
      BY <1>3, <2>1, ConcatEmptySeq
    <2> HIDE DEF c
    <2>3. rest # <<>>
      BY <1>1, <1>3, EmptySeq
    <2> QED
      BY <1>1, <1>3, <1>4, <1>5, <1>7, <2>2, <2>3 DEF IsMinimal, c, all
  <1> QED
    BY <1>6, <1>7

\* The sequence that holds two integers.
LEMMA Envelope ==
  ASSUME NEW r \in Seq(Nat), NEW s \in Seq(Nat), r # <<>>, s # <<>>
  PROVE  LET der == <<48, Len(r) + Len(s) + 4, 2, Len(r)>> \o r \o <<2, Len(s)>> \o s
         IN  /\ Len(der) = Len(r) + Len(s) + 6
             /\ SubSeq(der, 1, 4) = <<48, Len(r) + Len(s) + 4, 2, Len(r)>>
             /\ SubSeq(der, Len(r) + 5, Len(r) + 6) = <<2, Len(s)>>
             /\ SubSeq(der, 5, Len(r) + 4) = r
             /\ SubSeq(der, Len(r) + 7, Len(r) + Len(s) + 6) = s
  <1> DEFINE m == Len(r)
             n == Len(s)
             head == <<48, m + n + 4, 2, m>>
             mid == <<2, n>>
             a == head \o r
             b == a \o mid
             der == b \o s
  <1>0. m \in Nat \ {0} /\ n \in Nat \ {0}
    BY EmptySeq
  <1>1. head \in Seq(Nat) /\ Len(head) = 4 /\ mid \in Seq(Nat) /\ Len(mid) = 2
    <2> HIDE DEF m, n
    <2> QED
      BY <1>0
  <1>2. Len(r) = m /\ Len(s) = n
    OBVIOUS
  <1> HIDE DEF head, mid, m, n
  <1>3. a \in Seq(Nat) /\ Len(a) = Len(head) + Len(r)
    BY <1>1, ConcatProperties
  <1> HIDE DEF a
  <1>4. b \in Seq(Nat) /\ Len(b) = Len(a) + Len(mid)
    BY <1>1, <1>3, ConcatProperties
  <1> HIDE DEF b
  <1>5. der \in Seq(Nat) /\ Len(der) = Len(b) + Len(s)
    BY <1>4, ConcatProperties
  <1> HIDE DEF der
  <1>6. Len(a) = 4 + m /\ Len(b) = 6 + m /\ Len(der) = 6 + m + n
    BY <1>0, <1>1, <1>2, <1>3, <1>4, <1>5
  <1>7. ASSUME NEW i \in 1..6 + m, NEW j \in 1..6 + m PROVE SubSeq(der, i, j) = SubSeq(b, i, j)
    <2>1. i \in 1..Len(b) /\ j \in 1..Len(b)
      BY <1>6
    <2> QED
      BY <1>4, <2>1, SubSeqOfConcat1 DEF der
  <1>8. ASSUME NEW i \in 1..4 + m, NEW j \in 1..4 + m PROVE SubSeq(b, i, j) = SubSeq(a, i, j)
    <2>1. i \in 1..Len(a) /\ j \in 1..Len(a)
      BY <1>6
    <2> QED
      BY <1>1, <1>3, <2>1, SubSeqOfConcat1 DEF b
  <1>9. SubSeq(der, 1, 4) = head
    <2>1. 1 \in 1..4 + m /\ 4 \in 1..4 + m /\ 1 \in 1..6 + m /\ 4 \in 1..6 + m
      BY <1>0
    <2>2. SubSeq(a, 1, 4) = SubSeq(head, 1, 4)
      <3>1. 1 \in 1..Len(head) /\ 4 \in 1..Len(head)
        BY <1>1
      <3> QED
        BY <1>1, <3>1, SubSeqOfConcat1 DEF a
    <2>3. SubSeq(head, 1, 4) = head
      BY <1>1, SubSeqFull
    <2> QED
      BY <1>7, <1>8, <2>1, <2>2, <2>3
  <1>10. SubSeq(der, 5, m + 4) = r
    <2>1. 5 \in 1..4 + m /\ m + 4 \in 1..4 + m /\ 5 \in 1..6 + m /\ m + 4 \in 1..6 + m
      BY <1>0
    <2>2. SubSeq(a, 5, m + 4) = SubSeq(r, 1, m)
      <3>1. /\ 5 \in Len(head) + 1..Len(head) + Len(r) /\ m + 4 \in Len(head) + 1..Len(head) + Len(r)
            /\ 5 - Len(head) = 1 /\ (m + 4) - Len(head) = m
        BY <1>0, <1>1, <1>2
      <3>2. SubSeq(a, 5, m + 4) = SubSeq(r, 5 - Len(head), (m + 4) - Len(head))
        BY <1>1, <3>1, SubSeqOfConcat2 DEF a
      <3> QED
        BY <3>1, <3>2
    <2>3. SubSeq(r, 1, m) = r
      BY <1>2, SubSeqFull
    <2> QED
      BY <1>7, <1>8, <2>1, <2>2, <2>3
  <1>11. SubSeq(der, m + 5, m + 6) = mid
    <2>1. m + 5 \in 1..6 + m /\ m + 6 \in 1..6 + m
      BY <1>0
    <2>2. SubSeq(b, m + 5, m + 6) = SubSeq(mid, 1, 2)
      <3>1. /\ m + 5 \in Len(a) + 1..Len(a) + Len(mid) /\ m + 6 \in Len(a) + 1..Len(a) + Len(mid)
            /\ (m + 5) - Len(a) = 1 /\ (m + 6) - Len(a) = 2
        BY <1>0, <1>1, <1>6
      <3>2. SubSeq(b, m + 5, m + 6) = SubSeq(mid, (m + 5) - Len(a), (m + 6) - Len(a))
        BY <1>1, <1>3, <3>1, SubSeqOfConcat2 DEF b
      <3> QED
        BY <3>1, <3>2
    <2>3. SubSeq(mid, 1, 2) = mid
      BY <1>1, SubSeqFull
    <2> QED
      BY <1>7, <2>1, <2>2, <2>3
  <1>12. SubSeq(der, m + 7, m + n + 6) = s
    <2>1. SubSeq(der, m + 7, m + n + 6) = SubSeq(s, 1, n)
      <3>1. /\ m + 7 \in Len(b) + 1..Len(b) + Len(s) /\ m + n + 6 \in Len(b) + 1..Len(b) + Len(s)
            /\ (m + 7) - Len(b) = 1 /\ (m + n + 6) - Len(b) = n
        BY <1>0, <1>2, <1>6
      <3>2. SubSeq(der, m + 7, m + n + 6) = SubSeq(s, (m + 7) - Len(b), (m + n + 6) - Len(b))
        BY <1>4, <3>1, SubSeqOfConcat2 DEF der
      <3> QED
        BY <3>1, <3>2
    <2>2. SubSeq(s, 1, n) = s
      BY <1>2, SubSeqFull
    <2> QED
      BY <2>1, <2>2
  <1>13. Len(der) = m + n + 6
    BY <1>0, <1>6
  <1> QED
    BY <1>9, <1>10, <1>11, <1>12, <1>13 DEF der, b, a, head, mid, m, n

\* A signature of W bytes for each of r and s becomes the minimal encoding.
LEMMA EncodesSignature ==
  ASSUME NEW sig \in Signature
  PROVE  IsDerOf(ecdsa_sig_to_der(sig), SubSeq(sig, 1, W), SubSeq(sig, W + 1, 2 * W))
  <1> DEFINE r == DerInteger(sig, 1, W)
             s == DerInteger(sig, W + 1, 2 * W)
             m == Len(r)
             n == Len(s)
             der == ecdsa_sig_to_der(sig)
  <1>0. /\ sig \in [1..2 * W -> Byte]
        /\ \E k \in 1..W : sig[k] # 0
        /\ \E k \in W + 1..2 * W : sig[k] # 0
        /\ W \in 1..32
    BY WidthAssumption DEF Signature
  <1>1. /\ r \in Seq(Nat) /\ m \in 1..W + 1
        /\ IsMinimal(r) /\ Value(r) = Value(SubSeq(sig, 1, W))
    <2>1. 1 \in 1..2 * W /\ W \in 1..2 * W /\ W - 1 + 2 = W + 1
      BY <1>0
    <2> QED
      BY <1>0, <2>1, IntegerIsMinimal
  <1>2. /\ s \in Seq(Nat) /\ n \in 1..W + 1
        /\ IsMinimal(s) /\ Value(s) = Value(SubSeq(sig, W + 1, 2 * W))
    <2>1. W + 1 \in 1..2 * W /\ 2 * W \in W + 1..2 * W /\ 2 * W - (W + 1) + 2 = W + 1
      BY <1>0
    <2> QED
      BY <1>0, <2>1, IntegerIsMinimal
  <1>3. der = <<48, m + n + 4, 2, m>> \o r \o <<2, n>> \o s
    BY DEF ecdsa_sig_to_der
  <1>4. r # <<>> /\ s # <<>> /\ m \in Nat \ {0} /\ n \in Nat \ {0}
    <2> HIDE DEF r, s
    <2> QED
      BY <1>0, <1>1, <1>2 DEF IsMinimal
  <1> HIDE DEF r, s, der
  <1>5. /\ Len(der) = m + n + 6
        /\ SubSeq(der, 1, 4) = <<48, m + n + 4, 2, m>>
        /\ SubSeq(der, m + 5, m + 6) = <<2, n>>
        /\ SubSeq(der, 5, m + 4) = r
        /\ SubSeq(der, m + 7, m + n + 6) = s
    <2> DEFINE e == <<48, m + n + 4, 2, m>> \o r \o <<2, n>> \o s
    <2>1. /\ Len(e) = m + n + 6
          /\ SubSeq(e, 1, 4) = <<48, m + n + 4, 2, m>>
          /\ SubSeq(e, m + 5, m + 6) = <<2, n>>
          /\ SubSeq(e, 5, m + 4) = r
          /\ SubSeq(e, m + 7, m + n + 6) = s
      <3>1. r \in Seq(Nat) /\ s \in Seq(Nat) /\ r # <<>> /\ s # <<>>
        BY <1>1, <1>2, <1>4
      <3> QED
        BY <3>1, Envelope
    <2>2. der = e
      BY <1>3
    <2> HIDE DEF e
    <2> QED
      BY <2>1, <2>2
  <1> HIDE DEF m, n
  <1>6. m \in 1..Len(der) /\ n \in 1..Len(der)
    BY <1>4, <1>5
  <1> QED
    BY <1>1, <1>2, <1>5, <1>6 DEF IsDerOf, der
-----------------------------------------------------------------------------
LEMMA InitInv == Init => IInv
  <1> SUFFICES ASSUME Init PROVE IInv
    OBVIOUS
  <1>1. ControlInv
    <2>1. MaxClicks \in Nat
      BY ProposalAssumption
    <2>2. clicks \in 0..MaxClicks
      BY <2>1 DEF Init
    <2> QED
      BY <2>2 DEF Init, ControlInv
  <1>2. FetchedInv
    BY EmptyReply DEF Init, FetchedInv
  <1>3. QueueInv /\ EventInv /\ PostedInv
    BY DEF Init, QueueInv, EventInv, PostedInv
  <1> QED
    BY <1>1, <1>2, <1>3 DEF IInv

LEMMA StepInv == IInv /\ [Next]_vars => IInv'
  <1> SUFFICES ASSUME IInv, [Next]_vars PROVE IInv'
    OBVIOUS
  <1> USE ProposalAssumption DEF IInv, ControlInv
  <1>1. ASSUME NEW reply \in Replies, Fetch(reply) PROVE IInv'
    BY <1>1 DEF Fetch, FetchedInv, QueueInv, EventInv, PostedInv
  <1>2. CASE FetchRefused
    BY <1>2 DEF FetchRefused, FetchedInv, QueueInv, EventInv, PostedInv
  <1>3. CASE Decline
    BY <1>3 DEF Decline, FetchedInv, QueueInv, EventInv, PostedInv
  <1>4. CASE Agree
    <2> DEFINE p == Head(values)
               h == InputTxHashes(p)[1]
               c == [proposal |-> p, path |-> h.path, hash |-> h.hash]
    <2>1. p \in Proposals
      <3>1. values \in Seq(Proposals) /\ values # <<>>
        BY <1>4, RepliesAreSequences DEF Agree, FetchedInv
      <3> QED
        BY <3>1
    <2>2. c \in OwnCommand
      <3>1. h.path \in Paths /\ h.hash \in Hashes
        BY <2>1, OwnTypes
      <3>2. c \in Command
        BY <2>1, <3>1 DEF Command, Paths, Hashes
      <3> QED
        BY <3>2 DEF OwnCommand, Own
    <2>3. QueueInv'
      <3>1. queue' = queue \/ queue' = Append(queue, c)
        BY <1>4 DEF Agree
      <3>2. queue \in Seq(OwnCommand)
        BY DEF QueueInv
      <3> HIDE DEF c
      <3> QED
        BY <2>2, <3>1, <3>2 DEF QueueInv
    <2>4. ControlInv' /\ FetchedInv'
      BY <1>4 DEF Agree, FetchedInv
    <2>5. EventInv' /\ PostedInv'
      BY <1>4 DEF Agree, EventInv, PostedInv
    <2> QED
      BY <2>3, <2>4, <2>5
  <1>5. CASE ResetFlag
    BY <1>5 DEF ResetFlag, FetchedInv, QueueInv, EventInv, PostedInv
  <1>6. CASE Execute
    <2>1. queue \in Seq(OwnCommand) /\ queue # <<>>
      BY <1>6 DEF Execute, QueueInv
    <2>2. Head(queue) \in OwnCommand
      BY <2>1
    <2>3. QueueInv'
      BY <1>6, <2>1 DEF Execute, QueueInv
    <2>4. EventInv'
      <3>1. CASE UNCHANGED events
        BY <3>1 DEF EventInv
      <3>2. ASSUME NEW sig \in Signatures,
                   events' = Append(events, [proposal |-> Captured, sig |-> sig,
                                             path |-> Head(queue).path, hash |-> Head(queue).hash])
            PROVE  EventInv'
        <4> DEFINE e == [proposal |-> Captured, sig |-> sig,
                         path |-> Head(queue).path, hash |-> Head(queue).hash]
        <4>1. e \in OwnEvent
          BY <2>2 DEF OwnCommand, OwnEvent, Own, Command, Event, Captured, Paths, Hashes
        <4> HIDE DEF e
        <4> QED
          BY <3>2, <4>1 DEF EventInv, e
      <3> QED
        BY <1>6, <3>1, <3>2 DEF Execute
    <2>5. ControlInv' /\ FetchedInv' /\ PostedInv'
      BY <1>6 DEF Execute, FetchedInv, PostedInv
    <2> QED
      BY <2>3, <2>4, <2>5
  <1>7. CASE Post
    <2>1. events \in Seq(OwnEvent) /\ events # <<>>
      BY <1>7 DEF Post, EventInv
    <2>2. Head(events) \in OwnEvent
      BY <2>1
    <2>3. EventInv'
      BY <1>7, <2>1 DEF Post, EventInv
    <2>4. PostedInv'
      BY <1>7, <2>2 DEF Post, PostedInv
    <2>5. ControlInv' /\ FetchedInv' /\ QueueInv'
      BY <1>7 DEF Post, FetchedInv, QueueInv
    <2> QED
      BY <2>3, <2>4, <2>5
  <1>8. CASE UNCHANGED vars
    BY <1>8 DEF vars, FetchedInv, QueueInv, EventInv, PostedInv
  <1> QED
    BY <1>1, <1>2, <1>3, <1>4, <1>5, <1>6, <1>7, <1>8 DEF Next, Done

LEMMA Invariance == Spec => []IInv
  BY InitInv, StepInv, PTL DEF Spec
-----------------------------------------------------------------------------
(***************************************************************************)
(* Theorems.                                                               *)
(***************************************************************************)
LEMMA QueueMember ==
  ASSUME IInv, NEW c \in ToSet(queue)
  PROVE  c \in OwnCommand
  BY DEF IInv, QueueInv, ToSet

\* The proposals at hand are those of a reply, a command, an event and a posted
\* signature belong to proposals of the wallet service.
THEOREM TypeCorrect == Spec => []TypeOK
  <1>1. IInv => TypeOK
    <2> SUFFICES ASSUME IInv PROVE TypeOK
      OBVIOUS
    <2>1. ToSet(queue) \subseteq Command
      BY QueueMember DEF OwnCommand
    <2>2. \A e \in ToSet(events) : e.proposal \in Proposals /\ e.sig \in Signatures
      BY DEF IInv, EventInv, ToSet, OwnEvent, Event
    <2>3. \A m \in posted : \E p \in Proposals : m.id = p.id
      BY DEF IInv, PostedInv, OwnEvent, Event
    <2> QED
      BY <2>1, <2>2, <2>3 DEF TypeOK, IInv, ControlInv, FetchedInv
  <1> QED
    BY <1>1, Invariance, PTL

\* Whatever is fetched meanwhile, a signature is posted to the proposal whose
\* transaction was signed (lines 252-287 of dbb_gui.cpp).
THEOREM GoesHome == Spec => []SignatureGoesHome
  <1>1. IInv => SignatureGoesHome
    <2> SUFFICES ASSUME IInv, NEW m \in posted, NEW p \in Proposals, m.id = p.id
                 PROVE  m.hash.tx = Tx(p)
      BY DEF SignatureGoesHome
    <2>1. PICK e \in OwnEvent : m.id = e.proposal.id /\ m.hash = e.hash
      BY DEF IInv, PostedInv
    <2>2. e.proposal \in Proposals /\ Own(e)
      BY DEF OwnEvent, Event
    <2>3. e.proposal = p
      BY <2>1, <2>2, ProposalAssumption
    <2> QED
      BY <2>1, <2>2, <2>3, OwnTx
  <1> QED
    BY <1>1, Invariance, PTL

\* The single input of a proposal is signed for with the key of its own path
\* (lines 308-410 of bpwalletclient.cpp).
THEOREM SignsOwn == Spec => []SignsOwnInput
  <1>1. IInv => SignsOwnInput
    <2> SUFFICES ASSUME IInv, NEW c \in ToSet(queue), Len(c.proposal.inputs) = 1
                 PROVE  /\ c.path = c.proposal.inputs[1].path
                        /\ c.hash = HashOf(c.proposal, 1)
      BY DEF SignsOwnInput
    <2>1. c.proposal \in Proposals /\ Own(c)
      BY QueueMember DEF OwnCommand, Command
    <2>2. Tx(c.proposal).vin[1] = c.proposal.inputs[1].txid
      BY <2>1, SingleInput DEF Tx
    <2> QED
      BY <2>1, <2>2, FirstHash DEF Own, HashOf, SignatureHash
  <1> QED
    BY <1>1, Invariance, PTL

\* The transaction for a proposal with a single input pays the amount where it
\* should and spends what the input holds (lines 347, 377-401).
THEOREM AddsUp == Spec => []ChangeAddsUp
  <1>1. IInv => ChangeAddsUp
    <2> SUFFICES ASSUME IInv, NEW c \in ToSet(queue), Len(c.proposal.inputs) = 1
                 PROVE  LET p == c.proposal IN
                        /\ c.hash.tx.vout[1].value + c.hash.tx.vout[2].value + p.fee = p.inputs[1].satoshis
                        /\ \A k \in 1..2 : p.outputOrder[k] = 0 =>
                               c.hash.tx.vout[k] = [to |-> "toAddress", value |-> p.amount]
      BY DEF ChangeAddsUp
    <2> DEFINE p == c.proposal
               payment == [to |-> "toAddress", value |-> p.amount]
               change == [to |-> "changeAddress", value |-> Change(p)]
    <2>1. p \in Proposals /\ Own(c)
      BY QueueMember DEF OwnCommand, Command
    <2>2. c.hash.tx.vout = Vout(p)
      <3>1. c.hash.tx = Tx(p)
        BY <2>1, OwnTx
      <3> QED
        BY <3>1 DEF Tx
    <2>3. /\ p.amount \in Nat /\ p.fee \in Nat /\ p.inputs[1].satoshis \in Nat
          /\ p.outputOrder = <<0, 1>> \/ p.outputOrder = <<1, 0>>
      BY <2>1, FirstInput, ProposalAssumption DEF IsProposal
    <2>4. Change(p) = p.inputs[1].satoshis - p.amount - p.fee
      BY <2>1, SingleInput DEF Change
    <2>5. \/ p.outputOrder = <<0, 1>> /\ c.hash.tx.vout = <<payment, change>>
          \/ p.outputOrder = <<1, 0>> /\ c.hash.tx.vout = <<change, payment>>
      BY <2>2, <2>3 DEF Vout
    <2>6. payment.value + change.value + p.fee = p.inputs[1].satoshis
          /\ change.value + payment.value + p.fee = p.inputs[1].satoshis
      BY <2>3, <2>4
    <2> QED
      BY <2>5, <2>6
  <1> QED
    BY <1>1, Invariance, PTL

\* Whatever signature of W bytes for each of r and s the device sends, what is
\* posted is its minimal DER encoding: one sequence of two integers, positive,
\* without a byte too many, with the values of r and s
\* (ecdsa_sig_to_der, lines 418-476 of bpwalletclient.cpp).
THEOREM MinimalDer == Spec => []PostsMinimalDer
  <1>1. IInv => PostsMinimalDer
    <2> SUFFICES ASSUME IInv, NEW m \in posted
                 PROVE  IsDerOf(m.der, SubSeq(m.sig, 1, W), SubSeq(m.sig, W + 1, 2 * W))
      BY DEF PostsMinimalDer
    <2>1. PICK e \in OwnEvent : m.sig = e.sig /\ m.der = ecdsa_sig_to_der(e.sig)
      BY DEF IInv, PostedInv
    <2>2. e.sig \in Signature
      BY ProposalAssumption DEF OwnEvent, Event
    <2> QED
      BY <2>1, <2>2, EncodesSignature
  <1> QED
    BY <1>1, Invariance, PTL
=============================================================================

---------------------------- MODULE DerSignature ----------------------------
(***************************************************************************)
(* ecdsa_sig_to_der of                                                     *)
(* src/src/libbitpay-wallet-client/bpwalletclient.cpp: the r and s of a    *)
(* signature, W bytes each (32 in the code), as a DER sequence of two      *)
(* integers; and what a reader of DER makes of it.                         *)
(***************************************************************************)
EXTENDS Naturals, Sequences, SequencesExt, FiniteSetsExt

CONSTANT W

ASSUME WidthAssumption == W \in 1..32

Byte == 0..255

\* What the device sends: r, then s.  Neither is zero in an ECDSA signature.
Signature == {sig \in [1..2 * W -> Byte] : /\ \E i \in 1..W : sig[i] # 0
                                           /\ \E i \in W+1..2 * W : sig[i] # 0}
-----------------------------------------------------------------------------
\* The first byte from i to j that is not zero; one past the last if all are.
SkipZeroes(sig, i, j) == Min({k \in i..j + 1 : k = j + 1 \/ sig[k] # 0})

\* Mutant of DerInteger: an integer whose first bit is set reads as negative.
BugNoSign(sig, i, j) == SubSeq(sig, SkipZeroes(sig, i, j), j)

\* The bytes i to j of sig without leading zeroes, but with one in front if
\* the first of their bits is set.
DerInteger(sig, i, j) ==
    LET first == SkipZeroes(sig, i, j)
        sign  == IF sig[first] >= 128 THEN <<0>> ELSE <<>>
    IN  sign \o SubSeq(sig, first, j)

ecdsa_sig_to_der(sig) ==
    LET r == DerInteger(sig, 1, W)
        s == DerInteger(sig, W + 1, 2 * W)
    IN  <<48, Len(r) + Len(s) + 4, 2, Len(r)>> \o r \o <<2, Len(s)>> \o s
-----------------------------------------------------------------------------
(***************************************************************************)
(* The reference: what DER asks of the encoding of two positive integers.  *)
(***************************************************************************)
Value(bytes) ==
    LET v[n \in 0..Len(bytes)] == IF n = 0 THEN 0 ELSE 256 * v[n - 1] + bytes[n]
    IN  v[Len(bytes)]

\* Positive, and not a byte longer than needed.
IsMinimal(c) == /\ c # <<>>
                /\ c[1] < 128
                /\ c[1] = 0 /\ Len(c) > 1 => c[2] >= 128

\* der is one sequence of two integers, minimal, with the values of r and s.
IsDerOf(der, r, s) ==
    \E m, n \in 1..Len(der) :
        /\ Len(der) = m + n + 6
        /\ SubSeq(der, 1, 4) = <<48, m + n + 4, 2, m>>
        /\ SubSeq(der, m + 5, m + 6) = <<2, n>>
        /\ LET cr == SubSeq(der, 5, m + 4)
               cs == SubSeq(der, m + 7, m + n + 6)
           IN  /\ IsMinimal(cr) /\ Value(cr) = Value(r)
               /\ IsMinimal(cs) /\ Value(cs) = Value(s)
=============================================================================

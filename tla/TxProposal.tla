----------------------------- MODULE TxProposal -----------------------------
(***************************************************************************)
(* Payment proposals of the Copay wallet: checkPaymentProposals of         *)
(* src/src/qt/dbb_gui.cpp and ParseTxProposal and                          *)
(* PostSignaturesForTxProposal of                                          *)
(* src/src/libbitpay-wallet-client/bpwalletclient.cpp.                     *)
(*                                                                         *)
(* The main thread fetches the pending proposals, asks the user about the  *)
(* first of them, builds its transaction and posts a command to sign one   *)
(* hash; the worker's callback brings the signature back, by then perhaps  *)
(* after another round.  The wallet service, the device and Bitcoin's      *)
(* signature hash are external; a hash is represented by what it is a hash *)
(* of, and a key by the path it is derived with.                           *)
(***************************************************************************)
EXTENDS Integers, DerSignature

CONSTANTS Proposals,   \* what other copayers may propose
          Signatures,  \* what the device may sign with
          MaxInt,      \* the greatest int (2^31 - 1)
          MaxClicks    \* bound: how often the user asks for proposals

\* A proposal, as the wallet service keeps it: outputOrder lists its outputs
\* (0 the payment, 1 the change) in the order they have in the transaction.
IsProposal(p) ==
    /\ DOMAIN p = {"id", "amount", "fee", "outputOrder", "required", "inputs"}
    /\ p.amount \in Nat /\ p.fee \in Nat /\ p.required \in Nat
    /\ p.outputOrder \in {<<0, 1>>, <<1, 0>>}
    /\ p.inputs \in Seq(Range(p.inputs)) \ {<<>>}
    /\ \A k \in DOMAIN p.inputs : p.inputs[k].satoshis \in Nat

ASSUME ProposalAssumption == /\ IsFiniteSet(Proposals)
                             /\ \A p \in Proposals : IsProposal(p)
                             /\ \A p, q \in Proposals : p.id = q.id => p = q
                             /\ Signatures \subseteq Signature
                             /\ MaxInt \in Nat
                             /\ MaxClicks \in Nat

VARIABLES pc,        \* the main thread: idle, asking the user, or dead
          clicks,    \* how often proposals were asked for
          values,    \* the pending proposals as fetched last
          busy,      \* processComnand
          queue,     \* signing commands, with what their callbacks captured
          events,    \* signedProposalAvailable, not yet delivered
          posted     \* what was posted to the wallet service

vars == <<pc, clicks, values, busy, queue, events, posted>>
-----------------------------------------------------------------------------
(***************************************************************************)
(* ParseTxProposal.                                                        *)
(***************************************************************************)
\* The public keys are sorted, so only the set of them counts.
RedeemScript(p, input) == [required |-> p.required, keys |-> ToSet(input.keys)]

\* The inputs are inserted at the front, one after the other.
Vin(p) == Reverse([k \in DOMAIN p.inputs |-> p.inputs[k].txid])

\* inTotal is assigned at every input, not added to.
InTotal(p) == Last(p.inputs).satoshis

\* Mutant of Change: the fee goes into the change.
BugForgetFee(p) == InTotal(p) - p.amount

Change(p) == InTotal(p) - p.amount - p.fee

Vout(p) == LET payment == [to |-> "toAddress", value |-> p.amount]
               change  == [to |-> "changeAddress", value |-> Change(p)]
           IN  IF p.outputOrder[2] = 0 THEN <<change, payment>> ELSE <<payment, change>>

Tx(p) == [vin |-> Vin(p), vout |-> Vout(p)]

\* External: the hash commits to the script, the transaction and the input.
SignatureHash(script, tx, n) == [script |-> script, tx |-> tx, input |-> tx.vin[n]]

\* Mutant of InputTxHashes: the hash is taken before the outputs are there.
BugHashEarly(p) ==
    [k \in DOMAIN p.inputs |->
        [path |-> p.inputs[k].path,
         hash |-> SignatureHash(RedeemScript(p, p.inputs[k]), [vin |-> Vin(p), vout |-> <<>>], 1)]]

\* vInputTxHashes: scripts and paths in the order of the proposal, the hash
\* always that of the first input of the transaction.
InputTxHashes(p) ==
    [k \in DOMAIN p.inputs |->
        [path |-> p.inputs[k].path,
         hash |-> SignatureHash(RedeemScript(p, p.inputs[k]), Tx(p), 1)]]

\* The value of an input is read as an int.
Parses(p) == \A k \in DOMAIN p.inputs : p.inputs[k].satoshis <= MaxInt
-----------------------------------------------------------------------------
Init == /\ pc = "idle"
        /\ clicks = 0
        /\ values = <<>>
        /\ busy = FALSE
        /\ queue = <<>>
        /\ events = <<>>
        /\ posted = {}

\* What the wallet service answers, or nothing: proposals in some order.
Replies == UNION {SetToSeqs(S) : S \in SUBSET Proposals}

\* Mutant of Fetch: the proposals of the last reply are still there.
BugAccumulate(reply) == /\ pc = "idle"
                        /\ clicks < MaxClicks
                        /\ clicks' = clicks + 1
                        /\ values' = values \o reply
                        /\ pc' = IF values' = <<>> THEN "idle" ELSE "ask"
                        /\ UNCHANGED <<busy, queue, events, posted>>

Fetch(reply) == /\ pc = "idle"
                /\ clicks < MaxClicks
                /\ clicks' = clicks + 1
                /\ values' = reply
                /\ pc' = IF reply = <<>> THEN "idle" ELSE "ask"
                /\ UNCHANGED <<busy, queue, events, posted>>

\* An error object has no list of copayers, and getValues throws.
FetchRefused == /\ pc = "idle"
                /\ clicks < MaxClicks
                /\ clicks' = clicks + 1
                /\ pc' = "dead"
                /\ UNCHANGED <<values, busy, queue, events, posted>>

Decline == /\ pc = "ask"
           /\ pc' = "idle"
           /\ UNCHANGED <<clicks, values, busy, queue, events, posted>>

\* The transaction of the first proposal is built, and its first hash goes to
\* the device; an exception of get_int leaves the slot and ends the process.
Agree == /\ pc = "ask"
         /\ LET p == Head(values)
                h == InputTxHashes(p)[1]
            IN  IF Parses(p)
                  THEN /\ pc' = "idle"
                       /\ busy' = TRUE
                       /\ queue' = IF busy THEN queue
                                   ELSE Append(queue, [proposal |-> p, path |-> h.path, hash |-> h.hash])
                  ELSE /\ pc' = "dead"
                       /\ UNCHANGED <<busy, queue>>
         /\ UNCHANGED <<clicks, values, events, posted>>

\* The join button and the answers to other commands reset the flag; no answer
\* to a signing command does.
ResetFlag == /\ pc # "dead"
             /\ busy
             /\ busy' = FALSE
             /\ UNCHANGED <<pc, clicks, values, queue, events, posted>>

\* Mutant of Captured: the callback looks at the proposals fetched last.
BugCaptureReference == IF values = <<>> THEN Head(queue).proposal ELSE Head(values)

\* The callback has its own copy of the proposals.
Captured == Head(queue).proposal

\* The device signs the hash with the key of the path; or it sends an echo,
\* declines, or does not answer, and nothing will be posted.
Execute == /\ pc # "dead"
           /\ queue # <<>>
           /\ queue' = Tail(queue)
           /\ \/ \E sig \in Signatures :
                    events' = Append(events, [proposal |-> Captured, sig |-> sig,
                                              path |-> Head(queue).path, hash |-> Head(queue).hash])
              \/ UNCHANGED events
           /\ UNCHANGED <<pc, clicks, values, busy, posted>>

\* PostSignaturesForTxProposal: one signature, to the proposal's own address.
Post == /\ pc # "dead"
        /\ events # <<>>
        /\ LET e == Head(events)
           IN  posted' = posted \cup {[id |-> e.proposal.id, der |-> ecdsa_sig_to_der(e.sig),
                                       sig |-> e.sig, path |-> e.path, hash |-> e.hash]}
        /\ events' = Tail(events)
        /\ UNCHANGED <<pc, clicks, values, busy, queue>>

Done == /\ pc = "dead" \/ clicks = MaxClicks
        /\ UNCHANGED vars

Next == \/ \E reply \in Replies : Fetch(reply)
        \/ FetchRefused \/ Decline \/ Agree \/ ResetFlag \/ Execute \/ Post \/ Done

Spec == Init /\ [][Next]_vars
-----------------------------------------------------------------------------
(***************************************************************************)
(* Properties.                                                             *)
(***************************************************************************)
Command == [proposal : Proposals, path : {i.path : i \in UNION {ToSet(p.inputs) : p \in Proposals}},
            hash : {h.hash : h \in UNION {ToSet(InputTxHashes(p)) : p \in Proposals}}]

\* The types of the commands, the events and what is posted.
TypeOK == /\ pc \in {"idle", "ask", "dead"}
          /\ clicks \in 0..MaxClicks
          /\ values \in Replies
          /\ busy \in BOOLEAN
          /\ ToSet(queue) \subseteq Command
          /\ \A e \in ToSet(events) : e.proposal \in Proposals /\ e.sig \in Signatures
          /\ \A m \in posted : \E p \in Proposals : m.id = p.id

\* The hash that has to be signed for the k-th input of the proposal.
HashOf(p, k) == [script |-> RedeemScript(p, p.inputs[k]), tx |-> Tx(p), input |-> p.inputs[k].txid]

\* A proposal with one input: the key of the input's own path signs the hash of
\* this input in the transaction of this proposal (lines 308-410).
SignsOwnInput ==
    \A c \in ToSet(queue) : Len(c.proposal.inputs) = 1 =>
        c.path = c.proposal.inputs[1].path /\ c.hash = HashOf(c.proposal, 1)

\* In the transaction that is signed for a proposal with one input nothing is
\* lost or made: the payment, the change and the fee are what the input holds,
\* the payment goes where the outputOrder says (lines 347, 389-401).
ChangeAddsUp ==
    \A c \in ToSet(queue) : LET p == c.proposal IN Len(p.inputs) = 1 =>
        /\ c.hash.tx.vout[1].value + c.hash.tx.vout[2].value + p.fee = p.inputs[1].satoshis
        /\ \A k \in 1..2 : p.outputOrder[k] = 0 =>
               c.hash.tx.vout[k] = [to |-> "toAddress", value |-> p.amount]

\* A signature is posted to the proposal whose transaction was signed, also
\* when others were fetched or a second command was posted in the meantime
\* (lines 252-287 of dbb_gui.cpp).
SignatureGoesHome ==
    \A m \in posted : \A p \in Proposals : m.id = p.id => m.hash.tx = Tx(p)

\* What is posted is the minimal DER encoding of the device's r and s.
PostsMinimalDer ==
    \A m \in posted : IsDerOf(m.der, SubSeq(m.sig, 1, W), SubSeq(m.sig, W + 1, 2 * W))

\* "parse a transaction proposal, export inputs keypath/hashes ready for
\* signing" (bpwalletclient.h:93): the hash that comes with the path of an
\* input is the hash of this input.
HashesReadyForSigning ==
    \A c \in ToSet(queue) : \A k \in DOMAIN c.proposal.inputs :
        InputTxHashes(c.proposal)[k] = [path |-> c.proposal.inputs[k].path,
                                        hash |-> HashOf(c.proposal, k)]
=============================================================================

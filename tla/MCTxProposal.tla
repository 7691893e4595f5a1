---------------------------- MODULE MCTxProposal ----------------------------
(* Proposals with either order of outputs, with two inputs, and with an     *)
(* input beyond MaxInt; signatures with and without leading zeroes and sign *)
(* bytes in either half.                                                    *)
EXTENDS TxProposal

Coin(n, value) == [txid |-> n, satoshis |-> value, path |-> n, keys |-> <<n, n + 10>>]

Proposed(id, order, inputs) ==
    [id |-> id, amount |-> 3, fee |-> 1, outputOrder |-> order, required |-> 2, inputs |-> inputs]

MCProposals == {Proposed("p1", <<0, 1>>, <<Coin(1, 5)>>),
                Proposed("p2", <<1, 0>>, <<Coin(2, 4)>>),
                Proposed("p3", <<1, 0>>, <<Coin(1, 2), Coin(3, 6)>>),
                Proposed("p4", <<0, 1>>, <<Coin(4, 9)>>)}

Halves == {<<0, 1>>, <<0, 128>>, <<1, 0>>, <<255, 0>>}
MCSignatures == {r \o s : r, s \in Halves}
=============================================================================

----------------------------- MODULE MCExchange -----------------------------
(* Commands of 2, 5, 7 and 8 tokens, so that every remainder of a length by  *)
(* the block of four, and of an envelope by the group of three, occurs; two  *)
(* keys near to one another, under which a wrong padding may look right.     *)
EXTENDS Exchange

Sig == J!Object(<<220>>, <<J!String(221)>>)
Empty == J!Object(<<>>, <<>>)

MCCommands == {Empty,
               J!Object(<<204>>, <<J!Number(49)>>),
               J!Object(<<204>>, <<J!Array(<<J!String(205)>>)>>),
               J!Object(<<204>>, <<J!Array(<<Empty>>)>>)}
MCAnswers == {J!Object(<<207>>, <<Empty>>),
              J!Object(<<208, 209>>, <<Empty, J!Keyword(116)>>),
              J!Object(<<208>>, <<J!Array(<<Sig>>)>>)}
MCMembers == MCCommands \cup MCAnswers
               \cup {Sig, J!Array(<<Sig>>), J!Array(<<J!String(205)>>), J!Array(<<Empty>>),
                     J!String(205), J!String(221), J!Number(49), J!Keyword(116), Empty}

MCIVs == {<<1, 2, 3, 4>>, <<255, 0, 128, 7>>}
=============================================================================

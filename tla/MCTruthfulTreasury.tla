------------------------- MODULE MCTruthfulTreasury -------------------------
(* Small instances of TruthfulTreasury for TLC. *)
EXTENDS TruthfulTreasury, TLC

Home(n) == [currency |-> "home", minor |-> n]

SomeOriginals == {Home(1)}
SomeQuotes    == {NoQuote}

=============================================================================

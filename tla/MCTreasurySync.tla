--------------------------- MODULE MCTreasurySync ---------------------------
(* Small instances of TreasurySync for TLC. *)
EXTENDS TreasurySync, TLC

Home(n)    == [currency |-> "home", minor |-> n]
Foreign(n) == [currency |-> "foreign", minor |-> n]

Entry(status, amount, original, rate) ==
    [status |-> status, amount |-> amount, original |-> original,
     rate |-> rate]

(* What treasury may say of an invoice: repaid, or outstanding for one     *)
(* amount or another, priced or not.                                       *)
SoundEntries ==
    { Entry("REPAID",      1, Home(1), NoQuote),
      Entry("OUTSTANDING", 1, Home(1), NoQuote),
      Entry("OUTSTANDING", 2, Foreign(1), 2) }

(* Outstanding for nothing, for more than a column holds, or with evidence *)
(* that is missing or does not add up.                                     *)
FaultyEntries ==
    { Entry("OUTSTANDING", 0, Home(1), NoQuote),
      Entry("OUTSTANDING", MaxAmount + 1, Home(MaxAmount + 1), NoQuote),
      Entry("OUTSTANDING", MaxAmount + 1, Foreign(1), NoQuote),
      Entry("OUTSTANDING", 2, Foreign(1), NoQuote),
      Entry("OUTSTANDING", 2, Foreign(1), 1) }

SoundListings  == UNION {[listed -> SoundEntries] : listed \in SUBSET InvoiceIds}
FaultyListings == UNION {[{i} -> FaultyEntries] : i \in InvoiceIds}

(* A faulty entry comes alone, in a snapshot that was drawn up early; an   *)
(* amount that does not parse, in an empty one.                            *)
SomeSnapshots ==
    [sequence : 0..1, asOf : {0, 2}, limit : {2},
     invoices : SoundListings, fault : {"NONE"}]
    \cup
    [sequence : 0..1, asOf : {0}, limit : {2},
     invoices : FaultyListings, fault : {"NONE"}]
    \cup
    [sequence : {1}, asOf : {0}, limit : {2},
     invoices : {<<>>}, fault : {"UNPARSABLE"}]

(* Snapshots that mention nothing, or the one invoice there is. *)
QuietSnapshots ==
    [sequence : 0..2, asOf : 2..3, limit : {1},
     invoices : {<<>>} \cup [InvoiceIds -> {Entry("OUTSTANDING", 1, Home(1), NoQuote)}],
     fault : {"NONE"}]

SomeOriginals == {Home(1)}
SomeQuotes    == {NoQuote}
SomeLimits    == {-1, 1}

Interchangeable == Permutations(InvoiceIds)

=============================================================================

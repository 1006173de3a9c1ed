--------------------------- MODULE MCKafkaConsumer ---------------------------
(* Small instances of KafkaConsumer for TLC. *)
EXTENDS KafkaConsumer, TLC

Home(n) == [currency |-> "home", minor |-> n]

SomeOriginals == {Home(1)}
SomeQuotes    == {NoQuote}
SomeLimits    == {-1, 3, MaxAmount + 1}

Snapshot(sequence, limit) ==
    [sequence |-> sequence, asOf |-> 0, limit |-> limit,
     invoices |-> <<>>, fault |-> "NONE"]

Unparsable(snap) == [snap EXCEPT !.fault = "UNPARSABLE"]

SomeSnapshots == {Snapshot(1, 1), Snapshot(2, 2), Unparsable(Snapshot(2, 2))}

(* Two snapshots and one that does not parse, a limit and two limits nobody can apply, a repayment,    *)
(* and something that cannot be read.                                      *)
SomeMessages ==
    [type : {"ProgramSnapshot"}, snapshot : SomeSnapshots]
        \cup [type : {"ProgramLimitChanged"}, newLimit : SomeLimits]
        \cup [type : {"InvoiceRepaid"}, invoice : InvoiceIds]
        \cup [type : {"MALFORMED"}]

=============================================================================

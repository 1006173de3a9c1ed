------------------------- MODULE MCCapacityService -------------------------
(* Small instances of CapacityService for TLC. *)
EXTENDS CapacityService, TLC

Home(n)    == [currency |-> "home", minor |-> n]
Foreign(n) == [currency |-> "foreign", minor |-> n]

(* Contention: two invoices that fit the larger limit together and the     *)
(* smaller one only singly.                                                *)
ContentionOriginals == {Home(2)}
ContentionLimits    == {3, 4}
ContentionQuotes    == {NoQuote}

(* Races on one invoice: every way to be refused, a rate that moves between*)
(* two attempts, and ids written with blanks around them.                  *)
RaceOriginals == {Home(-1), Home(0), Home(2), Foreign(10)}
RaceLimits    == {-1, 1, 2}
RaceQuotes    == {NoQuote, 1, 3, 4}

RetryOriginals == {Home(2), Foreign(10)}
RetryLimits    == {1, 2}
RetryQuotes    == {NoQuote, 3}

Interchangeable == Permutations(InvoiceIds) \cup Permutations(ApiSessions)

=============================================================================

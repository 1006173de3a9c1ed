----------------------------- MODULE MCListings -----------------------------
(* Small instances of Listings for TLC. *)
EXTENDS Listings

=============================================================================

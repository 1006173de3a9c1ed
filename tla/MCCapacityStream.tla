-------------------------- MODULE MCCapacityStream --------------------------
(* Small instances of CapacityStream for TLC. *)
EXTENDS CapacityStream

=============================================================================

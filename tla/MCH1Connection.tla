--------------------------- MODULE MCH1Connection ---------------------------
(* Small instances of H1Connection for TLC. *)
EXTENDS H1Connection

=============================================================================

----------------------------- MODULE MCH2Stream -----------------------------
(* Small instances of H2Stream for TLC. *)
EXTENDS H2Stream

=============================================================================

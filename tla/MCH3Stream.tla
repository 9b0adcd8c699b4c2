----------------------------- MODULE MCH3Stream -----------------------------
(* Small instances of H3Stream for TLC. *)
EXTENDS H3Stream

=============================================================================

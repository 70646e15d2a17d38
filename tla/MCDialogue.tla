------------------------------ MODULE MCDialogue ------------------------------
(* Two answers of up to two blocks, one tool, and what follows them. *)
EXTENDS Dialogue
=============================================================================

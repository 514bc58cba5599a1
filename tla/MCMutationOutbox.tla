--------------------------- MODULE MCMutationOutbox ---------------------------
(* Small instances of MutationOutbox. *)
EXTENDS MutationOutbox
=============================================================================

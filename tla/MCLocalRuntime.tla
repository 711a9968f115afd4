--------------------------- MODULE MCLocalRuntime ---------------------------
(* Requests for one model, with everything that may happen to them. *)
EXTENDS LocalRuntime

=============================================================================

---------------------- MODULE MCDisclosureTransition ------------------------
(* Two processes and one authorisation that allows two uses for selector s1. *)
EXTENDS DisclosureTransition, TLC

CONSTANTS s1, s2

MCScope == [a \in Auths |-> s1]
MCMaxUses == [a \in Auths |-> 2]

Symmetry == Permutations(Procs) \cup Permutations(Tids)

=============================================================================

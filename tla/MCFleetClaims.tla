--------------------------- MODULE MCFleetClaims ----------------------------
(***************************************************************************)
(* Instances of FleetClaims for TLC.  Two processes, paths that are equal, *)
(* nested and spelled differently.                                         *)
(***************************************************************************)
EXTENDS FleetReplay

CONSTANTS p1, p2, c1, c2, c3, w1, w2, s1

(* Every process has a store of its own, or two threads share one. *)
OwnStore    == [p \in Procs |-> p]
SharedStore == [p \in Procs |-> s1]

(* Processes, fresh claim ids and authorities are interchangeable. *)
Symmetry ==
    Permutations({p1, p2}) \cup Permutations(Claims) \cup Permutations(Authorities)

(* src, and ./src/a, which normalises to src/a *)
TwoPaths    == {{<<"src">>}, {<<".", "src", "a">>}}
OnePath     == {{<<"src">>}}

NoBase  == {<<>>}
OneHash == {<<>>, ("src" :> "h1")}

(* returned and pointers decide nothing: no guard and no property of the    *)
(* lifecycle run reads them.                                               *)
LedgerView == <<ledger, tail, thread, lock, pc, op, clock, issued>>

AcquireAndEnd ==
    {"acquire_claim", "acquire_workspace_claim", "renew_claim", "release_claim"}

Lifecycle ==
    {"acquire_claim", "renew_claim", "start_editing", "record_tests_completed",
     "mark_ready_for_integration", "accept_integration", "park_work",
     "release_workspace_claim"}

=============================================================================

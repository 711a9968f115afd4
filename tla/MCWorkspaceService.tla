------------------------- MODULE MCWorkspaceService -------------------------
(***************************************************************************)
(* Instances of WorkspaceService for TLC.                                  *)
(***************************************************************************)
EXTENDS WorkspaceService, TLC

CONSTANTS s1, s2

TwoSessions == {s1, s2}

SessionSymmetry == Permutations(TwoSessions)

(* The view of the run.  No guard reads the ledger, and LedgerAgrees reads    *)
(* its last event only until one is lost or a save goes unreported: then the *)
(* next event that is properly written replaces all of it but the tail.      *)
LedgerView ==
    <<file, cache, tree, locked, call, occupants, unreported, ledger.tail,
      IF ledger.slip = "lost" \/ unreported THEN <<>> ELSE <<ledger.last, ledger.slip>>>>

=============================================================================

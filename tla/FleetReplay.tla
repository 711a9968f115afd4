----------------------------- MODULE FleetReplay ----------------------------
(***************************************************************************)
(* _replay_active_claims as the code computes it: a dictionary of claims   *)
(* built by one pass over the ledger's lines, then filtered by expiry.     *)
(* FleetClaims states the same projection with quantifiers; ReplayMatches  *)
(* says that the two agree on every ledger the store can produce.          *)
(***************************************************************************)
EXTENDS FleetClaims

(* "any" stands for workspace_authority_id=None. *)
Relevant(e, ws) == e.kind # "garbled" /\ (ws = "any" \/ e.ws = ws)

(* Mutant: the ttl is not added. *)
EventToActiveClaim_NoTtl(e) ==
    [ws |-> e.ws, paths |-> e.paths, base |-> e.base,
     expires |-> e.ts, state |-> "claimed"]

EventToActiveClaim(e) ==
    [ws |-> e.ws, paths |-> e.paths, base |-> e.base,
     expires |-> e.ts + e.ttl, state |-> "claimed"]

StateAfter ==
    [edit_started                   |-> "editing",
     tests_completed                |-> "tests_running",
     ready_for_integration          |-> "ready_for_integration",
     integration_refused_stale_base |-> "blocked"]

(* Mutant: an accepted integration leaves the claim in the dictionary. *)
ReplayLine_KeepsAccepted(claims, e) ==
    CASE e.kind \in AcquireKinds ->
             [c \in DOMAIN claims \cup {e.claim} |->
                 IF c = e.claim THEN EventToActiveClaim(e) ELSE claims[c]]
      [] e.kind = "claim_renewed" /\ e.claim \in DOMAIN claims ->
             [claims EXCEPT ![e.claim] =
                 [@ EXCEPT !.expires = e.ts + e.ttl, !.state = "claimed"]]
      [] e.kind \in StageKinds /\ e.claim \in DOMAIN claims ->
             [claims EXCEPT ![e.claim] = [@ EXCEPT !.state = StateAfter[e.kind]]]
      [] e.kind \in TerminalKinds \cup {"claim_refused_conflict"} ->
             [c \in DOMAIN claims \ {e.claim} |-> claims[c]]
      [] OTHER -> claims

(* One line of the ledger applied to claims_by_id, a function on claim ids. *)
ReplayLine(claims, e) ==
    CASE e.kind \in AcquireKinds ->
             [c \in DOMAIN claims \cup {e.claim} |->
                 IF c = e.claim THEN EventToActiveClaim(e) ELSE claims[c]]
      [] e.kind = "claim_renewed" /\ e.claim \in DOMAIN claims ->
             [claims EXCEPT ![e.claim] =
                 [@ EXCEPT !.expires = e.ts + e.ttl, !.state = "claimed"]]
      [] e.kind \in StageKinds /\ e.claim \in DOMAIN claims ->
             [claims EXCEPT ![e.claim] = [@ EXCEPT !.state = StateAfter[e.kind]]]
      [] e.kind \in EndKinds \cup {"claim_refused_conflict"} ->
             [c \in DOMAIN claims \ {e.claim} |-> claims[c]]
      [] OTHER -> claims

(* claims_by_id after each number of lines; the lines the loop skips change  *)
(* nothing.                                                                  *)
ReplayPass(L, ws) ==
    LET claims_by_id[n \in 0 .. Len(L)] ==
            CASE n = 0 -> <<>>
              [] n > 0 /\ Relevant(L[n], ws) -> ReplayLine(claims_by_id[n - 1], L[n])
              [] OTHER -> claims_by_id[n - 1]
    IN  claims_by_id

ReplayActiveClaims(L, ws, now) ==
    LET claims == ReplayPass(L, ws)[Len(L)]
    IN  [c \in {d \in DOMAIN claims : claims[d].expires > now} |-> claims[c]]

(* The declarative projection names exactly the claims the pass computes,    *)
(* with the paths and authority it computes and with its view of which are   *)
(* still in state claimed, for every filter a caller may use and wherever in *)
(* the ledger the pass ends.                                                 *)
ReplayMatches ==
    \A n \in 0 .. Len(ledger), ws \in Authorities \cup {"any"} :
        LET L        == SubSeq(ledger, 1, n)
            replayed == ReplayActiveClaims(L, ws, clock)
            active   == IF ws = "any" THEN Active(L, clock)
                                      ELSE ActiveIn(L, clock, ws)
        IN  /\ DOMAIN replayed = {L[i].claim : i \in active}
            /\ \A i \in active :
                  LET claim == replayed[L[i].claim]
                  IN  /\ claim.ws = L[i].ws
                      /\ claim.paths = L[i].paths
                      /\ claim.base = L[i].base
                      /\ claim.state = "claimed" <=> InClaimedState(L, i)

=============================================================================

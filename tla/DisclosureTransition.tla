------------------------ MODULE DisclosureTransition ------------------------
(***************************************************************************)
(* The governed disclosure corridor: execute_disclosure_transition and     *)
(* recover_disclosure_transition, and the authorisations that they consume.*)
(* A transition is a chain of events in an append-only ledger.  Between    *)
(* two events the corridor writes one thing elsewhere: the authorisation's *)
(* receipt, the disclosure receipt, the manifest, the disclosure event.    *)
(* A step is one durable write.  The process may die or raise before any   *)
(* of them, and a write may raise after it took effect.                    *)
(*                                                                         *)
(* All transitions are about one projection and its evidence.  A call that *)
(* finds a terminal transition returns it and changes nothing, so it is    *)
(* not a step.                                                             *)
(***************************************************************************)
EXTENDS Naturals, Sequences, FiniteSets

CONSTANTS
    Procs,      \* processes that call the corridor
    Auths,      \* authorisations that have been issued
    Scope,      \* per authorisation, the selector it is bound to, or Unscoped
    MaxUses,    \* per authorisation its max_uses, 1 if it is one_time
    Tids,       \* transition ids that token_hex may produce
    Requests,   \* what callers ask to disclose: selectors, or Unscoped
    Listed,     \* the selectors that the manifest lists
    Faults,     \* what may raise OSError: "receipt", "manifest", "event"
    MaxEvents,  \* bound on the transition ledger
    Unscoped,   \* no selector
    None        \* no process, no id

ASSUME DisclosureAssumptions ==
    /\ MaxUses \in [Auths -> Nat \ {0}] /\ MaxEvents \in Nat
    /\ Scope \in [Auths -> Requests \cup {Unscoped}]
    /\ Listed \subseteq Requests \ {Unscoped}
    /\ Faults \subseteq {"receipt", "manifest", "event"}
    /\ None \notin Procs \cup Tids \cup Auths

VARIABLES
    used,      \* per authorisation, its use_count, or 1 if consumed
    expired,   \* authorisations whose expires_at has passed
    ledger,    \* transitions.jsonl
    receipts,  \* per transition the use that its disclosure receipt names, 0 if none
    manifest,  \* the selectors that the manifest marks as disclosed
    events,    \* disclosure_events.v1.jsonl
    lock,      \* the process inside _acquire_transition_lock
    call       \* per process, the call in progress

vars == <<used, expired, ledger, receipts, manifest, events, lock, call>>

-----------------------------------------------------------------------------
(* The ledger. *)

TERMINAL_STATUSES == {"completed", "refused", "conflict", "corrupt"}

(* Statuses after which the authorisation is not consumed again. *)
Consumed == {"authorization_consumed", "projection_receipt_persisted",
             "manifest_applied", "disclosure_event_recorded"}

Statuses == TERMINAL_STATUSES \cup Consumed \cup {"prepared", "recovery_required"}

(* A plan and how far it got: before and after are the digests of the        *)
(* manifest, digest the one of the consumed receipt.  The manifest's digest  *)
(* is represented by its marks, the receipt's by the use that it seals.      *)
DisclosureTransition(tid, a, sel, before) ==
    [tid |-> tid, auth |-> a, sel |-> sel, before |-> before,
     status |-> "prepared", seq |-> 0, digest |-> 0, after |-> {}]

NoTransition == [DisclosureTransition(None, None, Unscoped, {}) EXCEPT !.status = "none"]

_find_transition_for_auth(a) == {i \in DOMAIN ledger : ledger[i].auth = a}

(* The events are sorted by sequence, and the sort is stable. *)
_last_event_for_auth(a) ==
    LET chain == _find_transition_for_auth(a)
        last  == {i \in chain : \A j \in chain :
                     \/ ledger[j].seq < ledger[i].seq
                     \/ ledger[j].seq = ledger[i].seq /\ j <= i}
    IN  IF last = {} THEN NoTransition ELSE ledger[CHOOSE i \in last : TRUE]

is_terminal(t) == t.status \in TERMINAL_STATUSES

lookup_pending_transition(a) ==
    LET last == _last_event_for_auth(a)
    IN  IF is_terminal(last) THEN NoTransition ELSE last

_append_transition_event(t) ==
    /\ Len(ledger) < MaxEvents
    /\ ledger' = Append(ledger, t)

-----------------------------------------------------------------------------
(* Calls: at, what the call does next; t, its transition object; next, the   *)
(* status it is about to record; from, the status that a recovery found;     *)
(* sel, the selector that the caller asked for.                              *)

Idle == [at |-> "idle", op |-> "none", t |-> NoTransition,
         next |-> "none", from |-> "none", sel |-> Unscoped]

Record(p, t, status) ==
    call' = [call EXCEPT ![p].at = "advance", ![p].t = t, ![p].next = status]

(* Mutant: the call returns without the lock's release. *)
Leave_StillLocked(p) ==
    /\ call' = [call EXCEPT ![p] = Idle]
    /\ UNCHANGED lock

Leave(p) ==
    /\ call' = [call EXCEPT ![p] = Idle]
    /\ lock' = IF lock = p THEN None ELSE lock

(* Up to the lock: no terminal transition exists.  The caller has read the   *)
(* manifest's digest.                                                        *)
execute_disclosure_transition(p, a, sel) ==
    /\ call[p] = Idle
    /\ ~is_terminal(_last_event_for_auth(a))
    /\ call' = [call EXCEPT ![p] =
          [Idle EXCEPT !.at = "lock", !.op = "execute", !.sel = sel,
                       !.t = DisclosureTransition(None, a, sel, manifest)]]
    /\ UNCHANGED <<used, expired, ledger, receipts, manifest, events, lock>>

(* Up to the lock: the plan is the last event, and it is not terminal.       *)
recover_disclosure_transition(p, a) ==
    LET plan == lookup_pending_transition(a)
    IN  /\ call[p] = Idle
        /\ plan # NoTransition
        /\ call' = [call EXCEPT ![p] =
              [Idle EXCEPT !.at = "lock", !.op = "recover", !.t = plan,
                           !.from = plan.status, !.sel = plan.sel]]
        /\ UNCHANGED <<used, expired, ledger, receipts, manifest, events, lock>>

(* A pending transition is continued as it was planned, whatever the caller  *)
(* asked for.  A terminal one that was recorded while this call waited for   *)
(* the lock is not looked for again.                                         *)
prepare_transition(p) ==
    LET pending == lookup_pending_transition(call[p].t.auth)
    IN  /\ call[p].at = "lock" /\ call[p].op = "execute" /\ lock = None
        /\ lock' = p
        /\ \/ /\ pending # NoTransition
              /\ call' = [call EXCEPT ![p].at = "consume", ![p].t = pending]
              /\ UNCHANGED ledger
           \/ /\ pending = NoTransition
              /\ \E tid \in Tids \ {ledger[i].tid : i \in DOMAIN ledger} :
                    LET t == [call[p].t EXCEPT !.tid = tid]
                    IN  /\ _append_transition_event(t)
                        /\ call' = [call EXCEPT ![p].at = "consume", ![p].t = t]
        /\ UNCHANGED <<used, expired, receipts, manifest, events>>

(* Mutant: the last event is not read again under the lock. *)
resume_transition_Stale(p) ==
    /\ call[p].at = "lock" /\ call[p].op = "recover" /\ lock = None
    /\ lock' = p
    /\ call' = [call EXCEPT ![p].at =
          IF call[p].from \in Consumed THEN "verify" ELSE "consume"]
    /\ UNCHANGED <<used, expired, ledger, receipts, manifest, events>>

(* recover_disclosure_transition inside the lock: the last event is read     *)
(* again, but only a later terminal one stops the call; otherwise it goes on *)
(* with the plan that it read before.                                        *)
resume_transition(p) ==
    LET last  == _last_event_for_auth(call[p].t.auth)
        ended == last.seq > call[p].t.seq /\ is_terminal(last)
    IN  /\ call[p].at = "lock" /\ call[p].op = "recover" /\ lock = None
        /\ \/ ended /\ Leave(p)
           \/ /\ ~ended
              /\ lock' = p
              /\ call' = [call EXCEPT ![p].at =
                    IF call[p].from \in Consumed THEN "verify" ELSE "consume"]
        /\ UNCHANGED <<used, expired, ledger, receipts, manifest, events>>

-----------------------------------------------------------------------------
(* Steps inside the lock. *)

(* Unexpired, not used up, and bound to the selector. *)
validate_disclosure_authorization(a, sel) ==
    /\ a \notin expired
    /\ used[a] < MaxUses[a]
    /\ sel = Scope[a]

consume_disclosure_authorization(p) ==
    LET t     == call[p].t
        valid == validate_disclosure_authorization(t.auth, call[p].sel)
    IN  /\ call[p].at = "consume"
        /\ \/ /\ valid
              /\ used' = [used EXCEPT ![t.auth] = @ + 1]
              /\ Record(p, [t EXCEPT !.digest = used[t.auth] + 1], "authorization_consumed")
           \/ ~valid /\ Record(p, t, "refused") /\ UNCHANGED used
        /\ UNCHANGED <<expired, ledger, receipts, manifest, events, lock>>

(* Mutant: the step after the recorded one is taken as done, too. *)
FirstStep_Skips(from) ==
    CASE from = "prepared" -> "receipt"
      [] from = "authorization_consumed" -> "manifest"
      [] from = "projection_receipt_persisted" -> "event"
      [] OTHER -> "complete"

(* Where a recovery goes on that found this status. *)
FirstStep(from) ==
    CASE from \in {"prepared", "authorization_consumed"} -> "receipt"
      [] from = "projection_receipt_persisted" -> "manifest"
      [] from = "manifest_applied" -> "event"
      [] OTHER -> "complete"

(* The authorisation's receipt must be the one that the plan consumed. *)
verify_consumed(p) ==
    LET t == call[p].t
    IN  /\ call[p].at = "verify"
        /\ \/ t.digest \notin {0, used[t.auth]} /\ Record(p, t, "corrupt")
           \/ /\ t.digest \in {0, used[t.auth]}
              /\ call' = [call EXCEPT ![p].at = FirstStep(call[p].from)]
        /\ UNCHANGED <<used, expired, ledger, receipts, manifest, events, lock>>

(* Mutant: the disclosure event is recorded before the manifest is marked. *)
NextStep_EventFirst(op, status) ==
    CASE status = "authorization_consumed" -> IF op = "recover" THEN "verify" ELSE "receipt"
      [] status = "projection_receipt_persisted" -> "event"
      [] status = "disclosure_event_recorded" -> "manifest"
      [] status = "manifest_applied" -> "complete"
      [] OTHER -> "return"

(* What the call does when it has recorded this status. *)
NextStep(op, status) ==
    CASE status = "authorization_consumed" -> IF op = "recover" THEN "verify" ELSE "receipt"
      [] status = "projection_receipt_persisted" -> "manifest"
      [] status = "manifest_applied" -> "event"
      [] status = "disclosure_event_recorded" -> "complete"
      [] OTHER -> "return"

advance_transition(p) ==
    LET t    == [call[p].t EXCEPT !.status = call[p].next, !.seq = @ + 1]
        step == NextStep(call[p].op, call[p].next)
    IN  /\ call[p].at = "advance"
        /\ _append_transition_event(t)
        /\ \/ step = "return" /\ Leave(p)
           \/ /\ step # "return"
              /\ call' = [call EXCEPT ![p].at = step, ![p].t = t]
              /\ UNCHANGED lock
        /\ UNCHANGED <<used, expired, receipts, manifest, events>>

(* The file is written once; a file that says otherwise raises. *)
_persist_receipt_durable(p) ==
    LET t       == call[p].t
        ok      == t.digest \in {0, used[t.auth]} /\ receipts[t.tid] \in {0, used[t.auth]}
        written == [receipts EXCEPT ![t.tid] = used[t.auth]]
    IN  /\ call[p].at = "receipt"
        /\ \/ /\ ok
              /\ receipts' = written
              /\ Record(p, t, "projection_receipt_persisted")
           \/ /\ ~ok \/ "receipt" \in Faults
              /\ receipts' \in IF ok THEN {receipts, written} ELSE {receipts}
              /\ Record(p, t, IF call[p].op = "execute" THEN "refused"
                                                        ELSE "recovery_required")
        /\ UNCHANGED <<used, expired, ledger, manifest, events, lock>>

(* A selector that the manifest does not list is not marked, and the caller  *)
(* does not look at the result: the corridor goes on as if it were.          *)
mark_selector_disclosed(marks, sel) == marks \cup ({sel} \cap Listed)

(* The manifest is the one of the plan, or it is its own post-image. *)
_apply_manifest_mutation(p) ==
    LET t    == call[p].t
        post == mark_selector_disclosed(manifest, t.sel)
        ok   == manifest \in {t.before, post}
    IN  /\ call[p].at = "manifest"
        /\ \/ /\ ok
              /\ manifest' = post
              /\ Record(p, [t EXCEPT !.after = post], "manifest_applied")
           \/ /\ ~ok \/ "manifest" \in Faults
              /\ manifest' \in IF ok THEN {manifest, post} ELSE {manifest}
              /\ Record(p, t, "corrupt")
        /\ UNCHANGED <<used, expired, ledger, receipts, events, lock>>

_build_disclosure_event(t) ==
    [tid |-> t.tid, auth |-> t.auth, sel |-> t.sel, before |-> t.before,
     digest |-> t.digest, after |-> t.after, manifest |-> manifest]

(* Mutant: an event of the same transition is not looked for. *)
_persist_disclosure_event_durable_NoDedup(p) ==
    LET t == call[p].t
    IN  /\ call[p].at = "event"
        /\ \/ /\ events' = Append(events, _build_disclosure_event(t))
              /\ Record(p, t, "disclosure_event_recorded")
           \/ "event" \in Faults /\ UNCHANGED events /\ Record(p, t, "recovery_required")
        /\ UNCHANGED <<used, expired, ledger, receipts, manifest, lock>>

(* Deduplicated by transition; an event that says otherwise raises. *)
_persist_disclosure_event_durable(p) ==
    LET t        == call[p].t
        event    == _build_disclosure_event(t)
        existing == {i \in DOMAIN events : events[i].tid = t.tid}
        ok       == \A i \in existing : events[i] = event
        written  == IF existing = {} THEN Append(events, event) ELSE events
    IN  /\ call[p].at = "event"
        /\ \/ ok /\ events' = written /\ Record(p, t, "disclosure_event_recorded")
           \/ /\ ~ok \/ "event" \in Faults
              /\ events' \in IF ok THEN {events, written} ELSE {events}
              /\ Record(p, t, "recovery_required")
        /\ UNCHANGED <<used, expired, ledger, receipts, manifest, lock>>

complete_transition(p) ==
    /\ call[p].at = "complete"
    /\ Record(p, call[p].t, "completed")
    /\ UNCHANGED <<used, expired, ledger, receipts, manifest, events, lock>>

(* The process dies, or an exception ends the call and releases the lock.    *)
abort(p) ==
    /\ call[p] # Idle
    /\ Leave(p)
    /\ UNCHANGED <<used, expired, ledger, receipts, manifest, events>>

Expire(a) ==
    /\ a \notin expired
    /\ expired' = expired \cup {a}
    /\ UNCHANGED <<used, ledger, receipts, manifest, events, lock, call>>

-----------------------------------------------------------------------------
Init ==
    /\ used = [a \in Auths |-> 0] /\ expired = {}
    /\ ledger = <<>> /\ receipts = [tid \in Tids |-> 0]
    /\ manifest = {} /\ events = <<>>
    /\ lock = None /\ call = [p \in Procs |-> Idle]

Begin(p) ==
    \E a \in Auths :
       \/ recover_disclosure_transition(p, a)
       \/ \E sel \in Requests : execute_disclosure_transition(p, a, sel)

Proceed(p) ==
    \/ prepare_transition(p) \/ resume_transition(p)
    \/ consume_disclosure_authorization(p) \/ verify_consumed(p)
    \/ advance_transition(p)
    \/ _persist_receipt_durable(p) \/ _apply_manifest_mutation(p)
    \/ _persist_disclosure_event_durable(p) \/ complete_transition(p)

Next ==
    \/ \E p \in Procs : Begin(p) \/ Proceed(p) \/ abort(p)
    \/ \E a \in Auths : Expire(a)

Spec == Init /\ [][Next]_vars

-----------------------------------------------------------------------------
(* Properties. *)

Selectors == Requests \ {Unscoped}

Transitions(tids, auths, statuses) ==
    [tid : tids, auth : auths, sel : Requests \cup {Unscoped},
     before : SUBSET Selectors, status : statuses, seq : Nat, digest : Nat,
     after : SUBSET Selectors]

Recorded == Transitions(Tids, Auths, Statuses)

Disclosures ==
    [tid : Tids, auth : Auths, sel : Requests \cup {Unscoped},
     before : SUBSET Selectors, digest : Nat,
     after : SUBSET Selectors, manifest : SUBSET Selectors]

Calls ==
    [at : {"idle", "lock", "consume", "verify", "advance",
           "receipt", "manifest", "event", "complete"},
     op : {"none", "execute", "recover"},
     t : Transitions(Tids \cup {None}, Auths \cup {None}, Statuses \cup {"none"}),
     next : Statuses \cup {"none"}, from : Statuses \cup {"none"},
     sel : Requests \cup {Unscoped}]

Inside(c) == c.at \notin {"idle", "lock"}

(* A call has a plan, which is recorded unless execute still waits. *)
CallOK(c) ==
    /\ c \in Calls
    /\ c.at = "idle" => c = Idle
    /\ c.at = "lock" => c.t.auth \in Auths
    /\ c.at = "lock" /\ c.op # "recover" => c.t.status = "prepared" /\ c.t.digest = 0
    /\ Inside(c) \/ c.op = "recover" => c.t \in Recorded
    /\ c.at = "advance" => c.next \in Statuses

(* The state is well typed, and exactly the process that holds the           *)
(* transition lock has a call inside it.                                     *)
TypeOK ==
    /\ used \in [Auths -> Nat] /\ expired \subseteq Auths
    /\ ledger \in Seq(Recorded)
    /\ receipts \in [Tids -> Nat] /\ manifest \subseteq Selectors
    /\ events \in Seq(Disclosures)
    /\ lock \in Procs \cup {None}
    /\ call \in [Procs -> Calls]
    /\ \A p \in Procs : CallOK(call[p]) /\ (Inside(call[p]) <=> lock = p)

(* consume_disclosure_authorization and the deduplication of                 *)
(* _persist_disclosure_event_durable: every disclosure event is backed by a  *)
(* use of its authorisation that backs no other event, and no authorisation  *)
(* is used more often than it allows, however often calls die and are        *)
(* repeated or recovered.                                                    *)
EachEventItsOwnUse ==
    \A i, j \in DOMAIN events :
       /\ events[i].digest \in 1..MaxUses[events[i].auth]
       /\ i # j /\ events[i].auth = events[j].auth => events[i].digest # events[j].digest

Unlisted == (Requests \cup {Unscoped}) \ Listed

(* The order of the corridor's steps: what a disclosure event says was       *)
(* disclosed is marked in the manifest, if the manifest lists it.            *)
EventIsMarked == \A i \in DOMAIN events : events[i].sel \in manifest \cup Unlisted

Chain(tid) == {i \in DOMAIN ledger : ledger[i].tid = tid}

Reached(tid, status) == \E i \in Chain(tid) : ledger[i].status = status

(* recover_disclosure_transition repeats exactly the steps that are missing: *)
(* a completed transition has its disclosure event.  The exception is a      *)
(* chain that recorded RECOVERY_REQUIRED: its recovery consumes another use  *)
(* of the authorisation, if there is one, and goes straight to COMPLETED.    *)
CompletedIsDisclosed ==
    \A tid \in Tids : Reached(tid, "completed") =>
       \/ \E i \in DOMAIN events : events[i].tid = tid
       \/ Reached(tid, "recovery_required")

(* Two recoveries that read the same unfinished plan: the one that gets the  *)
(* lock second finds the transition completed.  A chain that recorded        *)
(* RECOVERY_REQUIRED is again the exception: each of its recoveries consumes *)
(* a use of its own and may complete the transition once more.               *)
CompletedOnce ==
    \A tid \in Tids : ~Reached(tid, "recovery_required") =>
       \A i, j \in Chain(tid) :
          ledger[i].status = "completed" /\ ledger[j].status = "completed" => i = j

=============================================================================

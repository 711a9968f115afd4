--------------------- MODULE DisclosureTransitionProofs ---------------------
(***************************************************************************)
(* Theorems about DisclosureTransition, for any processes, authorisations, *)
(* requests, faults and bounds.                                            *)
(***************************************************************************)
EXTENDS DisclosureTransition, NaturalsInduction, WellFoundedInduction, TLAPS

(* What a lookup returns is a recorded event of the authorisation, or none.  *)
LEMMA LookupRecorded ==
    ASSUME TypeOK, NEW a
    PROVE  LET t == _last_event_for_auth(a) IN
           \/ t = NoTransition
           \/ t \in Recorded /\ t.auth = a /\ \E i \in DOMAIN ledger : t = ledger[i]
<1> DEFINE chain == _find_transition_for_auth(a)
           last  == {i \in chain : \A j \in chain :
                        \/ ledger[j].seq < ledger[i].seq
                        \/ ledger[j].seq = ledger[i].seq /\ j <= i}
<1>1. CASE last = {}
      BY <1>1 DEF _last_event_for_auth
<1>2. CASE last # {}
  <2> DEFINE k == CHOOSE i \in last : TRUE
  <2>1. k \in last
        BY <1>2
  <2>2. k \in DOMAIN ledger /\ ledger[k].auth = a
        BY <2>1 DEF _find_transition_for_auth
  <2>3. ledger[k] \in Recorded
        BY <2>2 DEF TypeOK
  <2>4. _last_event_for_auth(a) = ledger[k]
        BY <1>2 DEF _last_event_for_auth
  <2> QED
      BY <2>2, <2>3, <2>4
<1> QED
    BY <1>1, <1>2

LEMMA PendingRecorded ==
    ASSUME TypeOK, NEW a, lookup_pending_transition(a) # NoTransition
    PROVE  LET t == lookup_pending_transition(a) IN
           t \in Recorded /\ t.auth = a /\ \E i \in DOMAIN ledger : t = ledger[i]
BY LookupRecorded DEF lookup_pending_transition

AnyTransition == Transitions(Tids \cup {None}, Auths \cup {None}, Statuses \cup {"none"})

LEMMA RecordedIsTransition == Recorded \subseteq AnyTransition
BY DEF Recorded, Transitions, AnyTransition

LEMMA IdleTyped == Idle \in Calls /\ CallOK(Idle) /\ ~Inside(Idle)
<1>1. NoTransition \in AnyTransition
      BY DEF NoTransition, DisclosureTransition, Transitions, AnyTransition
<1>2. Idle \in Calls
      BY <1>1 DEF Idle, Calls, AnyTransition
<1> QED
    BY <1>2 DEF CallOK, Inside, Idle

-----------------------------------------------------------------------------
(* Calls.  A step replaces the call of one process; what the calls of all    *)
(* processes must satisfy follows from what the new one does.                *)

LEMMA CallReplaced ==
    ASSUME TypeOK, NEW p \in Procs, NEW c, CallOK(c),
           call' = [call EXCEPT ![p] = c],
           Inside(c) <=> lock' = p,
           lock' \in Procs \cup {None},
           \A q \in Procs \ {p} : lock' = q <=> lock = q
    PROVE  /\ call' \in [Procs -> Calls]
           /\ \A q \in Procs : CallOK(call[q])' /\ (Inside(call[q])' <=> lock' = q)
<1>1. call'[p] = c /\ \A q \in Procs \ {p} : call'[q] = call[q]
      BY DEF TypeOK
<1>2. call' \in [Procs -> Calls]
      BY DEF TypeOK, CallOK
<1>3. CallOK(call[p])' /\ (Inside(call[p])' <=> lock' = p)
      BY <1>1 DEF CallOK, Inside
<1>4. ASSUME NEW q \in Procs \ {p}
      PROVE  CallOK(call[q])' /\ (Inside(call[q])' <=> lock' = q)
  <2>1. call'[q] = call[q]
        BY <1>1
  <2>2. CallOK(call[q]) /\ (Inside(call[q]) <=> lock = q)
        BY DEF TypeOK
  <2> QED
      BY <2>1, <2>2 DEF CallOK, Inside
<1> QED
    BY <1>2, <1>3, <1>4

LEMMA LeaveTyped ==
    ASSUME TypeOK, NEW p \in Procs, Leave(p)
    PROVE  /\ call' \in [Procs -> Calls] /\ lock' \in Procs \cup {None}
           /\ \A q \in Procs : CallOK(call[q])' /\ (Inside(call[q])' <=> lock' = q)
<1>1. lock' \in Procs \cup {None} /\ lock' # p
      BY DisclosureAssumptions DEF TypeOK, Leave
<1>2. \A q \in Procs \ {p} : lock' = q <=> lock = q
      BY DisclosureAssumptions DEF Leave
<1>3. call' = [call EXCEPT ![p] = Idle]
      BY DEF Leave
<1> QED
    BY <1>1, <1>2, <1>3, IdleTyped, CallReplaced

(* A call inside the lock that goes on to another step. *)
LEMMA GotoTyped ==
    ASSUME TypeOK, NEW p \in Procs, NEW t \in Recorded, NEW at, NEW next \in Statuses \cup {"none"},
           at \in {"consume", "verify", "advance", "receipt", "manifest", "event", "complete"},
           at = "advance" => next \in Statuses,
           call' = [call EXCEPT ![p] = [call[p] EXCEPT !.at = at, !.t = t, !.next = next]],
           lock' = p, lock \in {p, None}
    PROVE  /\ call' \in [Procs -> Calls]
           /\ \A q \in Procs : CallOK(call[q])' /\ (Inside(call[q])' <=> lock' = q)
<1> DEFINE c == [call[p] EXCEPT !.at = at, !.t = t, !.next = next]
<1>1. call[p] \in Calls
      BY DEF TypeOK
<1>2. t \in AnyTransition
      BY RecordedIsTransition
<1>3. c \in Calls
      BY <1>1, <1>2 DEF Calls, AnyTransition
<1>4. c.at = at /\ c.t = t /\ c.next = next
      BY <1>1 DEF Calls
<1> HIDE DEF c
<1>5. CallOK(c) /\ Inside(c)
      BY <1>3, <1>4 DEF CallOK, Inside
<1>6. \A q \in Procs \ {p} : lock' = q <=> lock = q
      BY DisclosureAssumptions
<1>7. call' = [call EXCEPT ![p] = c]
      BY DEF c
<1> QED
    BY <1>5, <1>6, <1>7, CallReplaced

LEMMA RecordTyped ==
    ASSUME TypeOK, NEW p \in Procs, NEW t \in Recorded, NEW status \in Statuses,
           Inside(call[p]), Record(p, t, status), UNCHANGED lock
    PROVE  /\ call' \in [Procs -> Calls] /\ lock' \in Procs \cup {None}
           /\ \A q \in Procs : CallOK(call[q])' /\ (Inside(call[q])' <=> lock' = q)
<1>1. call[p] \in Calls /\ lock = p
      BY DEF TypeOK
<1>2. call' = [call EXCEPT ![p] = [call[p] EXCEPT !.at = "advance", !.t = t, !.next = status]]
      BY <1>1 DEF Record, TypeOK, Calls
<1> QED
    BY <1>1, <1>2, GotoTyped DEF TypeOK
-----------------------------------------------------------------------------
(* Typing. *)

LEMMA BeginTyped ==
    ASSUME TypeOK, NEW p \in Procs, Begin(p)
    PROVE  TypeOK'
<1>1. ASSUME NEW a \in Auths, NEW sel \in Requests, execute_disclosure_transition(p, a, sel)
      PROVE  TypeOK'
  <2> DEFINE t == DisclosureTransition(None, a, sel, manifest)
             c == [Idle EXCEPT !.at = "lock", !.op = "execute", !.sel = sel, !.t = t]
  <2>1. t \in AnyTransition /\ t.auth = a /\ t.status = "prepared" /\ t.digest = 0
        BY DEF TypeOK, DisclosureTransition, Transitions, Statuses, AnyTransition
  <2> HIDE DEF t
  <2>2. c \in Calls /\ c.at = "lock" /\ c.op = "execute" /\ c.t = t
        BY <2>1, IdleTyped DEF Calls, Idle, AnyTransition
  <2>3. call' = [call EXCEPT ![p] = c]
        BY <1>1 DEF execute_disclosure_transition, t
  <2> HIDE DEF c
  <2>4. CallOK(c) /\ ~Inside(c)
        BY <2>1, <2>2 DEF CallOK, Inside
  <2>5. lock # p
        BY <1>1, IdleTyped DEF TypeOK, execute_disclosure_transition
  <2> QED
      BY <1>1, <2>3, <2>4, <2>5, CallReplaced DEF TypeOK, execute_disclosure_transition
<1>2. ASSUME NEW a \in Auths, recover_disclosure_transition(p, a)
      PROVE  TypeOK'
  <2> DEFINE t == lookup_pending_transition(a)
             c == [Idle EXCEPT !.at = "lock", !.op = "recover", !.t = t,
                               !.from = t.status, !.sel = t.sel]
  <2>1. t \in Recorded /\ t.auth = a
        BY <1>2, PendingRecorded DEF recover_disclosure_transition
  <2>2. call' = [call EXCEPT ![p] = c]
        BY <1>2 DEF recover_disclosure_transition
  <2> HIDE DEF t
  <2>3. t \in AnyTransition /\ t.status \in Statuses /\ t.sel \in Requests \cup {Unscoped}
        BY <2>1, RecordedIsTransition DEF Recorded, Transitions
  <2>4. c \in Calls /\ c.at = "lock" /\ c.op = "recover" /\ c.t = t
        BY <2>3, IdleTyped DEF Calls, Idle, AnyTransition
  <2> HIDE DEF c
  <2>5. CallOK(c) /\ ~Inside(c)
        BY <2>1, <2>3, <2>4 DEF CallOK, Inside
  <2>6. lock # p
        BY <1>2, IdleTyped DEF TypeOK, recover_disclosure_transition
  <2> QED
      BY <1>2, <2>2, <2>5, <2>6, CallReplaced DEF TypeOK, recover_disclosure_transition
<1> QED
    BY <1>1, <1>2 DEF Begin

LEMMA LockingTyped ==
    ASSUME TypeOK, NEW p \in Procs, prepare_transition(p) \/ resume_transition(p)
    PROVE  TypeOK'
<1>0. call[p] \in Calls /\ CallOK(call[p]) /\ call[p].at = "lock" /\ lock = None
      BY DEF TypeOK, prepare_transition, resume_transition
<1>1. CASE prepare_transition(p)
  <2>1. ASSUME NEW t \in Recorded,
               call' = [call EXCEPT ![p].at = "consume", ![p].t = t],
               ledger' \in Seq(Recorded)
        PROVE  TypeOK'
    <3> DEFINE next == call[p].next
               at == "consume"
    <3>1. call' = [call EXCEPT ![p] = [call[p] EXCEPT !.at = at, !.t = t, !.next = next]]
          BY <1>0, <2>1 DEF TypeOK, Calls
    <3>2. next \in Statuses \cup {"none"} /\ at \in {"verify", "consume"}
          BY <1>0 DEF Calls
    <3>3. lock' = p
          BY <1>1 DEF prepare_transition
    <3> HIDE DEF next, at
    <3>4. /\ call' \in [Procs -> Calls]
          /\ \A q \in Procs : CallOK(call[q])' /\ (Inside(call[q])' <=> lock' = q)
          BY <1>0, <3>1, <3>2, <3>3, GotoTyped
    <3> QED
        BY <1>1, <2>1, <3>3, <3>4 DEF TypeOK, prepare_transition
  <2> DEFINE pending == lookup_pending_transition(call[p].t.auth)
  <2>2. CASE pending # NoTransition
    <3>1. pending \in Recorded
          BY <2>2, PendingRecorded
    <3>2. call' = [call EXCEPT ![p].at = "consume", ![p].t = pending] /\ ledger' = ledger
          BY <1>1, <2>2 DEF prepare_transition
    <3> QED
        BY <2>1, <3>1, <3>2 DEF TypeOK
  <2>3. CASE pending = NoTransition
    <3>1. PICK tid \in Tids :
             LET t == [call[p].t EXCEPT !.tid = tid]
             IN  /\ _append_transition_event(t)
                 /\ call' = [call EXCEPT ![p].at = "consume", ![p].t = t]
          BY <1>1, <2>3 DEF prepare_transition
    <3> DEFINE t == [call[p].t EXCEPT !.tid = tid]
    <3>2. call[p].t \in AnyTransition /\ call[p].t.auth \in Auths /\ call[p].t.status \in Statuses
          BY <1>0, <1>1 DEF Calls, CallOK, AnyTransition, Statuses, prepare_transition
    <3>3. t \in Recorded
          BY <3>2 DEF Recorded, Transitions, AnyTransition
    <3>4. ledger' = Append(ledger, t) /\ call' = [call EXCEPT ![p].at = "consume", ![p].t = t]
          BY <3>1 DEF _append_transition_event
    <3> HIDE DEF t
    <3>5. ledger' \in Seq(Recorded)
          BY <3>3, <3>4 DEF TypeOK
    <3> QED
        BY <2>1, <3>3, <3>4, <3>5
  <2> QED
      BY <2>2, <2>3
<1>2. CASE resume_transition(p)
  <2>1. CASE Leave(p)
        BY <1>2, <2>1, LeaveTyped DEF TypeOK, resume_transition
  <2>2. CASE ~Leave(p)
    <3> DEFINE at == IF call[p].from \in Consumed THEN "verify" ELSE "consume"
               t == call[p].t
               next == call[p].next
    <3>1. lock' = p /\ call' = [call EXCEPT ![p].at = at]
          BY <1>2, <2>2 DEF resume_transition
    <3>2. call' = [call EXCEPT ![p] = [call[p] EXCEPT !.at = at, !.t = t, !.next = next]]
          BY <1>0, <3>1 DEF TypeOK, Calls
    <3>3. next \in Statuses \cup {"none"} /\ t \in Recorded
          BY <1>0, <1>2 DEF Calls, CallOK, resume_transition
    <3>4. at \in {"verify", "consume"}
          OBVIOUS
    <3> HIDE DEF at, t, next
    <3>5. /\ call' \in [Procs -> Calls]
          /\ \A q \in Procs : CallOK(call[q])' /\ (Inside(call[q])' <=> lock' = q)
          BY <1>0, <3>1, <3>2, <3>3, <3>4, GotoTyped
    <3> QED
        BY <1>2, <3>1, <3>5 DEF TypeOK, resume_transition
  <2> QED
      BY <2>1, <2>2
<1> QED
    BY <1>1, <1>2

(* What a call inside the lock may rely on. *)
LEMMA InsideTyped ==
    ASSUME TypeOK, NEW p \in Procs, call[p].at \notin {"idle", "lock"}
    PROVE  /\ Inside(call[p]) /\ lock = p /\ call[p] \in Calls /\ CallOK(call[p])
           /\ call[p].t \in Recorded /\ call[p].t.auth \in Auths /\ call[p].t.tid \in Tids
           /\ used[call[p].t.auth] \in Nat
<1>1. Inside(call[p]) /\ call[p] \in Calls /\ CallOK(call[p])
      BY DEF TypeOK, Inside
<1>2. call[p].t \in Recorded
      BY <1>1 DEF CallOK
<1> QED
    BY <1>1, <1>2 DEF TypeOK, Recorded, Transitions

LEMMA ConsumeTyped ==
    ASSUME TypeOK, NEW p \in Procs, consume_disclosure_authorization(p)
    PROVE  TypeOK'
<1> DEFINE t == call[p].t
           v == [t EXCEPT !.digest = used[t.auth] + 1]
<1>0. call[p].at \notin {"idle", "lock"}
      BY DEF consume_disclosure_authorization
<1>1. t \in Recorded /\ Inside(call[p]) /\ t.auth \in Auths /\ used[t.auth] \in Nat
      BY <1>0, InsideTyped
<1>2. v \in Recorded
      BY <1>1 DEF Recorded, Transitions
<1>3. "refused" \in Statuses /\ "authorization_consumed" \in Statuses
      BY DEF Statuses, TERMINAL_STATUSES, Consumed
<1>4. UNCHANGED lock /\ used' \in [Auths -> Nat]
      BY <1>1 DEF consume_disclosure_authorization, TypeOK
<1>5. Record(p, v, "authorization_consumed") \/ Record(p, t, "refused")
      BY DEF consume_disclosure_authorization
<1> HIDE DEF t, v
<1>6. /\ call' \in [Procs -> Calls] /\ lock' \in Procs \cup {None}
      /\ \A q \in Procs : CallOK(call[q])' /\ (Inside(call[q])' <=> lock' = q)
      BY <1>1, <1>2, <1>3, <1>4, <1>5, RecordTyped
<1> QED
    BY <1>4, <1>6 DEF TypeOK, consume_disclosure_authorization

LEMMA AdvanceTyped ==
    ASSUME TypeOK, NEW p \in Procs, advance_transition(p)
    PROVE  TypeOK'
<1> DEFINE t == [call[p].t EXCEPT !.status = call[p].next, !.seq = @ + 1]
           step == NextStep(call[p].op, call[p].next)
           next == call[p].next
<1>0. call[p].at = "advance"
      BY DEF advance_transition
<1>1. /\ call[p].t \in Recorded /\ lock = p /\ call[p] \in Calls /\ CallOK(call[p])
      BY <1>0, InsideTyped
<1>2. next \in Statuses
      BY <1>0, <1>1 DEF CallOK
<1>3. t \in Recorded
  <2>1. call[p].t.seq + 1 \in Nat
        BY <1>1 DEF Recorded, Transitions
  <2>2. t = [call[p].t EXCEPT !.status = next, !.seq = call[p].t.seq + 1]
        OBVIOUS
  <2> HIDE DEF next, t
  <2> QED
      BY <1>1, <1>2, <2>1, <2>2 DEF Recorded, Transitions
<1>4. ledger' \in Seq(Recorded)
      BY <1>3 DEF advance_transition, _append_transition_event, TypeOK
<1>5. step \in {"verify", "receipt", "manifest", "event", "complete", "return"}
      BY DEF NextStep
<1>6. CASE Leave(p)
      BY <1>4, <1>6, LeaveTyped DEF TypeOK, advance_transition
<1>7. CASE ~Leave(p)
  <2>1. step # "return" /\ call' = [call EXCEPT ![p].at = step, ![p].t = t] /\ lock' = p
        BY <1>1, <1>7 DEF advance_transition
  <2>2. call' = [call EXCEPT ![p] = [call[p] EXCEPT !.at = step, !.t = t, !.next = next]]
        BY <1>1, <2>1 DEF TypeOK, Calls
  <2> HIDE DEF step, t, next
  <2>3. /\ call' \in [Procs -> Calls]
        /\ \A q \in Procs : CallOK(call[q])' /\ (Inside(call[q])' <=> lock' = q)
        BY <1>1, <1>2, <1>3, <1>5, <2>1, <2>2, GotoTyped
  <2> QED
      BY <1>4, <2>1, <2>3 DEF TypeOK, advance_transition
<1> QED
    BY <1>6, <1>7

LEMMA VerifyTyped ==
    ASSUME TypeOK, NEW p \in Procs, verify_consumed(p)
    PROVE  TypeOK'
<1> DEFINE t == call[p].t
           at == FirstStep(call[p].from)
           next == call[p].next
<1>0. call[p].at = "verify"
      BY DEF verify_consumed
<1>1. t \in Recorded /\ lock = p /\ call[p] \in Calls /\ Inside(call[p])
      BY <1>0, InsideTyped
<1>2. next \in Statuses \cup {"none"}
      BY <1>1 DEF Calls
<1>3. at \in {"receipt", "manifest", "event", "complete"}
      BY DEF FirstStep
<1>4. "corrupt" \in Statuses
      BY DEF Statuses, TERMINAL_STATUSES
<1>5. UNCHANGED lock
      BY DEF verify_consumed
<1>6. \/ Record(p, t, "corrupt")
      \/ call' = [call EXCEPT ![p] = [call[p] EXCEPT !.at = at, !.t = t, !.next = next]]
      BY <1>1 DEF verify_consumed, TypeOK, Calls
<1> HIDE DEF t, at, next
<1>7. /\ call' \in [Procs -> Calls] /\ lock' \in Procs \cup {None}
      /\ \A q \in Procs : CallOK(call[q])' /\ (Inside(call[q])' <=> lock' = q)
  <2>1. CASE Record(p, t, "corrupt")
        BY <1>1, <1>4, <1>5, <2>1, RecordTyped
  <2>2. CASE ~Record(p, t, "corrupt")
        BY <1>1, <1>2, <1>3, <1>5, <1>6, <2>2, GotoTyped
  <2> QED
      BY <2>1, <2>2
<1> QED
    BY <1>7 DEF TypeOK, verify_consumed

LEMMA ArtifactTyped ==
    ASSUME TypeOK, NEW p \in Procs,
           \/ _persist_receipt_durable(p) \/ _apply_manifest_mutation(p)
           \/ _persist_disclosure_event_durable(p) \/ complete_transition(p)
    PROVE  TypeOK'
<1> DEFINE t == call[p].t
<1>0. call[p].at \notin {"idle", "lock"}
      BY DEF _persist_receipt_durable, _apply_manifest_mutation,
             _persist_disclosure_event_durable, complete_transition
<1>1. /\ t \in Recorded /\ Inside(call[p]) /\ t.auth \in Auths /\ t.tid \in Tids
      /\ used[t.auth] \in Nat /\ t.sel \in Requests \cup {Unscoped}
      /\ t.digest \in Nat /\ t.before \subseteq Selectors /\ t.after \subseteq Selectors
      BY <1>0, InsideTyped DEF Recorded, Transitions
<1>2. {"refused", "recovery_required", "corrupt", "completed", "manifest_applied",
       "projection_receipt_persisted", "disclosure_event_recorded"} \subseteq Statuses
      BY DEF Statuses, TERMINAL_STATUSES, Consumed
<1>3. CASE _persist_receipt_durable(p)
  <2>1. receipts' \in [Tids -> Nat]
        BY <1>1, <1>3 DEF _persist_receipt_durable, TypeOK
  <2>2. PICK s \in Statuses : Record(p, t, s)
        BY <1>2, <1>3 DEF _persist_receipt_durable
  <2> HIDE DEF t
  <2> QED
      BY <1>1, <1>3, <2>1, <2>2, RecordTyped DEF TypeOK, _persist_receipt_durable
<1>4. CASE _apply_manifest_mutation(p)
  <2> DEFINE post == mark_selector_disclosed(manifest, t.sel)
             v == [t EXCEPT !.after = post]
  <2>1. post \subseteq Selectors
        BY <1>1, DisclosureAssumptions DEF mark_selector_disclosed, Selectors, TypeOK
  <2>2. v \in Recorded
        BY <1>1, <2>1 DEF Recorded, Transitions
  <2>3. manifest' \subseteq Selectors
        BY <1>4, <2>1 DEF _apply_manifest_mutation, TypeOK
  <2>4. Record(p, v, "manifest_applied") \/ Record(p, t, "corrupt")
        BY <1>4 DEF _apply_manifest_mutation
  <2> HIDE DEF t, v
  <2> QED
      BY <1>1, <1>2, <1>4, <2>2, <2>3, <2>4, RecordTyped DEF TypeOK, _apply_manifest_mutation
<1>5. CASE _persist_disclosure_event_durable(p)
  <2>1. _build_disclosure_event(t) \in Disclosures
        BY <1>1 DEF _build_disclosure_event, Disclosures, TypeOK
  <2>2. events' \in Seq(Disclosures)
    <3>1. events' = events \/ events' = Append(events, _build_disclosure_event(t))
          BY <1>5 DEF _persist_disclosure_event_durable
    <3>2. events \in Seq(Disclosures)
          BY DEF TypeOK
    <3> QED
        BY <2>1, <3>1, <3>2
  <2>3. PICK s \in Statuses : Record(p, t, s)
        BY <1>2, <1>5 DEF _persist_disclosure_event_durable
  <2> HIDE DEF t
  <2> QED
      BY <1>1, <1>5, <2>2, <2>3, RecordTyped DEF TypeOK, _persist_disclosure_event_durable
<1>6. CASE complete_transition(p)
  <2>1. Record(p, t, "completed")
        BY <1>6 DEF complete_transition
  <2> HIDE DEF t
  <2> QED
      BY <1>1, <1>2, <1>6, <2>1, RecordTyped DEF TypeOK, complete_transition
<1> QED
    BY <1>3, <1>4, <1>5, <1>6

(* The corridor's state is well typed, and a call is inside the transition   *)
(* lock exactly while its process holds it, through deaths and exceptions.   *)
THEOREM TypeCorrect == Spec => []TypeOK
<1>1. Init => TypeOK
  <2> SUFFICES ASSUME Init PROVE TypeOK
      OBVIOUS
  <2>1. \A p \in Procs : call[p] = Idle
        BY DEF Init
  <2>2. call \in [Procs -> Calls]
        BY IdleTyped DEF Init
  <2> QED
      BY <2>1, <2>2, IdleTyped, DisclosureAssumptions DEF Init, TypeOK
<1>2. TypeOK /\ [Next]_vars => TypeOK'
  <2> SUFFICES ASSUME TypeOK, [Next]_vars PROVE TypeOK'
      OBVIOUS
  <2>1. ASSUME NEW p \in Procs, abort(p) PROVE TypeOK'
        BY <2>1, LeaveTyped DEF TypeOK, abort
  <2>2. ASSUME NEW a \in Auths, Expire(a) PROVE TypeOK'
    <3>1. \A q \in Procs : CallOK(call[q])' /\ (Inside(call[q])' <=> lock' = q)
          BY <2>2 DEF Expire, TypeOK, CallOK, Inside
    <3> QED
        BY <2>2, <3>1 DEF Expire, TypeOK
  <2>3. CASE UNCHANGED vars
    <3>1. \A q \in Procs : CallOK(call[q])' /\ (Inside(call[q])' <=> lock' = q)
          BY <2>3 DEF vars, TypeOK, CallOK, Inside
    <3> QED
        BY <2>3, <3>1 DEF vars, TypeOK
  <2>4. ASSUME NEW p \in Procs, Proceed(p) PROVE TypeOK'
        BY <2>4, LockingTyped, ConsumeTyped, VerifyTyped, AdvanceTyped, ArtifactTyped DEF Proceed
  <2> QED
      BY <2>1, <2>2, <2>3, <2>4, BeginTyped DEF Next
<1> QED
    BY <1>1, <1>2, PTL DEF Spec

-----------------------------------------------------------------------------
(* The use of an authorisation that a call consumed is what ties the ledger, *)
(* the calls and the disclosure events together.  The inductive invariant is *)
(* about everything that holds a use: a use is held for one transition only, *)
(* and from its consumption on a transition holds one.                       *)

Key(x) == [tid |-> x.tid, auth |-> x.auth, digest |-> x.digest]

Held ==
    {Key(ledger[i]) : i \in DOMAIN ledger} \cup {Key(events[i]) : i \in DOMAIN events}
        \cup {Key(call[p].t) : p \in Procs}

HoldsUse(c) ==
    \/ c.at \in {"verify", "receipt", "manifest", "event", "complete"}
    \/ c.at = "lock" /\ c.from \in Consumed
    \/ c.at = "advance" /\ c.next \in Consumed

UsesBounded == \A a \in Auths : used[a] <= MaxUses[a]

HeldWasConsumed ==
    \A k \in Held : k.digest # 0 => k.auth \in Auths /\ k.digest <= used[k.auth]

HeldByOne ==
    \A k, l \in Held :
       k.digest # 0 /\ k.auth = l.auth /\ k.digest = l.digest => k.tid = l.tid

EventsDistinct ==
    \A i, j \in DOMAIN events :
       events[i].digest # 0 /\ (events[i].tid = events[j].tid => i = j)

LedgerHolds == \A i \in DOMAIN ledger : ledger[i].status \in Consumed => ledger[i].digest # 0

CallsHold == \A p \in Procs : HoldsUse(call[p]) => call[p].t.digest # 0

UseInv ==
    /\ UsesBounded /\ HeldWasConsumed /\ HeldByOne
    /\ EventsDistinct /\ LedgerHolds /\ CallsHold

(* A key that a step may add without consuming a use. *)
Old(k) == k \in Held \/ k.digest = 0

LEMMA AppendedAt ==
    ASSUME NEW S, NEW s \in Seq(S), NEW e, NEW i \in DOMAIN Append(s, e)
    PROVE  \/ i \in DOMAIN s /\ Append(s, e)[i] = s[i]
           \/ i = Len(s) + 1 /\ Append(s, e)[i] = e
OBVIOUS

(* A step that consumes nothing: the new call, the new line of the ledger    *)
(* and the new disclosure event hold what was held before.                   *)
LEMMA UseInvKept ==
    ASSUME TypeOK, TypeOK', UseInv, used' = used,
           NEW p \in Procs, NEW c, call' = [call EXCEPT ![p] = c],
           Old(Key(c.t)), HoldsUse(c) => c.t.digest # 0,
           \/ ledger' = ledger
           \/ \E e : /\ ledger' = Append(ledger, e) /\ Old(Key(e))
                     /\ e.status \in Consumed => e.digest # 0,
           \/ events' = events
           \/ \E e : /\ events' = Append(events, e) /\ Old(Key(e)) /\ e.digest # 0
                     /\ \A i \in DOMAIN events : events[i].tid # e.tid
    PROVE  UseInv'
<1>1. call'[p] = c /\ \A q \in Procs \ {p} : call'[q] = call[q]
      BY DEF TypeOK
<1>2. \A i \in DOMAIN ledger' :
         \/ i \in DOMAIN ledger /\ ledger'[i] = ledger[i]
         \/ Old(Key(ledger'[i])) /\ (ledger'[i].status \in Consumed => ledger'[i].digest # 0)
  <2>1. CASE ledger' = ledger
        BY <2>1
  <2>2. CASE ledger' # ledger
    <3>1. PICK e : /\ ledger' = Append(ledger, e) /\ Old(Key(e))
                   /\ e.status \in Consumed => e.digest # 0
          BY <2>2
    <3>2. ledger \in Seq(Recorded)
          BY DEF TypeOK
    <3> QED
        BY <3>1, <3>2, AppendedAt
  <2> QED
      BY <2>1, <2>2
<1>3. \A i \in DOMAIN events' :
         \/ i \in DOMAIN events /\ events'[i] = events[i]
         \/ /\ Old(Key(events'[i])) /\ events'[i].digest # 0
            /\ \A j \in DOMAIN events : events[j].tid # events'[i].tid
            /\ i = Len(events) + 1
  <2>1. CASE events' = events
        BY <2>1
  <2>2. CASE events' # events
    <3>1. PICK e : /\ events' = Append(events, e) /\ Old(Key(e)) /\ e.digest # 0
                   /\ \A i \in DOMAIN events : events[i].tid # e.tid
          BY <2>2
    <3>2. events \in Seq(Disclosures)
          BY DEF TypeOK
    <3> QED
        BY <3>1, <3>2, AppendedAt
  <2> QED
      BY <2>1, <2>2
<1>4. ASSUME NEW k \in Held' PROVE Old(k)
  <2>1. CASE \E i \in DOMAIN ledger' : k = Key(ledger'[i])
        BY <1>2, <2>1 DEF Held, Old
  <2>2. CASE \E i \in DOMAIN events' : k = Key(events'[i])
        BY <1>3, <2>2 DEF Held, Old
  <2>3. CASE \E q \in Procs : k = Key(call'[q].t)
        BY <1>1, <2>3 DEF Held, Old
  <2> QED
      BY <2>1, <2>2, <2>3 DEF Held, Key
<1>5. UsesBounded' /\ HeldWasConsumed'
      BY <1>4 DEF UseInv, UsesBounded, HeldWasConsumed, Old
<1>6. HeldByOne'
      BY <1>4 DEF UseInv, HeldByOne, Old
<1>7. EventsDistinct'
      BY <1>3 DEF UseInv, EventsDistinct, TypeOK
<1>8. LedgerHolds'
      BY <1>2 DEF UseInv, LedgerHolds
<1>9. CallsHold'
      BY <1>1 DEF UseInv, CallsHold, HoldsUse
<1> QED
    BY <1>5, <1>6, <1>7, <1>8, <1>9 DEF UseInv

(* The consumption itself: the use is new, and held by one call only. *)
LEMMA UseConsumed ==
    ASSUME TypeOK, TypeOK', UseInv, NEW p \in Procs, NEW c,
           NEW a \in Auths, used[a] < MaxUses[a], used' = [used EXCEPT ![a] = @ + 1],
           call' = [call EXCEPT ![p] = c], c.t.auth = a, c.t.digest = used[a] + 1,
           UNCHANGED <<ledger, events>>
    PROVE  UseInv'
<1>1. call'[p] = c /\ \A q \in Procs \ {p} : call'[q] = call[q]
      BY DEF TypeOK
<1>2. used'[a] = used[a] + 1 /\ used[a] \in Nat /\ \A b \in Auths \ {a} : used'[b] = used[b]
      BY DEF TypeOK
<1>3. \A k \in Held' : k \in Held \/ k = Key(c.t)
      BY <1>1 DEF Held
<1>4. Key(c.t).auth = a /\ Key(c.t).digest = used[a] + 1
      BY DEF Key
<1>5. \A b \in Auths : used[b] \in Nat /\ used[b] <= used'[b]
  <2>1. \A b \in Auths : used[b] \in Nat
        BY DEF TypeOK
  <2> QED
      BY <1>2, <2>1
<1>6. \A k \in Held : k.digest \in Nat
  <2>1. \A i \in DOMAIN ledger : ledger[i] \in Recorded
        BY DEF TypeOK
  <2>2. \A i \in DOMAIN events : events[i] \in Disclosures
        BY DEF TypeOK
  <2>3. \A q \in Procs : call[q] \in Calls
        BY DEF TypeOK
  <2>4. \A x : x \in Recorded \/ x \in Disclosures => Key(x).digest \in Nat
        BY DEF Recorded, Transitions, Disclosures, Key
  <2>5. \A x \in Calls : Key(x.t).digest \in Nat
        BY DEF Calls, Transitions, Key
  <2> QED
      BY <2>1, <2>2, <2>3, <2>4, <2>5 DEF Held
<1>7. UsesBounded'
  <2>1. MaxUses[a] \in Nat
        BY DisclosureAssumptions
  <2>2. used[a] + 1 <= MaxUses[a]
        BY <1>2, <2>1
  <2> QED
      BY <1>2, <2>2 DEF UseInv, UsesBounded
<1>8. HeldWasConsumed'
      BY <1>2, <1>3, <1>4, <1>5, <1>6 DEF UseInv, HeldWasConsumed
<1>9. HeldByOne'
  <2>1. \A k \in Held : k.auth = a => k.digest # used[a] + 1
        BY <1>2, <1>6 DEF UseInv, HeldWasConsumed
  <2> QED
      BY <1>3, <1>4, <2>1 DEF UseInv, HeldByOne
<1>10. EventsDistinct' /\ LedgerHolds'
      BY DEF UseInv, EventsDistinct, LedgerHolds
<1>11. CallsHold'
      BY <1>1, <1>2 DEF UseInv, CallsHold, HoldsUse
<1> QED
    BY <1>7, <1>8, <1>9, <1>10, <1>11 DEF UseInv

LEMMA HeldKeys ==
    /\ \A i \in DOMAIN ledger : Old(Key(ledger[i]))
    /\ \A p \in Procs : Old(Key(call[p].t))
BY DEF Held, Old

LEMMA IdleHoldsNothing == Old(Key(Idle.t)) /\ ~HoldsUse(Idle)
BY DEF Idle, NoTransition, DisclosureTransition, Old, Key, HoldsUse

LEMMA LeaveKeepsUse ==
    ASSUME TypeOK, TypeOK', UseInv, used' = used, NEW p \in Procs, Leave(p),
           UNCHANGED events,
           \/ ledger' = ledger
           \/ \E e : /\ ledger' = Append(ledger, e) /\ Old(Key(e))
                     /\ e.status \in Consumed => e.digest # 0
    PROVE  UseInv'
<1>1. call' = [call EXCEPT ![p] = Idle]
      BY DEF Leave
<1> QED
    BY <1>1, IdleHoldsNothing, UseInvKept

(* A call that goes on to record a status for the plan t. *)
LEMMA RecordKeepsUse ==
    ASSUME TypeOK, TypeOK', UseInv, used' = used, NEW p \in Procs, NEW t, NEW status,
           Record(p, t, status), Old(Key(t)), status \in Consumed => t.digest # 0,
           UNCHANGED ledger,
           \/ events' = events
           \/ \E e : /\ events' = Append(events, e) /\ Old(Key(e)) /\ e.digest # 0
                     /\ \A i \in DOMAIN events : events[i].tid # e.tid
    PROVE  UseInv'
<1> DEFINE c == [call[p] EXCEPT !.at = "advance", !.t = t, !.next = status]
<1>1. call[p] \in Calls
      BY DEF TypeOK
<1>2. call' = [call EXCEPT ![p] = c]
      BY <1>1 DEF Record, TypeOK, Calls
<1>3. c.t = t /\ c.at = "advance" /\ c.next = status
      BY <1>1 DEF Calls
<1> HIDE DEF c
<1>4. HoldsUse(c) => c.t.digest # 0
      BY <1>3 DEF HoldsUse
<1>5. Old(Key(c.t))
      BY <1>3
<1> QED
    BY <1>2, <1>4, <1>5, UseInvKept

LEMMA BeginKeepsUse ==
    ASSUME TypeOK, TypeOK', UseInv, NEW p \in Procs, Begin(p)
    PROVE  UseInv'
<1>1. ASSUME NEW a \in Auths, NEW sel \in Requests, execute_disclosure_transition(p, a, sel)
      PROVE  UseInv'
  <2> DEFINE t == DisclosureTransition(None, a, sel, manifest)
             c == [Idle EXCEPT !.at = "lock", !.op = "execute", !.sel = sel, !.t = t]
  <2>1. call' = [call EXCEPT ![p] = c]
        BY <1>1 DEF execute_disclosure_transition
  <2>2. c.t.digest = 0 /\ c.at = "lock" /\ c.from = "none"
        BY DEF Idle, DisclosureTransition
  <2> HIDE DEF c
  <2>3. Old(Key(c.t)) /\ ~HoldsUse(c)
        BY <2>2 DEF Old, Key, HoldsUse, Consumed
  <2> QED
      BY <1>1, <2>1, <2>3, UseInvKept DEF execute_disclosure_transition
<1>2. ASSUME NEW a \in Auths, recover_disclosure_transition(p, a)
      PROVE  UseInv'
  <2> DEFINE t == lookup_pending_transition(a)
             c == [Idle EXCEPT !.at = "lock", !.op = "recover", !.t = t,
                               !.from = t.status, !.sel = t.sel]
  <2>1. call' = [call EXCEPT ![p] = c]
        BY <1>2 DEF recover_disclosure_transition
  <2>2. PICK i \in DOMAIN ledger : t = ledger[i]
        BY <1>2, PendingRecorded DEF recover_disclosure_transition
  <2>3. c.t = t /\ c.at = "lock" /\ c.from = t.status
        BY DEF Idle
  <2> HIDE DEF c, t
  <2>4. Old(Key(c.t))
        BY <2>2, <2>3, HeldKeys
  <2>5. HoldsUse(c) => c.t.digest # 0
        BY <2>2, <2>3 DEF UseInv, LedgerHolds, HoldsUse
  <2> QED
      BY <1>2, <2>1, <2>4, <2>5, UseInvKept DEF recover_disclosure_transition
<1> QED
    BY <1>1, <1>2 DEF Begin

LEMMA LockingKeepsUse ==
    ASSUME TypeOK, TypeOK', UseInv, NEW p \in Procs,
           prepare_transition(p) \/ resume_transition(p)
    PROVE  UseInv'
<1>0. call[p] \in Calls /\ call[p].at = "lock"
      BY DEF TypeOK, prepare_transition, resume_transition
<1>1. ASSUME NEW t, NEW at \in {"consume", "verify"},
             call' = [call EXCEPT ![p] = [call[p] EXCEPT !.at = at, !.t = t]],
             Old(Key(t)), at = "verify" => t.digest # 0, UNCHANGED <<used, events>>,
             \/ ledger' = ledger
             \/ ledger' = Append(ledger, t) /\ (t.status \in Consumed => t.digest # 0)
      PROVE  UseInv'
  <2> DEFINE c == [call[p] EXCEPT !.at = at, !.t = t]
  <2>1. c.t = t /\ c.at = at
        BY <1>0 DEF Calls
  <2>2. call' = [call EXCEPT ![p] = c]
        BY <1>1
  <2> HIDE DEF c
  <2>3. Old(Key(c.t)) /\ (HoldsUse(c) => c.t.digest # 0)
        BY <1>1, <2>1 DEF HoldsUse
  <2> QED
      BY <1>1, <2>2, <2>3, UseInvKept
<1>2. CASE prepare_transition(p)
  <2> DEFINE pending == lookup_pending_transition(call[p].t.auth)
             at == "consume"
  <2>1. CASE pending # NoTransition
    <3>1. PICK i \in DOMAIN ledger : pending = ledger[i]
          BY <2>1, PendingRecorded
    <3>2. call' = [call EXCEPT ![p] = [call[p] EXCEPT !.at = at, !.t = pending]]
          BY <1>0, <1>2, <2>1 DEF prepare_transition, TypeOK, Calls
    <3>3. UNCHANGED <<used, events, ledger>>
          BY <1>2, <2>1 DEF prepare_transition
    <3>4. at = "consume"
          OBVIOUS
    <3> HIDE DEF pending, at
    <3> QED
        BY <1>1, <3>1, <3>2, <3>3, <3>4, HeldKeys
  <2>2. CASE pending = NoTransition
    <3>1. PICK tid \in Tids :
             LET t == [call[p].t EXCEPT !.tid = tid]
             IN  /\ _append_transition_event(t)
                 /\ call' = [call EXCEPT ![p].at = "consume", ![p].t = t]
          BY <1>2, <2>2 DEF prepare_transition
    <3> DEFINE t == [call[p].t EXCEPT !.tid = tid]
    <3>2. call' = [call EXCEPT ![p] = [call[p] EXCEPT !.at = at, !.t = t]]
          BY <1>0, <3>1 DEF TypeOK, Calls
    <3>3. ledger' = Append(ledger, t) /\ UNCHANGED <<used, events>>
          BY <1>2, <3>1 DEF prepare_transition, _append_transition_event
    <3>4. t.digest = 0 /\ t.status = "prepared"
      <4>1. CallOK(call[p]) /\ call[p].op = "execute"
            BY <1>2 DEF prepare_transition, TypeOK
      <4> QED
          BY <1>0, <4>1 DEF CallOK, Calls, Transitions
    <3>5. at = "consume"
          OBVIOUS
    <3> HIDE DEF t, at
    <3>6. Old(Key(t)) /\ t.status \notin Consumed
          BY <3>4 DEF Old, Key, Consumed
    <3> QED
        BY <1>1, <3>2, <3>3, <3>5, <3>6
  <2> QED
      BY <2>1, <2>2
<1>3. CASE resume_transition(p)
  <2>1. CASE Leave(p)
        BY <1>3, <2>1, LeaveKeepsUse DEF resume_transition
  <2>2. CASE ~Leave(p)
    <3> DEFINE at == IF call[p].from \in Consumed THEN "verify" ELSE "consume"
               t == call[p].t
    <3>1. call' = [call EXCEPT ![p] = [call[p] EXCEPT !.at = at, !.t = t]]
          BY <1>0, <1>3, <2>2 DEF resume_transition, TypeOK, Calls
    <3>2. at \in {"consume", "verify"} /\ (at = "verify" => t.digest # 0)
          BY <1>0 DEF UseInv, CallsHold, HoldsUse
    <3>3. Old(Key(t))
          BY HeldKeys
    <3>4. UNCHANGED <<used, events, ledger>>
          BY <1>3 DEF resume_transition
    <3> HIDE DEF at, t
    <3> QED
        BY <1>1, <3>1, <3>2, <3>3, <3>4
  <2> QED
      BY <2>1, <2>2
<1> QED
    BY <1>2, <1>3

LEMMA ConsumeKeepsUse ==
    ASSUME TypeOK, TypeOK', UseInv, NEW p \in Procs, consume_disclosure_authorization(p)
    PROVE  UseInv'
<1> DEFINE t == call[p].t
           v == [t EXCEPT !.digest = used[t.auth] + 1]
           c == [call[p] EXCEPT !.at = "advance", !.t = v, !.next = "authorization_consumed"]
<1>0. call[p].at \notin {"idle", "lock"}
      BY DEF consume_disclosure_authorization
<1>1. t \in Recorded /\ t.auth \in Auths /\ call[p] \in Calls
      BY <1>0, InsideTyped
<1>2. CASE Record(p, t, "refused") /\ used' = used
  <2>1. "refused" \notin Consumed /\ Old(Key(t))
        BY HeldKeys DEF Consumed
  <2> HIDE DEF t
  <2> QED
      BY <1>2, <2>1, RecordKeepsUse DEF consume_disclosure_authorization
<1>3. CASE ~(Record(p, t, "refused") /\ used' = used)
  <2>1. /\ used[t.auth] < MaxUses[t.auth] /\ used' = [used EXCEPT ![t.auth] = @ + 1]
        /\ Record(p, v, "authorization_consumed")
        BY <1>3 DEF consume_disclosure_authorization, validate_disclosure_authorization
  <2>2. call' = [call EXCEPT ![p] = c]
        BY <1>1, <2>1 DEF Record, TypeOK, Calls
  <2>3. v.auth = t.auth /\ v.digest = used[t.auth] + 1
        BY <1>1 DEF Recorded, Transitions
  <2>4. c.t = v
        BY <1>1 DEF Calls
  <2>5. UNCHANGED <<ledger, events>>
        BY DEF consume_disclosure_authorization
  <2> DEFINE a == t.auth
  <2>6. /\ a \in Auths /\ used[a] < MaxUses[a] /\ used' = [used EXCEPT ![a] = @ + 1]
        /\ c.t.auth = a /\ c.t.digest = used[a] + 1
        BY <1>1, <2>1, <2>3, <2>4
  <2> HIDE DEF t, v, c, a
  <2> QED
      BY <2>2, <2>5, <2>6, UseConsumed
<1> QED
    BY <1>2, <1>3

LEMMA AdvanceKeepsUse ==
    ASSUME TypeOK, TypeOK', UseInv, NEW p \in Procs, advance_transition(p)
    PROVE  UseInv'
<1> DEFINE t == [call[p].t EXCEPT !.status = call[p].next, !.seq = @ + 1]
           step == NextStep(call[p].op, call[p].next)
           c == [call[p] EXCEPT !.at = step, !.t = t]
<1>0. call[p].at = "advance"
      BY DEF advance_transition
<1>1. call[p].t \in Recorded /\ call[p] \in Calls
      BY <1>0, InsideTyped
<1>2. t.status = call[p].next /\ Key(t) = Key(call[p].t) /\ t.digest = call[p].t.digest
      BY <1>1 DEF Key, Recorded, Transitions
<1>3. call[p].next \in Consumed => t.digest # 0
      BY <1>0, <1>2 DEF UseInv, CallsHold, HoldsUse
<1>4. ledger' = Append(ledger, t) /\ UNCHANGED <<used, events>>
      BY DEF advance_transition, _append_transition_event
<1>5. Old(Key(t)) /\ (t.status \in Consumed => t.digest # 0)
      BY <1>2, <1>3, HeldKeys
<1>6. step # "return" => call[p].next \in Consumed
      BY DEF NextStep, Consumed
<1>7. CASE Leave(p)
  <2> HIDE DEF t
  <2> QED
      BY <1>4, <1>5, <1>7, LeaveKeepsUse
<1>8. CASE ~Leave(p)
  <2>1. step # "return" /\ call' = [call EXCEPT ![p] = c]
        BY <1>1, <1>8 DEF advance_transition, TypeOK, Calls
  <2>2. c.t = t
        BY <1>1 DEF Calls
  <2> HIDE DEF t, step, c
  <2>3. Old(Key(c.t)) /\ c.t.digest # 0
        BY <1>3, <1>5, <1>6, <2>1, <2>2
  <2> QED
      BY <1>4, <1>5, <2>1, <2>3, UseInvKept
<1> QED
    BY <1>7, <1>8

LEMMA VerifyKeepsUse ==
    ASSUME TypeOK, TypeOK', UseInv, NEW p \in Procs, verify_consumed(p)
    PROVE  UseInv'
<1> DEFINE t == call[p].t
           c == [call[p] EXCEPT !.at = FirstStep(call[p].from)]
<1>0. call[p].at = "verify" /\ call[p] \in Calls /\ UNCHANGED <<used, events, ledger>>
      BY DEF verify_consumed, TypeOK
<1>1. Old(Key(t)) /\ t.digest # 0
      BY <1>0, HeldKeys DEF UseInv, CallsHold, HoldsUse
<1>2. c.t = t
      BY <1>0 DEF Calls
<1>3. Record(p, t, "corrupt") \/ call' = [call EXCEPT ![p] = c]
      BY <1>0 DEF verify_consumed, TypeOK, Calls
<1> HIDE DEF t, c
<1>4. CASE Record(p, t, "corrupt")
      BY <1>0, <1>1, <1>4, RecordKeepsUse
<1>5. CASE call' = [call EXCEPT ![p] = c]
  <2>1. Old(Key(c.t)) /\ c.t.digest # 0
        BY <1>1, <1>2
  <2> QED
      BY <1>0, <1>5, <2>1, UseInvKept
<1> QED
    BY <1>3, <1>4, <1>5

LEMMA ArtifactKeepsUse ==
    ASSUME TypeOK, TypeOK', UseInv, NEW p \in Procs,
           \/ _persist_receipt_durable(p) \/ _apply_manifest_mutation(p)
           \/ _persist_disclosure_event_durable(p) \/ complete_transition(p)
    PROVE  UseInv'
<1> DEFINE t == call[p].t
<1>0. call[p].at \in {"receipt", "manifest", "event", "complete"}
      BY DEF _persist_receipt_durable, _apply_manifest_mutation,
             _persist_disclosure_event_durable, complete_transition
<1>1. /\ t \in Recorded /\ Old(Key(t)) /\ t.digest # 0
      /\ UNCHANGED <<used, ledger>>
      BY <1>0, InsideTyped, HeldKeys
      DEF UseInv, CallsHold, HoldsUse, _persist_receipt_durable, _apply_manifest_mutation,
          _persist_disclosure_event_durable, complete_transition
<1>2. CASE _persist_receipt_durable(p)
  <2>1. /\ UNCHANGED events
        /\ \/ Record(p, t, "projection_receipt_persisted")
           \/ Record(p, t, "refused") \/ Record(p, t, "recovery_required")
        BY <1>2 DEF _persist_receipt_durable
  <2> HIDE DEF t
  <2> QED
      BY <1>1, <2>1, RecordKeepsUse
<1>3. CASE _apply_manifest_mutation(p)
  <2> DEFINE v == [t EXCEPT !.after = mark_selector_disclosed(manifest, t.sel)]
  <2>1. Key(v) = Key(t) /\ v.digest = t.digest
        BY <1>1 DEF Key, Recorded, Transitions
  <2>2. /\ UNCHANGED events
        /\ Record(p, v, "manifest_applied") \/ Record(p, t, "corrupt")
        BY <1>3 DEF _apply_manifest_mutation
  <2> HIDE DEF t, v
  <2>3. Old(Key(v)) /\ v.digest # 0
        BY <1>1, <2>1
  <2> QED
      BY <1>1, <2>2, <2>3, RecordKeepsUse
<1>4. CASE _persist_disclosure_event_durable(p)
  <2> DEFINE e == _build_disclosure_event(t)
  <2>1. Key(e) = Key(t) /\ e.digest = t.digest /\ e.tid = t.tid
        BY DEF _build_disclosure_event, Key
  <2>2. \/ events' = events
        \/ events' = Append(events, e) /\ \A i \in DOMAIN events : events[i].tid # t.tid
        BY <1>4 DEF _persist_disclosure_event_durable
  <2>3. Record(p, t, "disclosure_event_recorded") \/ Record(p, t, "recovery_required")
        BY <1>4 DEF _persist_disclosure_event_durable
  <2> HIDE DEF t, e
  <2>4. \/ events' = events
        \/ /\ events' = Append(events, e) /\ Old(Key(e)) /\ e.digest # 0
           /\ \A i \in DOMAIN events : events[i].tid # e.tid
        BY <1>1, <2>1, <2>2
  <2> QED
      BY <1>1, <2>3, <2>4, RecordKeepsUse
<1>5. CASE complete_transition(p)
  <2>1. UNCHANGED events /\ Record(p, t, "completed") /\ "completed" \notin Consumed
        BY <1>5 DEF complete_transition, Consumed
  <2> HIDE DEF t
  <2> QED
      BY <1>1, <2>1, RecordKeepsUse
<1> QED
    BY <1>2, <1>3, <1>4, <1>5

LEMMA UsesKept == Spec => []UseInv
<1>1. Init => UseInv
  <2> SUFFICES ASSUME Init PROVE UseInv
      OBVIOUS
  <2>1. \A k \in Held : k.digest = 0
        BY DEF Init, Held, Key, Idle, NoTransition, DisclosureTransition
  <2>2. UsesBounded
        BY DisclosureAssumptions DEF Init, UsesBounded
  <2>3. HeldWasConsumed /\ HeldByOne
        BY <2>1 DEF HeldWasConsumed, HeldByOne
  <2>4. EventsDistinct /\ LedgerHolds
        BY DEF Init, EventsDistinct, LedgerHolds
  <2>5. CallsHold
        BY IdleHoldsNothing DEF Init, CallsHold
  <2> QED
      BY <2>2, <2>3, <2>4, <2>5 DEF UseInv
<1>2. TypeOK /\ TypeOK' /\ UseInv /\ [Next]_vars => UseInv'
  <2> SUFFICES ASSUME TypeOK, TypeOK', UseInv, [Next]_vars PROVE UseInv'
      OBVIOUS
  <2>1. ASSUME NEW p \in Procs, abort(p) PROVE UseInv'
        BY <2>1, LeaveKeepsUse DEF abort
  <2>2. CASE UNCHANGED <<used, ledger, events, call>>
    <3>1. Held' = Held
          BY <2>2 DEF Held, Key
    <3> QED
        BY <2>2, <3>1 DEF UseInv, UsesBounded, HeldWasConsumed, HeldByOne,
                          EventsDistinct, LedgerHolds, CallsHold, HoldsUse
  <2>3. ASSUME NEW p \in Procs, Proceed(p) PROVE UseInv'
        BY <2>3, LockingKeepsUse, ConsumeKeepsUse, VerifyKeepsUse, AdvanceKeepsUse,
           ArtifactKeepsUse DEF Proceed
  <2>4. ASSUME NEW a \in Auths, Expire(a) PROVE UseInv'
        BY <2>2, <2>4 DEF Expire
  <2> QED
      BY <2>1, <2>2, <2>3, <2>4, BeginKeepsUse DEF Next, vars
<1> QED
    BY <1>1, <1>2, TypeCorrect, PTL DEF Spec

(* Every disclosure event is backed by a use of its authorisation that backs *)
(* no other event, and no authorisation is used more often than it allows:   *)
(* for any number of processes and any repetition of executions, deaths,     *)
(* exceptions and recoveries.                                                *)
THEOREM OwnUse == Spec => []EachEventItsOwnUse
<1>1. TypeOK /\ UseInv => EachEventItsOwnUse
  <2> SUFFICES ASSUME TypeOK, UseInv, NEW i \in DOMAIN events, NEW j \in DOMAIN events
               PROVE  /\ events[i].digest \in 1..MaxUses[events[i].auth]
                      /\ i # j /\ events[i].auth = events[j].auth
                            => events[i].digest # events[j].digest
      BY DEF EachEventItsOwnUse
  <2>1. events[i] \in Disclosures /\ events[j] \in Disclosures
        BY DEF TypeOK
  <2>2. Key(events[i]) \in Held /\ Key(events[j]) \in Held
        BY DEF Held
  <2>3. events[i].digest # 0 /\ events[i].digest \in Nat /\ events[i].auth \in Auths
        BY <2>1 DEF UseInv, EventsDistinct, Disclosures
  <2>4. events[i].digest <= used[events[i].auth]
        BY <2>2, <2>3 DEF UseInv, HeldWasConsumed, Key
  <2>5. /\ used[events[i].auth] <= MaxUses[events[i].auth]
        /\ used[events[i].auth] \in Nat /\ MaxUses[events[i].auth] \in Nat
        BY <2>3, DisclosureAssumptions DEF UseInv, UsesBounded, TypeOK
  <2>6. events[i].digest \in 1..MaxUses[events[i].auth]
        BY <2>3, <2>4, <2>5
  <2>7. events[i].auth = events[j].auth /\ events[i].digest = events[j].digest => i = j
        BY <2>2, <2>3 DEF UseInv, HeldByOne, EventsDistinct, Key
  <2> QED
      BY <2>6, <2>7
<1> QED
    BY <1>1, TypeCorrect, UsesKept, PTL

-----------------------------------------------------------------------------
(* The manifest is marked before the event is recorded: the mark is owed     *)
(* from the step that makes it to the one that records the event, and by the *)
(* events and recoveries that lead back in between.                          *)

Marked(t) == t.sel \in manifest \cup Unlisted

OwesMark(c) ==
    \/ c.at = "event"
    \/ c.at = "advance" /\ c.next = "manifest_applied"
    \/ c.op = "recover" /\ c.from = "manifest_applied"

LedgerMarked == \A i \in DOMAIN ledger : ledger[i].status = "manifest_applied" => Marked(ledger[i])

CallsMarked ==
    \A p \in Procs :
       /\ OwesMark(call[p]) => Marked(call[p].t)
       /\ call[p].at = "verify" => call[p].op = "recover"

MarkInv == EventIsMarked /\ LedgerMarked /\ CallsMarked

LEMMA MarkInvKept ==
    ASSUME TypeOK, MarkInv, manifest \subseteq manifest',
           NEW p \in Procs, NEW c, call' = [call EXCEPT ![p] = c],
           OwesMark(c) => c.t.sel \in manifest' \cup Unlisted,
           c.at = "verify" => c.op = "recover",
           \/ ledger' = ledger
           \/ \E e : /\ ledger' = Append(ledger, e)
                     /\ e.status = "manifest_applied" => Marked(e),
           events' = events \/ \E e : events' = Append(events, e) /\ Marked(e)
    PROVE  MarkInv'
<1>1. call'[p] = c /\ \A q \in Procs \ {p} : call'[q] = call[q]
      BY DEF TypeOK
<1>2. ledger \in Seq(Recorded) /\ events \in Seq(Disclosures)
      BY DEF TypeOK
<1>3. EventIsMarked'
  <2>1. CASE events' = events
        BY <2>1 DEF MarkInv, EventIsMarked
  <2>2. CASE events' # events
    <3>1. PICK e : events' = Append(events, e) /\ Marked(e)
          BY <2>2
    <3> QED
        BY <1>2, <3>1, AppendedAt DEF MarkInv, EventIsMarked, Marked
  <2> QED
      BY <2>1, <2>2
<1>4. LedgerMarked'
  <2>1. CASE ledger' = ledger
        BY <2>1 DEF MarkInv, LedgerMarked, Marked
  <2>2. CASE ledger' # ledger
    <3>1. PICK e : /\ ledger' = Append(ledger, e)
                   /\ e.status = "manifest_applied" => Marked(e)
          BY <2>2
    <3> QED
        BY <1>2, <3>1, AppendedAt DEF MarkInv, LedgerMarked, Marked
  <2> QED
      BY <2>1, <2>2
<1>5. CallsMarked'
      BY <1>1 DEF MarkInv, CallsMarked, OwesMark, Marked
<1> QED
    BY <1>3, <1>4, <1>5 DEF MarkInv

LEMMA LeaveKeepsMark ==
    ASSUME TypeOK, MarkInv, NEW p \in Procs, Leave(p), UNCHANGED <<manifest, events>>,
           \/ ledger' = ledger
           \/ \E e : /\ ledger' = Append(ledger, e)
                     /\ e.status = "manifest_applied" => Marked(e)
    PROVE  MarkInv'
<1>1. ~OwesMark(Idle) /\ Idle.at # "verify"
      BY DEF OwesMark, Idle
<1>2. call' = [call EXCEPT ![p] = Idle]
      BY DEF Leave
<1> QED
    BY <1>1, <1>2, MarkInvKept

LEMMA RecordKeepsMark ==
    ASSUME TypeOK, MarkInv, manifest \subseteq manifest', NEW p \in Procs, NEW t, NEW status,
           Record(p, t, status), t.sel = call[p].t.sel, UNCHANGED ledger,
           status = "manifest_applied" => t.sel \in manifest' \cup Unlisted,
           events' = events \/ \E e : events' = Append(events, e) /\ Marked(e)
    PROVE  MarkInv'
<1> DEFINE c == [call[p] EXCEPT !.at = "advance", !.t = t, !.next = status]
<1>1. call[p] \in Calls
      BY DEF TypeOK
<1>2. call' = [call EXCEPT ![p] = c]
      BY <1>1 DEF Record, TypeOK, Calls
<1>3. /\ c.t = t /\ c.at = "advance" /\ c.next = status
      /\ c.op = call[p].op /\ c.from = call[p].from
      BY <1>1 DEF Calls
<1> HIDE DEF c
<1>4. OwesMark(c) => c.t.sel \in manifest' \cup Unlisted
      BY <1>3 DEF OwesMark, MarkInv, CallsMarked, Marked
<1>5. c.at = "verify" => c.op = "recover"
      BY <1>3
<1> QED
    BY <1>2, <1>4, <1>5, MarkInvKept

LEMMA BeginKeepsMark ==
    ASSUME TypeOK, MarkInv, NEW p \in Procs, Begin(p)
    PROVE  MarkInv'
<1>1. ASSUME NEW a \in Auths, NEW sel \in Requests, execute_disclosure_transition(p, a, sel)
      PROVE  MarkInv'
  <2> DEFINE t == DisclosureTransition(None, a, sel, manifest)
             c == [Idle EXCEPT !.at = "lock", !.op = "execute", !.sel = sel, !.t = t]
  <2>1. call' = [call EXCEPT ![p] = c]
        BY <1>1 DEF execute_disclosure_transition
  <2>2. ~OwesMark(c) /\ c.at # "verify"
        BY DEF Idle, OwesMark
  <2> HIDE DEF c
  <2> QED
      BY <1>1, <2>1, <2>2, MarkInvKept DEF execute_disclosure_transition
<1>2. ASSUME NEW a \in Auths, recover_disclosure_transition(p, a)
      PROVE  MarkInv'
  <2> DEFINE t == lookup_pending_transition(a)
             c == [Idle EXCEPT !.at = "lock", !.op = "recover", !.t = t,
                               !.from = t.status, !.sel = t.sel]
  <2>1. call' = [call EXCEPT ![p] = c]
        BY <1>2 DEF recover_disclosure_transition
  <2>2. PICK i \in DOMAIN ledger : t = ledger[i]
        BY <1>2, PendingRecorded DEF recover_disclosure_transition
  <2>3. c.t = t /\ c.at = "lock" /\ c.from = t.status
        BY DEF Idle
  <2> HIDE DEF c, t
  <2>4. OwesMark(c) => Marked(c.t)
        BY <2>2, <2>3 DEF OwesMark, MarkInv, LedgerMarked
  <2> QED
      BY <1>2, <2>1, <2>3, <2>4, MarkInvKept DEF recover_disclosure_transition, Marked
<1> QED
    BY <1>1, <1>2 DEF Begin

LEMMA LockingKeepsMark ==
    ASSUME TypeOK, MarkInv, NEW p \in Procs, prepare_transition(p) \/ resume_transition(p)
    PROVE  MarkInv'
<1>0. call[p] \in Calls /\ UNCHANGED <<manifest, events>>
      BY DEF TypeOK, prepare_transition, resume_transition
<1>1. CASE prepare_transition(p)
  <2>1. ASSUME NEW c, call' = [call EXCEPT ![p] = c], c.at = "consume", c.op = "execute",
               \/ ledger' = ledger
               \/ \E e : ledger' = Append(ledger, e) /\ e.status = "prepared"
        PROVE  MarkInv'
    <3>1. ~OwesMark(c) /\ c.at # "verify"
          BY <2>1 DEF OwesMark
    <3> QED
        BY <1>0, <2>1, <3>1, MarkInvKept
  <2>2. CASE lookup_pending_transition(call[p].t.auth) # NoTransition
    <3> DEFINE t == lookup_pending_transition(call[p].t.auth)
               c == [call[p] EXCEPT !.at = "consume", !.t = t]
    <3>1. call' = [call EXCEPT ![p] = c] /\ ledger' = ledger
          BY <1>0, <1>1, <2>2 DEF prepare_transition, TypeOK, Calls
    <3>2. c.at = "consume" /\ c.op = "execute"
          BY <1>0, <1>1 DEF prepare_transition, Calls
    <3> HIDE DEF c
    <3> QED
        BY <2>1, <3>1, <3>2
  <2>3. CASE lookup_pending_transition(call[p].t.auth) = NoTransition
    <3>1. PICK tid \in Tids :
             LET t == [call[p].t EXCEPT !.tid = tid]
             IN  /\ _append_transition_event(t)
                 /\ call' = [call EXCEPT ![p].at = "consume", ![p].t = t]
          BY <1>1, <2>3 DEF prepare_transition
    <3> DEFINE t == [call[p].t EXCEPT !.tid = tid]
               c == [call[p] EXCEPT !.at = "consume", !.t = t]
    <3>2. CallOK(call[p]) /\ call[p].op = "execute" /\ call[p].at = "lock"
          BY <1>1 DEF prepare_transition, TypeOK
    <3>3. t.status = "prepared"
          BY <1>0, <3>2 DEF CallOK, Calls, Transitions
    <3>4. call' = [call EXCEPT ![p] = c] /\ ledger' = Append(ledger, t)
          BY <1>0, <3>1 DEF _append_transition_event, TypeOK, Calls
    <3>5. c.at = "consume" /\ c.op = "execute"
          BY <1>0, <3>2 DEF Calls
    <3> HIDE DEF t, c
    <3> QED
        BY <2>1, <3>3, <3>4, <3>5
  <2> QED
      BY <2>2, <2>3
<1>2. CASE resume_transition(p)
  <2>1. CASE Leave(p)
        BY <1>2, <2>1, LeaveKeepsMark DEF resume_transition
  <2>2. CASE ~Leave(p)
    <3> DEFINE at == IF call[p].from \in Consumed THEN "verify" ELSE "consume"
               c == [call[p] EXCEPT !.at = at]
    <3>1. call' = [call EXCEPT ![p] = c]
          BY <1>0, <1>2, <2>2 DEF resume_transition, TypeOK, Calls
    <3>2. /\ c.op = "recover" /\ c.t = call[p].t /\ c.from = call[p].from
          /\ c.at \in {"verify", "consume"}
          BY <1>0, <1>2 DEF resume_transition, Calls
    <3>3. call[p].op = "recover" /\ UNCHANGED ledger
          BY <1>2 DEF resume_transition
    <3> HIDE DEF c
    <3>4. OwesMark(c) => Marked(c.t)
          BY <3>2, <3>3 DEF OwesMark, MarkInv, CallsMarked
    <3> QED
        BY <1>0, <3>1, <3>2, <3>3, <3>4, MarkInvKept DEF Marked
  <2> QED
      BY <2>1, <2>2
<1> QED
    BY <1>1, <1>2

LEMMA InsideKeepsMark ==
    ASSUME TypeOK, MarkInv, NEW p \in Procs,
           \/ consume_disclosure_authorization(p) \/ verify_consumed(p)
           \/ _persist_receipt_durable(p) \/ _apply_manifest_mutation(p)
           \/ _persist_disclosure_event_durable(p) \/ complete_transition(p)
    PROVE  MarkInv'
<1> DEFINE t == call[p].t
<1>0. call[p].at \notin {"idle", "lock"} /\ UNCHANGED ledger
      BY DEF consume_disclosure_authorization, verify_consumed, _persist_receipt_durable,
             _apply_manifest_mutation, _persist_disclosure_event_durable, complete_transition
<1>1. t \in Recorded /\ call[p] \in Calls
      BY <1>0, InsideTyped
<1>2. CASE consume_disclosure_authorization(p)
  <2> DEFINE v == [t EXCEPT !.digest = used[t.auth] + 1]
  <2>1. v.sel = t.sel
        BY <1>1 DEF Recorded, Transitions
  <2>2. /\ Record(p, v, "authorization_consumed") \/ Record(p, t, "refused")
        /\ UNCHANGED <<manifest, events>>
        BY <1>2 DEF consume_disclosure_authorization
  <2> HIDE DEF v
  <2> QED
      BY <1>0, <2>1, <2>2, RecordKeepsMark
<1>3. CASE verify_consumed(p)
  <2> DEFINE c == [call[p] EXCEPT !.at = FirstStep(call[p].from)]
  <2>1. CASE Record(p, t, "corrupt")
        BY <1>0, <1>3, <2>1, RecordKeepsMark DEF verify_consumed
  <2>2. CASE ~Record(p, t, "corrupt")
    <3>1. call' = [call EXCEPT ![p] = c] /\ UNCHANGED <<manifest, events>>
          BY <1>1, <1>3, <2>2 DEF verify_consumed, TypeOK, Calls
    <3>2. /\ c.t = t /\ c.op = call[p].op /\ c.from = call[p].from
          /\ c.at = FirstStep(call[p].from)
          BY <1>1 DEF Calls
    <3>3. /\ FirstStep(call[p].from) \in {"receipt", "manifest", "event", "complete"}
          /\ FirstStep(call[p].from) = "event" => call[p].from = "manifest_applied"
          BY DEF FirstStep
    <3>4. call[p].op = "recover"
          BY <1>3 DEF verify_consumed, MarkInv, CallsMarked
    <3> HIDE DEF c
    <3>5. OwesMark(c) => Marked(c.t)
          BY <3>2, <3>3, <3>4 DEF OwesMark, MarkInv, CallsMarked
    <3> QED
        BY <1>0, <3>1, <3>2, <3>3, <3>5, MarkInvKept DEF Marked
  <2> QED
      BY <2>1, <2>2
<1>4. CASE _persist_receipt_durable(p)
  <2>1. /\ UNCHANGED <<manifest, events>>
        /\ \/ Record(p, t, "projection_receipt_persisted")
           \/ Record(p, t, "refused") \/ Record(p, t, "recovery_required")
        BY <1>4 DEF _persist_receipt_durable
  <2> QED
      BY <1>0, <2>1, RecordKeepsMark
<1>5. CASE _apply_manifest_mutation(p)
  <2> DEFINE post == mark_selector_disclosed(manifest, t.sel)
             v == [t EXCEPT !.after = post]
  <2>1. v.sel = t.sel
        BY <1>1 DEF Recorded, Transitions
  <2>2. manifest \subseteq post /\ t.sel \in post \cup Unlisted
    <3>1. t.sel \in Requests \cup {Unscoped}
          BY <1>1 DEF Recorded, Transitions
    <3> QED
        BY <3>1 DEF mark_selector_disclosed, Unlisted
  <2>3. /\ UNCHANGED events /\ manifest' \in {manifest, post}
        /\ \/ Record(p, v, "manifest_applied") /\ manifest' = post
           \/ Record(p, t, "corrupt")
        BY <1>5 DEF _apply_manifest_mutation
  <2> HIDE DEF v, post
  <2> QED
      BY <1>0, <2>1, <2>2, <2>3, RecordKeepsMark
<1>6. CASE _persist_disclosure_event_durable(p)
  <2> DEFINE e == _build_disclosure_event(t)
  <2>1. call[p].at = "event" /\ UNCHANGED manifest
        BY <1>6 DEF _persist_disclosure_event_durable
  <2>2. events' = events \/ events' = Append(events, e)
        BY <1>6 DEF _persist_disclosure_event_durable
  <2>3. Record(p, t, "disclosure_event_recorded") \/ Record(p, t, "recovery_required")
        BY <1>6 DEF _persist_disclosure_event_durable
  <2>4. Marked(e)
        BY <2>1 DEF MarkInv, CallsMarked, OwesMark, Marked, _build_disclosure_event
  <2> HIDE DEF e
  <2> QED
      BY <1>0, <2>1, <2>2, <2>3, <2>4, RecordKeepsMark
<1>7. CASE complete_transition(p)
      BY <1>0, <1>7, RecordKeepsMark DEF complete_transition
<1> QED
    BY <1>2, <1>3, <1>4, <1>5, <1>6, <1>7

LEMMA AdvanceKeepsMark ==
    ASSUME TypeOK, MarkInv, NEW p \in Procs, advance_transition(p)
    PROVE  MarkInv'
<1> DEFINE t == [call[p].t EXCEPT !.status = call[p].next, !.seq = @ + 1]
           step == NextStep(call[p].op, call[p].next)
           c == [call[p] EXCEPT !.at = step, !.t = t]
<1>0. call[p].at = "advance" /\ ledger' = Append(ledger, t) /\ UNCHANGED <<manifest, events>>
      BY DEF advance_transition, _append_transition_event
<1>1. call[p].t \in Recorded /\ call[p] \in Calls
      BY <1>0, InsideTyped
<1>2. t.status = call[p].next /\ t.sel = call[p].t.sel
      BY <1>1 DEF Recorded, Transitions
<1>3. call[p].next = "manifest_applied" => Marked(t)
      BY <1>0, <1>2 DEF MarkInv, CallsMarked, OwesMark, Marked
<1>4. CASE Leave(p)
  <2> HIDE DEF t
  <2> QED
      BY <1>0, <1>2, <1>3, <1>4, LeaveKeepsMark
<1>5. CASE ~Leave(p)
  <2>1. call' = [call EXCEPT ![p] = c]
        BY <1>1, <1>5 DEF advance_transition, TypeOK, Calls
  <2>2. c.t = t /\ c.at = step /\ c.op = call[p].op /\ c.from = call[p].from
        BY <1>1 DEF Calls
  <2>3. /\ step = "event" => call[p].next = "manifest_applied"
        /\ step = "verify" => call[p].op = "recover"
        /\ step # "advance"
        BY DEF NextStep
  <2> HIDE DEF t, step, c
  <2>4. OwesMark(c) => Marked(c.t)
        BY <1>2, <1>3, <2>2, <2>3 DEF OwesMark, MarkInv, CallsMarked, Marked
  <2> QED
      BY <1>0, <1>2, <1>3, <2>1, <2>2, <2>3, <2>4, MarkInvKept DEF Marked
<1> QED
    BY <1>4, <1>5

(* What a disclosure event says was disclosed is marked in the manifest, for *)
(* any interleaving of executions and recoveries and however a call ends.    *)
THEOREM EventsMarked == Spec => []EventIsMarked
<1>1. Init => MarkInv
      BY DEF Init, MarkInv, EventIsMarked, LedgerMarked, CallsMarked, OwesMark, Idle
<1>2. TypeOK /\ MarkInv /\ [Next]_vars => MarkInv'
  <2> SUFFICES ASSUME TypeOK, MarkInv, [Next]_vars PROVE MarkInv'
      OBVIOUS
  <2>1. ASSUME NEW p \in Procs, abort(p) PROVE MarkInv'
        BY <2>1, LeaveKeepsMark DEF abort
  <2>2. CASE UNCHANGED <<manifest, ledger, events, call>>
        BY <2>2 DEF MarkInv, EventIsMarked, LedgerMarked, CallsMarked, OwesMark, Marked
  <2>3. ASSUME NEW p \in Procs, Proceed(p) PROVE MarkInv'
        BY <2>3, LockingKeepsMark, InsideKeepsMark, AdvanceKeepsMark DEF Proceed
  <2>4. ASSUME NEW a \in Auths, Expire(a) PROVE MarkInv'
        BY <2>2, <2>4 DEF Expire
  <2> QED
      BY <2>1, <2>2, <2>3, <2>4, BeginKeepsMark DEF Next, vars
<1>3. MarkInv => EventIsMarked
      BY DEF MarkInv
<1> QED
    BY <1>1, <1>2, <1>3, TypeCorrect, PTL DEF Spec

-----------------------------------------------------------------------------
(* A completed transition has its disclosure event: the event is owed from   *)
(* the step that records it on, and by the recoveries that go straight to    *)
(* COMPLETED.  What they owe is never lost, because the disclosure events    *)
(* and the ledger only grow.                                                 *)

Disclosed(tid) ==
    (\E i \in DOMAIN events : events[i].tid = tid) \/ Reached(tid, "recovery_required")

OwesEvent(c) ==
    \/ c.at = "complete"
    \/ c.at = "advance" /\ c.next \in {"disclosure_event_recorded", "completed"}
    \/ c.op = "recover" /\ c.from \in {"disclosure_event_recorded", "recovery_required"}

Unfinished == {"prepared", "recovery_required"} \cup Consumed

LedgerDisclosed ==
    \A i \in DOMAIN ledger :
       ledger[i].status \in {"disclosure_event_recorded", "completed"}
          => Disclosed(ledger[i].tid)

CallsDisclosed ==
    \A p \in Procs :
       /\ OwesEvent(call[p]) => Disclosed(call[p].t.tid)
       /\ call[p].op = "recover" => call[p].from \in Unfinished
       /\ call[p].at = "verify" => call[p].op = "recover"

DiscloseInv == LedgerDisclosed /\ CallsDisclosed

(* The ledger and the disclosure events only grow. *)
Grows ==
    /\ \A i \in DOMAIN ledger : i \in DOMAIN ledger' /\ ledger'[i] = ledger[i]
    /\ \A i \in DOMAIN events : i \in DOMAIN events' /\ events'[i] = events[i]

LEMMA AppendKeeps ==
    ASSUME NEW S, NEW s \in Seq(S), NEW e, NEW i \in DOMAIN s
    PROVE  i \in DOMAIN Append(s, e) /\ Append(s, e)[i] = s[i]
OBVIOUS

LEMMA AppendGrows ==
    ASSUME TypeOK,
           ledger' = ledger \/ \E e : ledger' = Append(ledger, e),
           events' = events \/ \E e : events' = Append(events, e)
    PROVE  Grows
<1>1. ledger \in Seq(Recorded) /\ events \in Seq(Disclosures)
      BY DEF TypeOK
<1>2. \A i \in DOMAIN ledger : i \in DOMAIN ledger' /\ ledger'[i] = ledger[i]
      BY <1>1, AppendKeeps
<1>3. \A i \in DOMAIN events : i \in DOMAIN events' /\ events'[i] = events[i]
      BY <1>1, AppendKeeps
<1> QED
    BY <1>2, <1>3 DEF Grows

LEMMA DisclosedStays ==
    ASSUME Grows
    PROVE  \A tid : Disclosed(tid) => Disclosed(tid)'
BY DEF Grows, Disclosed, Reached, Chain

LEMMA DiscloseInvKept ==
    ASSUME TypeOK, DiscloseInv,
           NEW p \in Procs, NEW c, call' = [call EXCEPT ![p] = c],
           events' = events \/ \E e : events' = Append(events, e),
           \/ ledger' = ledger
           \/ \E e : /\ ledger' = Append(ledger, e)
                     /\ e.status \in {"disclosure_event_recorded", "completed"}
                           => Disclosed(e.tid),
           OwesEvent(c) => \/ Disclosed(c.t.tid)
                           \/ \E i \in DOMAIN events' : events'[i].tid = c.t.tid,
           c.op = "recover" => c.from \in Unfinished,
           c.at = "verify" => c.op = "recover"
    PROVE  DiscloseInv'
<1>1. call'[p] = c /\ \A q \in Procs \ {p} : call'[q] = call[q]
      BY DEF TypeOK
<1>2. ledger \in Seq(Recorded)
      BY DEF TypeOK
<1>3. Grows
      BY AppendGrows
<1>4. \A i \in DOMAIN ledger' :
         ledger'[i].status \in {"disclosure_event_recorded", "completed"}
            => Disclosed(ledger'[i].tid)
  <2>1. CASE ledger' = ledger
        BY <2>1 DEF DiscloseInv, LedgerDisclosed
  <2>2. CASE ledger' # ledger
    <3>1. PICK e : /\ ledger' = Append(ledger, e)
                   /\ e.status \in {"disclosure_event_recorded", "completed"}
                         => Disclosed(e.tid)
          BY <2>2
    <3> QED
        BY <1>2, <3>1, AppendedAt DEF DiscloseInv, LedgerDisclosed
  <2> QED
      BY <2>1, <2>2
<1>5. LedgerDisclosed'
  <2> SUFFICES ASSUME NEW i \in DOMAIN ledger',
                      ledger'[i].status \in {"disclosure_event_recorded", "completed"}
               PROVE  Disclosed(ledger[i].tid)'
      BY DEF LedgerDisclosed
  <2>1. \E tid : tid = ledger'[i].tid /\ Disclosed(tid)
        BY <1>4
  <2>2. \E tid : tid = ledger'[i].tid /\ Disclosed(tid)'
        BY <1>3, <2>1, DisclosedStays
  <2> QED
      BY <2>2
<1>6. CallsDisclosed'
  <2> SUFFICES ASSUME NEW q \in Procs
               PROVE  /\ OwesEvent(call'[q]) => Disclosed(call[q].t.tid)'
                      /\ call'[q].op = "recover" => call'[q].from \in Unfinished
                      /\ call'[q].at = "verify" => call'[q].op = "recover"
      BY DEF CallsDisclosed, OwesEvent, Unfinished
  <2>1. CASE q = p
    <3>1. ASSUME OwesEvent(c) PROVE Disclosed(call[q].t.tid)'
      <4>1. CASE \E i \in DOMAIN events' : events'[i].tid = c.t.tid
            BY <1>1, <2>1, <4>1 DEF Disclosed
      <4>2. CASE Disclosed(c.t.tid)
        <5>1. \E tid : tid = c.t.tid /\ Disclosed(tid)
              BY <4>2
        <5>2. \E tid : tid = call'[q].t.tid /\ Disclosed(tid)'
              BY <1>1, <1>3, <2>1, <5>1, DisclosedStays
        <5> QED
            BY <5>2
      <4> QED
          BY <3>1, <4>1, <4>2
    <3> QED
        BY <1>1, <2>1, <3>1
  <2>2. CASE q # p
    <3>1. call'[q] = call[q]
          BY <1>1, <2>2
    <3>2. OwesEvent(call[q]) => Disclosed(call[q].t.tid)
          BY DEF DiscloseInv, CallsDisclosed
    <3>3. ASSUME OwesEvent(call[q]) PROVE Disclosed(call[q].t.tid)'
      <4>1. \E tid : tid = call[q].t.tid /\ Disclosed(tid)
            BY <3>2, <3>3
      <4>2. \E tid : tid = call'[q].t.tid /\ Disclosed(tid)'
            BY <1>3, <3>1, <4>1, DisclosedStays
      <4> QED
          BY <4>2
    <3> QED
        BY <3>1, <3>3 DEF DiscloseInv, CallsDisclosed
  <2> QED
      BY <2>1, <2>2
<1> QED
    BY <1>5, <1>6 DEF DiscloseInv

LEMMA LeaveKeepsDisclosed ==
    ASSUME TypeOK, DiscloseInv, NEW p \in Procs, Leave(p), UNCHANGED events,
           \/ ledger' = ledger
           \/ \E e : /\ ledger' = Append(ledger, e)
                     /\ e.status \in {"disclosure_event_recorded", "completed"}
                           => Disclosed(e.tid)
    PROVE  DiscloseInv'
<1>1. ~OwesEvent(Idle) /\ Idle.at # "verify" /\ Idle.op # "recover"
      BY DEF OwesEvent, Idle
<1>2. call' = [call EXCEPT ![p] = Idle]
      BY DEF Leave
<1> QED
    BY <1>1, <1>2, DiscloseInvKept

LEMMA RecordKeepsDisclosed ==
    ASSUME TypeOK, DiscloseInv, NEW p \in Procs, NEW t, NEW status,
           Record(p, t, status), t.tid = call[p].t.tid, UNCHANGED ledger,
           events' = events \/ \E e : events' = Append(events, e),
           status \in {"disclosure_event_recorded", "completed"}
              => \/ Disclosed(t.tid)
                 \/ \E i \in DOMAIN events' : events'[i].tid = t.tid
    PROVE  DiscloseInv'
<1> DEFINE c == [call[p] EXCEPT !.at = "advance", !.t = t, !.next = status]
<1>1. call[p] \in Calls
      BY DEF TypeOK
<1>2. call' = [call EXCEPT ![p] = c]
      BY <1>1 DEF Record, TypeOK, Calls
<1>3. /\ c.t = t /\ c.at = "advance" /\ c.next = status
      /\ c.op = call[p].op /\ c.from = call[p].from
      BY <1>1 DEF Calls
<1> HIDE DEF c
<1>4. OwesEvent(c) => \/ Disclosed(c.t.tid)
                      \/ \E i \in DOMAIN events' : events'[i].tid = c.t.tid
      BY <1>3 DEF OwesEvent, DiscloseInv, CallsDisclosed
<1>5. /\ c.op = "recover" => c.from \in Unfinished
      /\ c.at # "verify"
      BY <1>3 DEF DiscloseInv, CallsDisclosed
<1> QED
    BY <1>2, <1>4, <1>5, DiscloseInvKept

LEMMA BeginKeepsDisclosed ==
    ASSUME TypeOK, DiscloseInv, NEW p \in Procs, Begin(p)
    PROVE  DiscloseInv'
<1>1. ASSUME NEW a \in Auths, NEW sel \in Requests, execute_disclosure_transition(p, a, sel)
      PROVE  DiscloseInv'
  <2> DEFINE t == DisclosureTransition(None, a, sel, manifest)
             c == [Idle EXCEPT !.at = "lock", !.op = "execute", !.sel = sel, !.t = t]
  <2>1. call' = [call EXCEPT ![p] = c]
        BY <1>1 DEF execute_disclosure_transition
  <2>2. ~OwesEvent(c) /\ c.at # "verify" /\ c.op # "recover"
        BY DEF Idle, OwesEvent
  <2> HIDE DEF c
  <2> QED
      BY <1>1, <2>1, <2>2, DiscloseInvKept DEF execute_disclosure_transition
<1>2. ASSUME NEW a \in Auths, recover_disclosure_transition(p, a)
      PROVE  DiscloseInv'
  <2> DEFINE t == lookup_pending_transition(a)
             c == [Idle EXCEPT !.at = "lock", !.op = "recover", !.t = t,
                               !.from = t.status, !.sel = t.sel]
  <2>1. call' = [call EXCEPT ![p] = c]
        BY <1>2 DEF recover_disclosure_transition
  <2>2. PICK i \in DOMAIN ledger : t = ledger[i]
        BY <1>2, PendingRecorded DEF recover_disclosure_transition
  <2>3. c.t = t /\ c.at = "lock" /\ c.op = "recover" /\ c.from = t.status
        BY DEF Idle
  <2>4. t.status \in Unfinished
    <3>1. t \in Recorded /\ ~is_terminal(t)
          BY <1>2, PendingRecorded
          DEF recover_disclosure_transition, lookup_pending_transition
    <3> QED
        BY <3>1 DEF Recorded, Transitions, Statuses, is_terminal, Unfinished
  <2> HIDE DEF c, t
  <2>5. t.status = "recovery_required" => Reached(t.tid, "recovery_required")
        BY <2>2 DEF Reached, Chain
  <2>6. OwesEvent(c) => Disclosed(c.t.tid)
        BY <2>2, <2>3, <2>5 DEF OwesEvent, DiscloseInv, LedgerDisclosed, Disclosed
  <2> QED
      BY <1>2, <2>1, <2>3, <2>4, <2>6, DiscloseInvKept DEF recover_disclosure_transition
<1> QED
    BY <1>1, <1>2 DEF Begin

LEMMA LockingKeepsDisclosed ==
    ASSUME TypeOK, DiscloseInv, NEW p \in Procs, prepare_transition(p) \/ resume_transition(p)
    PROVE  DiscloseInv'
<1>0. call[p] \in Calls /\ UNCHANGED events
      BY DEF TypeOK, prepare_transition, resume_transition
<1>1. CASE prepare_transition(p)
  <2>1. ASSUME NEW c, call' = [call EXCEPT ![p] = c], c.at = "consume", c.op = "execute",
               \/ ledger' = ledger
               \/ \E e : ledger' = Append(ledger, e) /\ e.status = "prepared"
        PROVE  DiscloseInv'
    <3>1. ~OwesEvent(c) /\ c.at # "verify" /\ c.op # "recover"
          BY <2>1 DEF OwesEvent
    <3> QED
        BY <1>0, <2>1, <3>1, DiscloseInvKept
  <2>2. CASE lookup_pending_transition(call[p].t.auth) # NoTransition
    <3> DEFINE t == lookup_pending_transition(call[p].t.auth)
               c == [call[p] EXCEPT !.at = "consume", !.t = t]
    <3>1. call' = [call EXCEPT ![p] = c] /\ ledger' = ledger
          BY <1>0, <1>1, <2>2 DEF prepare_transition, TypeOK, Calls
    <3>2. c.at = "consume" /\ c.op = "execute"
          BY <1>0, <1>1 DEF prepare_transition, Calls
    <3> HIDE DEF c
    <3> QED
        BY <2>1, <3>1, <3>2
  <2>3. CASE lookup_pending_transition(call[p].t.auth) = NoTransition
    <3>1. PICK tid \in Tids :
             LET t == [call[p].t EXCEPT !.tid = tid]
             IN  /\ _append_transition_event(t)
                 /\ call' = [call EXCEPT ![p].at = "consume", ![p].t = t]
          BY <1>1, <2>3 DEF prepare_transition
    <3> DEFINE t == [call[p].t EXCEPT !.tid = tid]
               c == [call[p] EXCEPT !.at = "consume", !.t = t]
    <3>2. CallOK(call[p]) /\ call[p].op = "execute" /\ call[p].at = "lock"
          BY <1>1 DEF prepare_transition, TypeOK
    <3>3. t.status = "prepared"
          BY <1>0, <3>2 DEF CallOK, Calls, Transitions
    <3>4. call' = [call EXCEPT ![p] = c] /\ ledger' = Append(ledger, t)
          BY <1>0, <3>1 DEF _append_transition_event, TypeOK, Calls
    <3>5. c.at = "consume" /\ c.op = "execute"
          BY <1>0, <3>2 DEF Calls
    <3> HIDE DEF t, c
    <3> QED
        BY <2>1, <3>3, <3>4, <3>5
  <2> QED
      BY <2>2, <2>3
<1>2. CASE resume_transition(p)
  <2>1. CASE Leave(p)
        BY <1>2, <2>1, LeaveKeepsDisclosed DEF resume_transition
  <2>2. CASE ~Leave(p)
    <3> DEFINE at == IF call[p].from \in Consumed THEN "verify" ELSE "consume"
               c == [call[p] EXCEPT !.at = at]
    <3>1. call' = [call EXCEPT ![p] = c]
          BY <1>0, <1>2, <2>2 DEF resume_transition, TypeOK, Calls
    <3>2. /\ c.op = "recover" /\ c.t = call[p].t /\ c.from = call[p].from
          /\ c.at \in {"verify", "consume"}
          BY <1>0, <1>2 DEF resume_transition, Calls
    <3>3. call[p].op = "recover" /\ UNCHANGED ledger
          BY <1>2 DEF resume_transition
    <3> HIDE DEF c
    <3>4. (OwesEvent(c) => Disclosed(c.t.tid)) /\ c.from \in Unfinished
          BY <3>2, <3>3 DEF OwesEvent, DiscloseInv, CallsDisclosed
    <3> QED
        BY <1>0, <3>1, <3>2, <3>3, <3>4, DiscloseInvKept
  <2> QED
      BY <2>1, <2>2
<1> QED
    BY <1>1, <1>2

LEMMA InsideKeepsDisclosed ==
    ASSUME TypeOK, DiscloseInv, NEW p \in Procs,
           \/ consume_disclosure_authorization(p) \/ verify_consumed(p)
           \/ _persist_receipt_durable(p) \/ _apply_manifest_mutation(p)
           \/ _persist_disclosure_event_durable(p) \/ complete_transition(p)
    PROVE  DiscloseInv'
<1> DEFINE t == call[p].t
<1>0. call[p].at \notin {"idle", "lock"} /\ UNCHANGED ledger
      BY DEF consume_disclosure_authorization, verify_consumed, _persist_receipt_durable,
             _apply_manifest_mutation, _persist_disclosure_event_durable, complete_transition
<1>1. t \in Recorded /\ call[p] \in Calls
      BY <1>0, InsideTyped
<1>2. CASE consume_disclosure_authorization(p)
  <2> DEFINE v == [t EXCEPT !.digest = used[t.auth] + 1]
  <2>1. v.tid = t.tid
        BY <1>1 DEF Recorded, Transitions
  <2>2. /\ Record(p, v, "authorization_consumed") \/ Record(p, t, "refused")
        /\ UNCHANGED events
        BY <1>2 DEF consume_disclosure_authorization
  <2> HIDE DEF v
  <2> QED
      BY <1>0, <2>1, <2>2, RecordKeepsDisclosed
<1>3. CASE verify_consumed(p)
  <2> DEFINE c == [call[p] EXCEPT !.at = FirstStep(call[p].from)]
  <2>1. CASE Record(p, t, "corrupt")
        BY <1>0, <1>3, <2>1, RecordKeepsDisclosed DEF verify_consumed
  <2>2. CASE ~Record(p, t, "corrupt")
    <3>1. call' = [call EXCEPT ![p] = c] /\ UNCHANGED events
          BY <1>1, <1>3, <2>2 DEF verify_consumed, TypeOK, Calls
    <3>2. /\ c.t = t /\ c.op = call[p].op /\ c.from = call[p].from
          /\ c.at = FirstStep(call[p].from)
          BY <1>1 DEF Calls
    <3>3. call[p].op = "recover" /\ call[p].from \in Unfinished
          BY <1>3 DEF verify_consumed, DiscloseInv, CallsDisclosed
    <3>4. /\ FirstStep(call[p].from) \in {"receipt", "manifest", "event", "complete"}
          /\ FirstStep(call[p].from) = "complete"
                => call[p].from \in {"disclosure_event_recorded", "recovery_required"}
          BY <3>3 DEF FirstStep, Unfinished, Consumed
    <3> HIDE DEF c
    <3>5. OwesEvent(c) => Disclosed(c.t.tid)
          BY <3>2, <3>3, <3>4 DEF OwesEvent, DiscloseInv, CallsDisclosed
    <3> QED
        BY <1>0, <3>1, <3>2, <3>3, <3>4, <3>5, DiscloseInvKept
  <2> QED
      BY <2>1, <2>2
<1>4. CASE _persist_receipt_durable(p)
  <2>1. /\ UNCHANGED events
        /\ \/ Record(p, t, "projection_receipt_persisted")
           \/ Record(p, t, "refused") \/ Record(p, t, "recovery_required")
        BY <1>4 DEF _persist_receipt_durable
  <2> QED
      BY <1>0, <2>1, RecordKeepsDisclosed
<1>5. CASE _apply_manifest_mutation(p)
  <2> DEFINE post == mark_selector_disclosed(manifest, t.sel)
             v == [t EXCEPT !.after = post]
  <2>1. v.tid = t.tid
        BY <1>1 DEF Recorded, Transitions
  <2>2. /\ UNCHANGED events
        /\ Record(p, v, "manifest_applied") \/ Record(p, t, "corrupt")
        BY <1>5 DEF _apply_manifest_mutation
  <2> HIDE DEF v, post
  <2> QED
      BY <1>0, <2>1, <2>2, RecordKeepsDisclosed
<1>6. CASE _persist_disclosure_event_durable(p)
  <2> DEFINE e == _build_disclosure_event(t)
             existing == {i \in DOMAIN events : events[i].tid = t.tid}
  <2>1. \/ events' = events
        \/ events' = Append(events, e)
        BY <1>6 DEF _persist_disclosure_event_durable
  <2>2. \/ /\ Record(p, t, "disclosure_event_recorded")
           /\ events' = IF existing = {} THEN Append(events, e) ELSE events
        \/ Record(p, t, "recovery_required")
        BY <1>6 DEF _persist_disclosure_event_durable
  <2>3. e.tid = t.tid
        BY DEF _build_disclosure_event
  <2> HIDE DEF e
  <2>4. events' = Append(events, e) => \E i \in DOMAIN events' : events'[i].tid = t.tid
    <3>1. events \in Seq(Disclosures)
          BY DEF TypeOK
    <3>2. Len(events) + 1 \in DOMAIN Append(events, e) /\ Append(events, e)[Len(events) + 1] = e
          BY <3>1
    <3> QED
        BY <2>3, <3>2
  <2>5. existing # {} => Disclosed(t.tid)
        BY DEF Disclosed
  <2> HIDE DEF existing
  <2> QED
      BY <1>0, <2>1, <2>2, <2>4, <2>5, RecordKeepsDisclosed
<1>7. CASE complete_transition(p)
  <2>1. Disclosed(t.tid)
        BY <1>7 DEF complete_transition, DiscloseInv, CallsDisclosed, OwesEvent
  <2> QED
      BY <1>0, <1>7, <2>1, RecordKeepsDisclosed DEF complete_transition
<1> QED
    BY <1>2, <1>3, <1>4, <1>5, <1>6, <1>7

LEMMA AdvanceKeepsDisclosed ==
    ASSUME TypeOK, DiscloseInv, NEW p \in Procs, advance_transition(p)
    PROVE  DiscloseInv'
<1> DEFINE t == [call[p].t EXCEPT !.status = call[p].next, !.seq = @ + 1]
           step == NextStep(call[p].op, call[p].next)
           c == [call[p] EXCEPT !.at = step, !.t = t]
<1>0. call[p].at = "advance" /\ ledger' = Append(ledger, t) /\ UNCHANGED events
      BY DEF advance_transition, _append_transition_event
<1>1. call[p].t \in Recorded /\ call[p] \in Calls
      BY <1>0, InsideTyped
<1>2. t.status = call[p].next /\ t.tid = call[p].t.tid
      BY <1>1 DEF Recorded, Transitions
<1>3. call[p].next \in {"disclosure_event_recorded", "completed"} => Disclosed(t.tid)
  <2> HIDE DEF t
  <2> QED
      BY <1>0, <1>2 DEF DiscloseInv, CallsDisclosed, OwesEvent
<1>4. CASE Leave(p)
  <2> HIDE DEF t
  <2> QED
      BY <1>0, <1>2, <1>3, <1>4, LeaveKeepsDisclosed
<1>5. CASE ~Leave(p)
  <2>1. call' = [call EXCEPT ![p] = c]
        BY <1>1, <1>5 DEF advance_transition, TypeOK, Calls
  <2>2. c.t = t /\ c.at = step /\ c.op = call[p].op /\ c.from = call[p].from
        BY <1>1 DEF Calls
  <2>3. /\ step = "complete" => call[p].next = "disclosure_event_recorded"
        /\ step = "verify" => call[p].op = "recover"
        /\ step # "advance"
        BY DEF NextStep
  <2> HIDE DEF t, step, c
  <2>4. OwesEvent(c) => Disclosed(c.t.tid)
        BY <1>2, <1>3, <2>2, <2>3 DEF OwesEvent, DiscloseInv, CallsDisclosed
  <2>5. c.op = "recover" => c.from \in Unfinished
        BY <2>2 DEF DiscloseInv, CallsDisclosed
  <2> QED
      BY <1>0, <1>2, <1>3, <2>1, <2>2, <2>3, <2>4, <2>5, DiscloseInvKept
<1> QED
    BY <1>4, <1>5

LEMMA DisclosuresKept == Spec => []DiscloseInv
<1>1. Init => DiscloseInv
      BY DEF Init, DiscloseInv, LedgerDisclosed, CallsDisclosed, OwesEvent, Idle
<1>2. TypeOK /\ DiscloseInv /\ [Next]_vars => DiscloseInv'
  <2> SUFFICES ASSUME TypeOK, DiscloseInv, [Next]_vars PROVE DiscloseInv'
      OBVIOUS
  <2>1. ASSUME NEW p \in Procs, abort(p) PROVE DiscloseInv'
        BY <2>1, LeaveKeepsDisclosed DEF abort
  <2>2. CASE UNCHANGED <<ledger, events, call>>
        BY <2>2 DEF DiscloseInv, LedgerDisclosed, CallsDisclosed, OwesEvent, Disclosed,
                    Reached, Chain, Unfinished
  <2>3. ASSUME NEW p \in Procs, Proceed(p) PROVE DiscloseInv'
        BY <2>3, LockingKeepsDisclosed, InsideKeepsDisclosed, AdvanceKeepsDisclosed DEF Proceed
  <2>4. ASSUME NEW a \in Auths, Expire(a) PROVE DiscloseInv'
        BY <2>2, <2>4 DEF Expire
  <2> QED
      BY <2>1, <2>2, <2>3, <2>4, BeginKeepsDisclosed DEF Next, vars
<1> QED
    BY <1>1, <1>2, TypeCorrect, PTL DEF Spec

(* A completed transition has its disclosure event, unless its chain had     *)
(* recorded RECOVERY_REQUIRED: for any interleaving of executions and        *)
(* recoveries, wherever the earlier calls died.                              *)
THEOREM CompletedDisclosed == Spec => []CompletedIsDisclosed
<1>1. DiscloseInv => CompletedIsDisclosed
      BY DEF DiscloseInv, LedgerDisclosed, CompletedIsDisclosed, Disclosed, Reached, Chain
<1> QED
    BY <1>1, DisclosuresKept, PTL

-----------------------------------------------------------------------------
(* Completion.  The two recoveries of CompletedOnce meet in the ledger: the  *)
(* proof is about what the lines of one transition and one use have in       *)
(* common, whoever wrote them.                                               *)

LEMMA LeastOf ==
    ASSUME NEW T, T \subseteq Nat, T # {}
    PROVE  \E m \in T : \A n \in T : m <= n
<1>1. PICK m \in T : \A n \in T : ~(<<n, m>> \in OpToRel(<, Nat))
      BY NatLessThanWellFounded, WFMin
<1>2. \A n \in T : ~(n < m)
      BY <1>1 DEF OpToRel
<1> QED
    BY <1>2

LEMMA GreatestOf ==
    ASSUME NEW T, T \subseteq Nat, T # {}, NEW b \in Nat, \A n \in T : n <= b
    PROVE  \E m \in T : \A n \in T : n <= m
<1> DEFINE U == {k \in Nat : \A n \in T : n <= k}
<1>1. PICK m \in U : \A k \in U : m <= k
  <2>1. b \in U /\ U \subseteq Nat
        OBVIOUS
  <2> QED
      BY <2>1, LeastOf
<1>2. m \in T
  <2> SUFFICES ASSUME m \notin T PROVE FALSE
      OBVIOUS
  <2>0. PICK k \in T : TRUE
        OBVIOUS
  <2>1. m \in Nat /\ \A n \in T : n \in Nat /\ n < m
        BY <1>1
  <2>2. m # 0
        BY <2>0, <2>1
  <2>3. m - 1 \in U
        BY <1>1, <2>1, <2>2
  <2> QED
      BY <1>1, <2>3
<1> QED
    BY <1>1, <1>2

(* The lines of the ledger, the calls that have a recorded plan. *)
Lines == {ledger[i] : i \in DOMAIN ledger}

Planned(c) == Inside(c) \/ c.op = "recover"

SeqBounded ==
    /\ \A x \in Lines : x.seq <= Len(ledger)
    /\ \A p \in Procs : Planned(call[p]) => call[p].t.seq <= Len(ledger)

PreparedFirst ==
    /\ \A x \in Lines : x.status = "prepared" => x.seq = 0
    /\ \A p \in Procs :
          /\ call[p].at = "lock" /\ call[p].op = "execute" => call[p].t.seq = 0
          /\ call[p].at = "advance" => call[p].next # "prepared"

(* A transition id belongs to one authorisation. *)
OneAuth ==
    /\ \A x, y \in Lines : x.tid = y.tid => x.auth = y.auth
    /\ \A p \in Procs : Planned(call[p]) =>
          \E x \in Lines : x.tid = call[p].t.tid /\ x.auth = call[p].t.auth

ChainInv == SeqBounded /\ PreparedFirst /\ OneAuth

(* The last event exists, and no event of the authorisation is numbered      *)
(* higher.                                                                   *)
LEMMA LastIsTop ==
    ASSUME TypeOK, \A x \in Lines : x.seq <= Len(ledger), NEW e \in Lines
    PROVE  LET last == _last_event_for_auth(e.auth) IN
           /\ last \in Lines /\ last.auth = e.auth
           /\ \A x \in Lines : x.auth = e.auth => x.seq <= last.seq
<1> DEFINE a == e.auth
           chain == _find_transition_for_auth(a)
           last  == {i \in chain : \A j \in chain :
                        \/ ledger[j].seq < ledger[i].seq
                        \/ ledger[j].seq = ledger[i].seq /\ j <= i}
<1>0. /\ Len(ledger) \in Nat /\ DOMAIN ledger = 1 .. Len(ledger)
      /\ \A i \in DOMAIN ledger : ledger[i].seq \in Nat
  <2>1. ledger \in Seq(Recorded)
        BY DEF TypeOK
  <2>2. \A x \in Recorded : x.seq \in Nat
        BY DEF Recorded, Transitions
  <2> QED
      BY <2>1, <2>2
<1>1. chain # {} /\ chain \subseteq DOMAIN ledger
      BY DEF Lines, _find_transition_for_auth
<1>2. \A i \in chain : ledger[i].seq \in Nat /\ ledger[i].seq <= Len(ledger) /\ i \in 1 .. Len(ledger)
      BY <1>0, <1>1 DEF Lines
<1>3. PICK m \in {ledger[i].seq : i \in chain} : \A n \in {ledger[i].seq : i \in chain} : n <= m
  <2> DEFINE T == {ledger[i].seq : i \in chain}
  <2> HIDE DEF chain
  <2>1. T \subseteq Nat /\ T # {} /\ \A n \in T : n <= Len(ledger)
        BY <1>1, <1>2
  <2> HIDE DEF T
  <2>2. \E m \in T : \A n \in T : n <= m
        BY <1>0, <2>1, GreatestOf
  <2> QED
      BY <2>2 DEF T
<1> DEFINE top == {i \in chain : ledger[i].seq = m}
<1>4. PICK k \in top : \A i \in top : i <= k
  <2>1. top \subseteq Nat /\ top # {} /\ \A i \in top : i <= Len(ledger)
        BY <1>0, <1>2, <1>3
  <2> HIDE DEF top
  <2> QED
      BY <1>0, <2>1, GreatestOf
<1>5. k \in last
  <2> SUFFICES ASSUME NEW j \in chain
               PROVE  \/ ledger[j].seq < ledger[k].seq
                      \/ ledger[j].seq = ledger[k].seq /\ j <= k
      BY <1>4
  <2>1. ledger[j].seq <= m /\ m \in Nat /\ ledger[k].seq = m /\ ledger[j].seq \in Nat
        BY <1>2, <1>3, <1>4
  <2>2. ledger[j].seq = m => j <= k
        BY <1>4
  <2> QED
      BY <2>1, <2>2
<1> DEFINE l == CHOOSE i \in last : TRUE
<1>6. l \in last
      BY <1>5
<1>7. _last_event_for_auth(a) = ledger[l]
  <2>1. last # {}
        BY <1>5
  <2> QED
      BY <2>1 DEF _last_event_for_auth
<1>8. l \in chain /\ \A j \in chain : ledger[j].seq <= ledger[l].seq
  <2>1. \A j \in chain : ledger[j].seq < ledger[l].seq \/ ledger[j].seq = ledger[l].seq
        BY <1>6
  <2>2. l \in chain
        BY <1>6
  <2> HIDE DEF l, last, chain
  <2> QED
      BY <1>2, <2>1, <2>2
<1>9. ledger[l] \in Lines /\ ledger[l].auth = a
      BY <1>1, <1>8 DEF Lines, _find_transition_for_auth
<1>10. \A x \in Lines : x.auth = a => x.seq <= ledger[l].seq
      BY <1>8 DEF Lines, _find_transition_for_auth
<1> QED
    BY <1>7, <1>9, <1>10

(* The steps, by what they do to the ledger, the uses, the receipts and the  *)
(* call of one process, whose new value is c.                                *)

Departs(p, c) == c = Idle /\ UNCHANGED <<used, ledger, receipts>>

Asks(p, c) ==
    /\ c.at = "lock" /\ c.op = "execute" /\ c.from = "none"
    /\ c.t.status = "prepared" /\ c.t.digest = 0 /\ c.t.seq = 0
    /\ UNCHANGED <<used, ledger, receipts>>

Plans(p, c) ==
    /\ c.at = "lock" /\ c.op = "recover" /\ c.from = c.t.status
    /\ c.t \in Lines /\ c.t = _last_event_for_auth(c.t.auth) /\ ~is_terminal(c.t)
    /\ UNCHANGED <<used, ledger, receipts>>

Continues(p, c) ==
    /\ c.at = "consume" /\ c.op = "execute" /\ c.t \in Lines
    /\ UNCHANGED <<used, ledger, receipts>>

Prepares(p, c) ==
    /\ call[p].at = "lock" /\ call[p].op = "execute"
    /\ c.at = "consume" /\ c.op = "execute" /\ c.t.status = "prepared"
    /\ c.t.seq = call[p].t.seq /\ \A x \in Lines : x.tid # c.t.tid
    /\ ledger' = Append(ledger, c.t)
    /\ UNCHANGED <<used, receipts>>

Resumes(p, c) ==
    LET last == _last_event_for_auth(c.t.auth)
    IN  /\ call[p].at = "lock" /\ call[p].op = "recover"
        /\ ~(last.seq > c.t.seq /\ is_terminal(last))
        /\ c.t = call[p].t /\ c.op = "recover" /\ c.from = call[p].from
        /\ c.at = IF c.from \in Consumed THEN "verify" ELSE "consume"
        /\ UNCHANGED <<used, ledger, receipts>>

Consumes(p, c) ==
    LET t == call[p].t
    IN  /\ call[p].at = "consume"
        /\ used' = [used EXCEPT ![t.auth] = @ + 1]
        /\ c.t = [t EXCEPT !.digest = used[t.auth] + 1]
        /\ c.at = "advance" /\ c.next = "authorization_consumed"
        /\ c.op = call[p].op /\ c.from = call[p].from
        /\ UNCHANGED <<ledger, receipts>>

(* What may be recorded at a step, the recording of a consumption apart. *)
Outcomes(at) ==
    CASE at = "consume"  -> {"refused"}
      [] at = "verify"   -> {"corrupt"}
      [] at = "receipt"  -> {"projection_receipt_persisted", "refused", "recovery_required"}
      [] at = "manifest" -> {"manifest_applied", "corrupt"}
      [] at = "event"    -> {"disclosure_event_recorded", "recovery_required"}
      [] at = "complete" -> {"completed"}
      [] OTHER           -> {}

SamePlan(s, t) ==
    /\ s.tid = t.tid /\ s.auth = t.auth /\ s.seq = t.seq
    /\ s.status = t.status /\ s.digest = t.digest

Records(p, c) ==
    LET t == call[p].t
    IN  /\ call[p].at # "advance" /\ Inside(call[p])
        /\ c.at = "advance" /\ c.next \in Outcomes(call[p].at)
        /\ c.op = call[p].op /\ c.from = call[p].from /\ SamePlan(c.t, t)
        /\ \/ UNCHANGED receipts
           \/ /\ receipts[t.tid] \in {0, used[t.auth]} /\ call[p].at = "receipt"
              /\ receipts' = [receipts EXCEPT ![t.tid] = used[t.auth]]
        /\ c.next = "projection_receipt_persisted" => receipts'[t.tid] = used[t.auth]
        /\ UNCHANGED <<used, ledger>>

Verifies(p, c) ==
    /\ call[p].at = "verify" /\ call[p].t.digest \in {0, used[call[p].t.auth]}
    /\ c.t = call[p].t /\ c.at = FirstStep(c.from)
    /\ c.op = call[p].op /\ c.from = call[p].from
    /\ UNCHANGED <<used, ledger, receipts>>

Advanced(c) == [c.t EXCEPT !.status = c.next, !.seq = @ + 1]

Advances(p, c) ==
    /\ call[p].at = "advance"
    /\ ledger' = Append(ledger, Advanced(call[p]))
    /\ \/ c = Idle
       \/ /\ c.at = NextStep(call[p].op, call[p].next) /\ c.at # "return"
          /\ c.t = Advanced(call[p]) /\ c.op = call[p].op /\ c.from = call[p].from
    /\ UNCHANGED <<used, receipts>>

Moves(p, c) ==
    /\ call' = [call EXCEPT ![p] = c]
    /\ \/ Departs(p, c) \/ Asks(p, c) \/ Plans(p, c) \/ Continues(p, c) \/ Prepares(p, c)
       \/ Resumes(p, c) \/ Consumes(p, c) \/ Records(p, c) \/ Verifies(p, c) \/ Advances(p, c)

LEMMA BeginMoves ==
    ASSUME TypeOK, NEW p \in Procs, Begin(p)
    PROVE  \E c : Moves(p, c)
<1>1. ASSUME NEW a \in Auths, NEW sel \in Requests, execute_disclosure_transition(p, a, sel)
      PROVE  \E c : Moves(p, c)
  <2> DEFINE t == DisclosureTransition(None, a, sel, manifest)
             c == [Idle EXCEPT !.at = "lock", !.op = "execute", !.sel = sel, !.t = t]
  <2>1. call' = [call EXCEPT ![p] = c] /\ UNCHANGED <<used, ledger, receipts>>
        BY <1>1 DEF execute_disclosure_transition
  <2>2. /\ c.at = "lock" /\ c.op = "execute" /\ c.from = "none"
        /\ c.t.status = "prepared" /\ c.t.digest = 0 /\ c.t.seq = 0
        BY DEF Idle, DisclosureTransition
  <2> HIDE DEF c
  <2> QED
      BY <2>1, <2>2 DEF Moves, Asks
<1>2. ASSUME NEW a \in Auths, recover_disclosure_transition(p, a)
      PROVE  \E c : Moves(p, c)
  <2> DEFINE t == lookup_pending_transition(a)
             c == [Idle EXCEPT !.at = "lock", !.op = "recover", !.t = t,
                               !.from = t.status, !.sel = t.sel]
  <2>1. call' = [call EXCEPT ![p] = c] /\ UNCHANGED <<used, ledger, receipts>>
        BY <1>2 DEF recover_disclosure_transition
  <2>2. t # NoTransition
        BY <1>2 DEF recover_disclosure_transition
  <2>3. t \in Lines /\ t.auth = a
        BY <2>2, PendingRecorded DEF Lines
  <2>4. t = _last_event_for_auth(a) /\ ~is_terminal(t)
        BY <2>2 DEF lookup_pending_transition
  <2>5. c.t = t /\ c.at = "lock" /\ c.op = "recover" /\ c.from = t.status
        BY DEF Idle
  <2> HIDE DEF c, t
  <2> QED
      BY <2>1, <2>3, <2>4, <2>5 DEF Moves, Plans
<1> QED
    BY <1>1, <1>2 DEF Begin

LEMMA LockingMoves ==
    ASSUME TypeOK, NEW p \in Procs, prepare_transition(p) \/ resume_transition(p)
    PROVE  \E c : Moves(p, c)
<1>0. call[p] \in Calls /\ call[p].at = "lock" /\ UNCHANGED <<used, receipts>>
      BY DEF TypeOK, prepare_transition, resume_transition
<1>1. CASE prepare_transition(p)
  <2> DEFINE pending == lookup_pending_transition(call[p].t.auth)
  <2>0. call[p].op = "execute"
        BY <1>1 DEF prepare_transition
  <2>1. CASE pending # NoTransition
    <3> DEFINE c == [call[p] EXCEPT !.at = "consume", !.t = pending]
    <3>1. call' = [call EXCEPT ![p] = c] /\ ledger' = ledger
          BY <1>0, <1>1, <2>1 DEF prepare_transition, TypeOK, Calls
    <3>2. c.at = "consume" /\ c.op = "execute" /\ c.t = pending
          BY <1>0, <2>0 DEF Calls
    <3>3. pending \in Lines
          BY <2>1, PendingRecorded DEF Lines
    <3> HIDE DEF c, pending
    <3> QED
        BY <1>0, <3>1, <3>2, <3>3 DEF Moves, Continues
  <2>2. CASE pending = NoTransition
    <3>1. PICK tid \in Tids \ {ledger[i].tid : i \in DOMAIN ledger} :
             LET t == [call[p].t EXCEPT !.tid = tid]
             IN  /\ _append_transition_event(t)
                 /\ call' = [call EXCEPT ![p].at = "consume", ![p].t = t]
          BY <1>1, <2>2 DEF prepare_transition
    <3> DEFINE t == [call[p].t EXCEPT !.tid = tid]
               c == [call[p] EXCEPT !.at = "consume", !.t = t]
    <3>2. CallOK(call[p])
          BY DEF TypeOK
    <3>3. t.status = "prepared" /\ t.seq = call[p].t.seq /\ t.tid = tid
          BY <1>0, <2>0, <3>2 DEF CallOK, Calls, Transitions
    <3>4. call' = [call EXCEPT ![p] = c] /\ ledger' = Append(ledger, t)
          BY <1>0, <3>1 DEF _append_transition_event, TypeOK, Calls
    <3>5. c.at = "consume" /\ c.op = "execute" /\ c.t = t
          BY <1>0, <2>0 DEF Calls
    <3>6. \A x \in Lines : x.tid # tid
          BY <3>1 DEF Lines
    <3> HIDE DEF t, c
    <3>7. Prepares(p, c)
          BY <1>0, <2>0, <3>3, <3>4, <3>5, <3>6 DEF Prepares
    <3> QED
        BY <3>4, <3>7 DEF Moves
  <2> QED
      BY <2>1, <2>2
<1>2. CASE resume_transition(p)
  <2>1. CASE Leave(p)
        BY <1>0, <1>2, <2>1 DEF resume_transition, Leave, Moves, Departs
  <2>2. CASE ~Leave(p)
    <3> DEFINE at == IF call[p].from \in Consumed THEN "verify" ELSE "consume"
               c == [call[p] EXCEPT !.at = at]
               last == _last_event_for_auth(call[p].t.auth)
    <3>1. /\ call' = [call EXCEPT ![p] = c] /\ UNCHANGED ledger
          /\ ~(last.seq > call[p].t.seq /\ is_terminal(last))
          /\ call[p].op = "recover"
          BY <1>0, <1>2, <2>2 DEF resume_transition, TypeOK, Calls
    <3>2. /\ c.op = "recover" /\ c.t = call[p].t /\ c.from = call[p].from
          /\ c.at = at
          BY <1>0, <3>1 DEF Calls
    <3> HIDE DEF c, last
    <3>3. Resumes(p, c)
          BY <1>0, <3>1, <3>2 DEF Resumes, last
    <3> QED
        BY <3>1, <3>3 DEF Moves
  <2> QED
      BY <2>1, <2>2
<1> QED
    BY <1>1, <1>2

(* A status is recorded, for a plan that differs at most in its post-image. *)
LEMMA RecordMoves ==
    ASSUME TypeOK, NEW p \in Procs, NEW t, NEW status, Record(p, t, status),
           Inside(call[p]), status \in Outcomes(call[p].at), SamePlan(t, call[p].t),
           \/ UNCHANGED receipts
           \/ /\ receipts[call[p].t.tid] \in {0, used[call[p].t.auth]} /\ call[p].at = "receipt"
              /\ receipts' = [receipts EXCEPT ![call[p].t.tid] = used[call[p].t.auth]],
           status = "projection_receipt_persisted"
              => receipts'[call[p].t.tid] = used[call[p].t.auth],
           UNCHANGED <<used, ledger>>
    PROVE  \E c : Moves(p, c)
<1> DEFINE c == [call[p] EXCEPT !.at = "advance", !.t = t, !.next = status]
<1>1. call[p] \in Calls /\ call[p].at # "advance"
      BY DEF TypeOK, Outcomes
<1>2. call' = [call EXCEPT ![p] = c]
      BY <1>1 DEF Record, TypeOK, Calls
<1>3. /\ c.t = t /\ c.at = "advance" /\ c.next = status
      /\ c.op = call[p].op /\ c.from = call[p].from
      BY <1>1 DEF Calls
<1> HIDE DEF c
<1>4. Records(p, c)
      BY <1>1, <1>3 DEF Records
<1> QED
    BY <1>2, <1>4 DEF Moves

LEMMA InsideMoves ==
    ASSUME TypeOK, NEW p \in Procs,
           \/ consume_disclosure_authorization(p) \/ verify_consumed(p)
           \/ _persist_receipt_durable(p) \/ _apply_manifest_mutation(p)
           \/ _persist_disclosure_event_durable(p) \/ complete_transition(p)
    PROVE  \E c : Moves(p, c)
<1> DEFINE t == call[p].t
<1>0. call[p].at \notin {"idle", "lock"} /\ UNCHANGED ledger
      BY DEF consume_disclosure_authorization, verify_consumed, _persist_receipt_durable,
             _apply_manifest_mutation, _persist_disclosure_event_durable, complete_transition
<1>1. t \in Recorded /\ call[p] \in Calls /\ Inside(call[p]) /\ t.tid \in Tids
      BY <1>0, InsideTyped
<1>2. SamePlan(t, t)
      BY DEF SamePlan
<1>3. CASE consume_disclosure_authorization(p)
  <2> DEFINE v == [t EXCEPT !.digest = used[t.auth] + 1]
             c == [call[p] EXCEPT !.at = "advance", !.t = v, !.next = "authorization_consumed"]
  <2>0. call[p].at = "consume" /\ UNCHANGED receipts
        BY <1>3 DEF consume_disclosure_authorization
  <2>1. CASE Record(p, t, "refused") /\ UNCHANGED used
        BY <1>0, <1>1, <1>2, <2>0, <2>1, RecordMoves DEF Outcomes
  <2>2. CASE ~(Record(p, t, "refused") /\ UNCHANGED used)
    <3>1. /\ used' = [used EXCEPT ![t.auth] = @ + 1]
          /\ Record(p, v, "authorization_consumed")
          BY <1>3, <2>2 DEF consume_disclosure_authorization
    <3>2. call' = [call EXCEPT ![p] = c]
          BY <1>1, <3>1 DEF Record, TypeOK, Calls
    <3>3. /\ c.t = v /\ c.at = "advance" /\ c.next = "authorization_consumed"
          /\ c.op = call[p].op /\ c.from = call[p].from
          BY <1>1 DEF Calls
    <3> HIDE DEF c
    <3>4. Consumes(p, c)
          BY <1>0, <2>0, <3>1, <3>3 DEF Consumes
    <3> QED
        BY <3>2, <3>4 DEF Moves
  <2> QED
      BY <2>1, <2>2
<1>4. CASE verify_consumed(p)
  <2> DEFINE c == [call[p] EXCEPT !.at = FirstStep(call[p].from)]
  <2>0. call[p].at = "verify" /\ UNCHANGED <<used, receipts>>
        BY <1>4 DEF verify_consumed
  <2>1. CASE Record(p, t, "corrupt")
        BY <1>0, <1>1, <1>2, <2>0, <2>1, RecordMoves DEF Outcomes
  <2>2. CASE ~Record(p, t, "corrupt")
    <3>1. call' = [call EXCEPT ![p] = c] /\ t.digest \in {0, used[t.auth]}
          BY <1>1, <1>4, <2>2 DEF verify_consumed, TypeOK, Calls
    <3>2. /\ c.t = t /\ c.op = call[p].op /\ c.from = call[p].from
          /\ c.at = FirstStep(call[p].from)
          BY <1>1 DEF Calls
    <3> HIDE DEF c
    <3>3. Verifies(p, c)
          BY <1>0, <2>0, <3>1, <3>2 DEF Verifies
    <3> QED
        BY <3>1, <3>3 DEF Moves
  <2> QED
      BY <2>1, <2>2
<1>5. CASE _persist_receipt_durable(p)
  <2> DEFINE ok == t.digest \in {0, used[t.auth]} /\ receipts[t.tid] \in {0, used[t.auth]}
             written == [receipts EXCEPT ![t.tid] = used[t.auth]]
  <2>1. call[p].at = "receipt" /\ UNCHANGED used
        BY <1>5 DEF _persist_receipt_durable
  <2>2. \/ ok /\ receipts' = written /\ Record(p, t, "projection_receipt_persisted")
        \/ /\ receipts' = receipts \/ (ok /\ receipts' = written)
           /\ Record(p, t, "refused") \/ Record(p, t, "recovery_required")
        BY <1>5 DEF _persist_receipt_durable
  <2>3. written[t.tid] = used[t.auth]
        BY <1>1 DEF TypeOK
  <2>4. Outcomes("receipt") = {"projection_receipt_persisted", "refused", "recovery_required"}
        BY DEF Outcomes
  <2>5. \E s \in Outcomes(call[p].at) :
           /\ Record(p, t, s)
           /\ receipts' = receipts \/ (ok /\ receipts' = written)
           /\ s = "projection_receipt_persisted" => receipts' = written
        BY <2>1, <2>2, <2>4
  <2> QED
      BY <1>0, <1>1, <1>2, <2>1, <2>3, <2>5, RecordMoves
<1>6. CASE _apply_manifest_mutation(p)
  <2> DEFINE v == [t EXCEPT !.after = mark_selector_disclosed(manifest, t.sel)]
  <2>1. SamePlan(v, t)
        BY <1>1 DEF SamePlan, Recorded, Transitions
  <2>2. /\ call[p].at = "manifest" /\ UNCHANGED <<used, receipts>>
        /\ Record(p, v, "manifest_applied") \/ Record(p, t, "corrupt")
        BY <1>6 DEF _apply_manifest_mutation
  <2>3. Outcomes("manifest") = {"manifest_applied", "corrupt"}
        BY DEF Outcomes
  <2> HIDE DEF v
  <2> QED
      BY <1>0, <1>1, <1>2, <2>1, <2>2, <2>3, RecordMoves
<1>7. CASE _persist_disclosure_event_durable(p)
  <2>1. /\ call[p].at = "event" /\ UNCHANGED <<used, receipts>>
        /\ Record(p, t, "disclosure_event_recorded") \/ Record(p, t, "recovery_required")
        BY <1>7 DEF _persist_disclosure_event_durable
  <2>2. Outcomes("event") = {"disclosure_event_recorded", "recovery_required"}
        BY DEF Outcomes
  <2> QED
      BY <1>0, <1>1, <1>2, <2>1, <2>2, RecordMoves
<1>8. CASE complete_transition(p)
  <2>1. /\ call[p].at = "complete" /\ UNCHANGED <<used, receipts>>
        /\ Record(p, t, "completed")
        BY <1>8 DEF complete_transition
  <2>2. Outcomes("complete") = {"completed"}
        BY DEF Outcomes
  <2> QED
      BY <1>0, <1>1, <1>2, <2>1, <2>2, RecordMoves
<1> QED
    BY <1>3, <1>4, <1>5, <1>6, <1>7, <1>8

LEMMA AdvanceMoves ==
    ASSUME TypeOK, NEW p \in Procs, advance_transition(p)
    PROVE  \E c : Moves(p, c)
<1> DEFINE t == Advanced(call[p])
           step == NextStep(call[p].op, call[p].next)
           c == [call[p] EXCEPT !.at = step, !.t = t]
<1>0. /\ call[p].at = "advance" /\ ledger' = Append(ledger, t) /\ UNCHANGED <<used, receipts>>
      /\ call[p] \in Calls
      BY DEF advance_transition, _append_transition_event, Advanced, TypeOK
<1>1. CASE Leave(p)
      BY <1>0, <1>1 DEF Leave, Moves, Advances
<1>2. CASE ~Leave(p)
  <2>1. step # "return" /\ call' = [call EXCEPT ![p] = c]
        BY <1>0, <1>2 DEF advance_transition, TypeOK, Calls, Advanced
  <2>2. c.t = t /\ c.at = step /\ c.op = call[p].op /\ c.from = call[p].from
        BY <1>0 DEF Calls
  <2> HIDE DEF c
  <2>3. Advances(p, c)
        BY <1>0, <2>1, <2>2 DEF Advances
  <2> QED
      BY <2>1, <2>3 DEF Moves
<1> QED
    BY <1>1, <1>2

LEMMA NextMoves ==
    ASSUME TypeOK, [Next]_vars
    PROVE  UNCHANGED <<used, ledger, receipts, call>> \/ \E p \in Procs : \E c : Moves(p, c)
<1>1. ASSUME NEW p \in Procs, abort(p) PROVE \E c : Moves(p, c)
      BY <1>1 DEF abort, Leave, Moves, Departs
<1>2. ASSUME NEW p \in Procs, Proceed(p) PROVE \E c : Moves(p, c)
      BY <1>2, LockingMoves, InsideMoves, AdvanceMoves DEF Proceed
<1> QED
    BY <1>1, <1>2, BeginMoves DEF Next, vars, Expire

LEMMA LinesTyped ==
    ASSUME TypeOK
    PROVE  /\ Len(ledger) \in Nat
           /\ \A x \in Lines : x \in Recorded /\ x.seq \in Nat /\ x.digest \in Nat
           /\ \A p \in Procs : call[p] \in Calls /\ call[p].t.seq \in Nat /\ call[p].t.digest \in Nat
<1>1. ledger \in Seq(Recorded) /\ \A p \in Procs : call[p] \in Calls
      BY DEF TypeOK
<1>2. \A x \in Recorded : x.seq \in Nat /\ x.digest \in Nat
      BY DEF Recorded, Transitions
<1>3. \A c \in Calls : c.t.seq \in Nat /\ c.t.digest \in Nat
      BY DEF Calls, Transitions
<1> QED
    BY <1>1, <1>2, <1>3 DEF Lines

LEMMA LinesAppended ==
    ASSUME TypeOK, NEW e, ledger' = Append(ledger, e)
    PROVE  Lines' = Lines \cup {e} /\ Len(ledger') = Len(ledger) + 1
<1>1. ledger \in Seq(Recorded)
      BY DEF TypeOK
<1>2. /\ Len(ledger') = Len(ledger) + 1 /\ DOMAIN ledger' = 1 .. Len(ledger) + 1
      /\ \A i \in 1 .. Len(ledger) : ledger'[i] = ledger[i]
      /\ ledger'[Len(ledger) + 1] = e
      /\ Len(ledger) \in Nat /\ DOMAIN ledger = 1 .. Len(ledger)
      BY <1>1
<1> QED
    BY <1>2 DEF Lines

(* What a move makes of the ledger. *)
LEMMA MovedLines ==
    ASSUME TypeOK, NEW p \in Procs, NEW c, Moves(p, c)
    PROVE  /\ call'[p] = c /\ \A q \in Procs \ {p} : call'[q] = call[q]
           /\ Len(ledger) \in Nat /\ Len(ledger') \in Nat
           /\ \/ /\ Lines' = Lines /\ Len(ledger') = Len(ledger)
              \/ /\ Prepares(p, c)
                 /\ Lines' = Lines \cup {c.t} /\ Len(ledger') = Len(ledger) + 1
              \/ /\ Advances(p, c)
                 /\ Lines' = Lines \cup {Advanced(call[p])} /\ Len(ledger') = Len(ledger) + 1
<1>1. call'[p] = c /\ \A q \in Procs \ {p} : call'[q] = call[q]
      BY DEF Moves, TypeOK
<1>2. Len(ledger) \in Nat
      BY LinesTyped
<1>3. CASE Prepares(p, c)
      BY <1>1, <1>2, <1>3, LinesAppended DEF Prepares
<1>4. CASE Advances(p, c)
      BY <1>1, <1>2, <1>4, LinesAppended DEF Advances
<1>5. CASE ~Prepares(p, c) /\ ~Advances(p, c)
  <2>1. ledger' = ledger
        BY <1>5 DEF Moves, Departs, Asks, Plans, Continues, Resumes, Consumes, Records, Verifies
  <2> QED
      BY <1>1, <1>2, <2>1 DEF Lines
<1> QED
    BY <1>3, <1>4, <1>5

LEMMA AdvancedFields ==
    ASSUME TypeOK, NEW p \in Procs, call[p].at = "advance"
    PROVE  LET t == call[p].t
               x == Advanced(call[p])
           IN  /\ x.tid = t.tid /\ x.auth = t.auth /\ x.digest = t.digest
               /\ x.status = call[p].next /\ x.seq = t.seq + 1
               /\ t \in Recorded /\ t.seq \in Nat /\ t.digest \in Nat
               /\ call[p].next \in Statuses /\ Planned(call[p])
<1>1. call[p].t \in Recorded /\ CallOK(call[p]) /\ Inside(call[p])
      BY InsideTyped
<1> QED
    BY <1>1 DEF Advanced, Recorded, Transitions, CallOK, Planned

LEMMA ChainKept ==
    ASSUME TypeOK, TypeOK', ChainInv, NEW p \in Procs, NEW c, Moves(p, c),
           \A x \in Lines' : x \notin Lines =>
              /\ x.seq <= Len(ledger') /\ (x.status = "prepared" => x.seq = 0)
              /\ \/ \A y \in Lines : y.tid # x.tid
                 \/ \E y \in Lines : y.tid = x.tid /\ y.auth = x.auth,
           Planned(c) => /\ c.t.seq <= Len(ledger')
                         /\ \E x \in Lines' : x.tid = c.t.tid /\ x.auth = c.t.auth,
           c.at = "lock" /\ c.op = "execute" => c.t.seq = 0,
           c.at = "advance" => c.next # "prepared"
    PROVE  ChainInv'
<1>1. call'[p] = c /\ \A q \in Procs \ {p} : call'[q] = call[q]
      BY MovedLines
<1>2. /\ Lines \subseteq Lines' /\ Len(ledger) <= Len(ledger')
      /\ Len(ledger) \in Nat /\ Len(ledger') \in Nat
      /\ \A x, y \in Lines' : x \in Lines \/ y \in Lines \/ x = y
      BY MovedLines
<1>3. /\ \A x \in Lines : x.seq \in Nat
      /\ \A q \in Procs : call[q].t.seq \in Nat
      BY LinesTyped
<1>4. \A x \in Lines' : x.seq <= Len(ledger')
      BY <1>2, <1>3 DEF ChainInv, SeqBounded
<1>5. \A q \in Procs : Planned(call'[q]) => call'[q].t.seq <= Len(ledger')
      BY <1>1, <1>2, <1>3 DEF ChainInv, SeqBounded
<1>6. PreparedFirst'
      BY <1>1 DEF ChainInv, PreparedFirst
<1>7. \A x, y \in Lines' : x.tid = y.tid => x.auth = y.auth
      BY <1>2 DEF ChainInv, OneAuth
<1>8. \A q \in Procs : Planned(call'[q]) =>
          \E x \in Lines' : x.tid = call'[q].t.tid /\ x.auth = call'[q].t.auth
      BY <1>1, <1>2 DEF ChainInv, OneAuth
<1> QED
    BY <1>4, <1>5, <1>6, <1>7, <1>8 DEF ChainInv, SeqBounded, OneAuth, Planned, Inside

LEMMA NextChain ==
    ASSUME TypeOK, TypeOK', ChainInv, [Next]_vars
    PROVE  ChainInv'
<1>1. CASE UNCHANGED <<used, ledger, receipts, call>>
  <2>1. Lines' = Lines
        BY <1>1 DEF Lines
  <2> QED
      BY <1>1, <2>1 DEF ChainInv, SeqBounded, PreparedFirst, OneAuth, Planned, Inside
<1>2. ASSUME NEW p \in Procs, NEW c, Moves(p, c)
      PROVE  ChainInv'
  <2>0. /\ Len(ledger) \in Nat /\ \A x \in Lines : x.seq <= Len(ledger)
        /\ Planned(call[p]) => /\ call[p].t.seq <= Len(ledger)
                               /\ \E x \in Lines : x.tid = call[p].t.tid /\ x.auth = call[p].t.auth
        BY LinesTyped DEF ChainInv, SeqBounded, OneAuth
  <2>1. CASE Departs(p, c) \/ Asks(p, c)
    <3>1. ~Planned(c) /\ c.at # "advance" /\ (c.at = "lock" /\ c.op = "execute" => c.t.seq = 0)
          BY <2>1 DEF Departs, Asks, Planned, Inside, Idle
    <3>2. Lines' = Lines
          BY <2>1 DEF Departs, Asks, Lines
    <3> QED
        BY <1>2, <3>1, <3>2, ChainKept
  <2>2. CASE Plans(p, c) \/ Continues(p, c)
    <3>1. /\ c.t \in Lines /\ c.at # "advance" /\ ~(c.at = "lock" /\ c.op = "execute")
          BY <2>2 DEF Plans, Continues
    <3>2. Lines' = Lines /\ Len(ledger') = Len(ledger)
          BY <2>2 DEF Plans, Continues, Lines
    <3> QED
        BY <1>2, <2>0, <3>1, <3>2, ChainKept
  <2>3. CASE Prepares(p, c)
    <3>1. /\ call[p].at = "lock" /\ call[p].op = "execute" /\ c.at = "consume"
          /\ c.t.seq = call[p].t.seq /\ \A x \in Lines : x.tid # c.t.tid
          BY <2>3 DEF Prepares
    <3>2. c.t.seq = 0
          BY <3>1 DEF ChainInv, PreparedFirst
    <3>3. Lines' = Lines \cup {c.t} /\ Len(ledger') = Len(ledger) + 1
          BY <2>3, LinesAppended DEF Prepares
    <3>4. 0 <= Len(ledger')
          BY <2>0, <3>3
    <3> QED
        BY <1>2, <3>1, <3>2, <3>3, <3>4, ChainKept
  <2>4. CASE Resumes(p, c) \/ Consumes(p, c) \/ Records(p, c) \/ Verifies(p, c)
    <3>1. Planned(call[p]) /\ ~(c.at = "lock" /\ c.op = "execute")
          BY <2>4 DEF Resumes, Consumes, Records, Verifies, Planned, Inside, FirstStep
    <3>2. Lines' = Lines /\ Len(ledger') = Len(ledger)
          BY <2>4 DEF Resumes, Consumes, Records, Verifies, Lines
    <3>3. c.t.tid = call[p].t.tid /\ c.t.auth = call[p].t.auth /\ c.t.seq = call[p].t.seq
      <4>1. CASE Consumes(p, c)
        <5>1. call[p].t \in Recorded
              BY <4>1, InsideTyped DEF Consumes
        <5> QED
            BY <4>1, <5>1 DEF Consumes, Recorded, Transitions
      <4> QED
          BY <2>4, <4>1 DEF Resumes, Records, Verifies, SamePlan
    <3>4. c.at = "advance" => c.next # "prepared"
          BY <2>4 DEF Resumes, Consumes, Records, Verifies, Outcomes, FirstStep
    <3> QED
        BY <1>2, <2>0, <3>1, <3>2, <3>3, <3>4, ChainKept
  <2>5. CASE Advances(p, c)
    <3> DEFINE x == Advanced(call[p])
    <3>1. call[p].at = "advance" /\ call[p].next # "prepared"
          BY <2>5 DEF Advances, ChainInv, PreparedFirst
    <3>2. /\ x.tid = call[p].t.tid /\ x.auth = call[p].t.auth /\ x.status = call[p].next
          /\ x.seq = call[p].t.seq + 1 /\ call[p].t.seq \in Nat /\ Planned(call[p])
          BY <3>1, AdvancedFields
    <3>3. Lines' = Lines \cup {x} /\ Len(ledger') = Len(ledger) + 1
          BY <2>5, LinesAppended DEF Advances
    <3>4. x.seq <= Len(ledger')
          BY <2>0, <3>2, <3>3
    <3>5. ~Planned(c) \/ c.t = x
          BY <2>5 DEF Advances, Planned, Inside, Idle
    <3>6. c.at \notin {"lock", "advance"}
          BY <2>5 DEF Advances, NextStep, Idle
    <3> HIDE DEF x
    <3> QED
        BY <1>2, <2>0, <3>1, <3>2, <3>3, <3>4, <3>5, <3>6, ChainKept
  <2> QED
      BY <1>2, <2>1, <2>2, <2>3, <2>4, <2>5 DEF Moves
<1> QED
    BY <1>1, <1>2, NextMoves

(* No recovery was required in the chain. *)
Clean(tid) == \A x \in Lines : x.tid = tid => x.status # "recovery_required"

(* The last status of the plan, by where the call is. *)
StatusAt(c) ==
    /\ c.at = "receipt" => c.t.status = "authorization_consumed"
    /\ c.at = "manifest" => c.t.status = "projection_receipt_persisted"
    /\ c.at = "event" => c.t.status = "manifest_applied"
    /\ c.at = "complete" => \/ c.t.status = "disclosure_event_recorded"
                            \/ c.op = "recover" /\ c.from = "recovery_required"
    /\ c.at = "lock" /\ c.op = "recover" => c.t.status = c.from
    /\ c.at = "verify" =>
          c.t.status = IF c.from \in Consumed THEN c.from ELSE "authorization_consumed"
    /\ \/ c.at = "consume" /\ c.op = "recover"
       \/ c.at = "advance" /\ c.op = "recover" /\ c.next = "authorization_consumed"
       => c.from \notin Consumed

(* The call goes on with the use that it consumed, or that it has verified. *)
Spends(c) ==
    \/ c.at \in {"receipt", "manifest", "event", "complete"}
    \/ c.at = "advance" /\ c.next \in Consumed \cup {"completed", "recovery_required"}

Current(c) == c.t.digest = used[c.t.auth]

SpendInv ==
    \A p \in Procs :
       /\ StatusAt(call[p])
       /\ Spends(call[p]) => Current(call[p])
       /\ call[p].op = "recover" /\ call[p].from = "recovery_required"
             => ~Clean(call[p].t.tid)

(* Only the call inside the lock consumes, so that the use of no other call  *)
(* that spends one changes.                                                  *)
LEMMA OneInside ==
    ASSUME TypeOK, NEW p \in Procs, Inside(call[p]), NEW q \in Procs \ {p}
    PROVE  ~Inside(call[q])
BY DEF TypeOK

LEMMA SpendKept ==
    ASSUME TypeOK, SpendInv, NEW p \in Procs, NEW c, Moves(p, c),
           StatusAt(c), Spends(c) => c.t.digest = used'[c.t.auth],
           c.op = "recover" /\ c.from = "recovery_required" => ~Clean(c.t.tid)
    PROVE  SpendInv'
<1>1. call'[p] = c /\ \A q \in Procs \ {p} : call'[q] = call[q]
      BY MovedLines
<1>2. Lines \subseteq Lines'
      BY MovedLines
<1>3. \A q \in Procs : StatusAt(call'[q])
      BY <1>1 DEF SpendInv
<1>4. ASSUME NEW q \in Procs \ {p}, Spends(call[q])
      PROVE  call[q].t.digest = used'[call[q].t.auth]
  <2>1. Current(call[q]) /\ Inside(call[q])
        BY <1>4 DEF SpendInv, Spends, Inside
  <2>2. ~Consumes(p, c)
    <3>1. ~Inside(call[p])
          BY <2>1, OneInside
    <3> QED
        BY <3>1 DEF Consumes, Inside
  <2>3. used' = used
        BY <2>2 DEF Moves, Departs, Asks, Plans, Continues, Prepares, Resumes, Records,
                    Verifies, Advances
  <2> QED
      BY <2>1, <2>3 DEF Current
<1>5. \A q \in Procs : Spends(call'[q]) => call'[q].t.digest = used'[call'[q].t.auth]
      BY <1>1, <1>4
<1>6. \A q \in Procs : call'[q].op = "recover" /\ call'[q].from = "recovery_required"
         => \E x \in Lines' : x.tid = call'[q].t.tid /\ x.status = "recovery_required"
      BY <1>1, <1>2 DEF SpendInv, Clean
<1> QED
    BY <1>3, <1>5, <1>6 DEF SpendInv, StatusAt, Spends, Current, Clean

LEMMA NextSpend ==
    ASSUME TypeOK, UseInv, DiscloseInv, SpendInv, [Next]_vars
    PROVE  SpendInv'
<1>1. CASE UNCHANGED <<used, ledger, receipts, call>>
  <2>1. Lines' = Lines
        BY <1>1 DEF Lines
  <2> QED
      BY <1>1, <2>1 DEF SpendInv, StatusAt, Spends, Current, Clean
<1>2. ASSUME NEW p \in Procs, NEW c, Moves(p, c)
      PROVE  SpendInv'
  <2>0. /\ StatusAt(call[p]) /\ (Spends(call[p]) => Current(call[p]))
        /\ call[p].op = "recover" /\ call[p].from = "recovery_required"
              => ~Clean(call[p].t.tid)
        /\ call[p].op = "recover" => call[p].from \in Unfinished
        /\ call[p].at = "verify" => call[p].op = "recover" /\ call[p].t.digest # 0
        BY DEF SpendInv, DiscloseInv, CallsDisclosed, UseInv, CallsHold, HoldsUse
  <2>1. CASE Departs(p, c) \/ Asks(p, c) \/ Continues(p, c) \/ Prepares(p, c)
    <3>1. StatusAt(c) /\ ~Spends(c) /\ c.op # "recover"
          BY <2>1 DEF Departs, Asks, Continues, Prepares, StatusAt, Spends, Idle
    <3> QED
        BY <1>2, <3>1, SpendKept
  <2>2. CASE Plans(p, c)
    <3>1. StatusAt(c) /\ ~Spends(c)
          BY <2>2 DEF Plans, StatusAt, Spends
    <3>2. c.from = "recovery_required" => ~Clean(c.t.tid)
          BY <2>2 DEF Plans, Clean
    <3> QED
        BY <1>2, <3>1, <3>2, SpendKept
  <2>3. CASE Resumes(p, c)
    <3>1. StatusAt(c) /\ ~Spends(c)
          BY <2>0, <2>3 DEF Resumes, StatusAt, Spends
    <3>2. c.op = call[p].op /\ c.from = call[p].from /\ c.t = call[p].t
          BY <2>3 DEF Resumes
    <3> QED
        BY <1>2, <2>0, <3>1, <3>2, SpendKept
  <2>4. CASE Consumes(p, c)
    <3>1. call[p].t \in Recorded /\ call[p].t.auth \in Auths /\ used[call[p].t.auth] \in Nat
          BY <2>4, InsideTyped DEF Consumes
    <3>2. /\ c.t.tid = call[p].t.tid /\ c.t.auth = call[p].t.auth
          /\ c.t.digest = used[call[p].t.auth] + 1
          BY <2>4, <3>1 DEF Consumes, Recorded, Transitions
    <3>3. used'[c.t.auth] = c.t.digest
          BY <2>4, <3>1, <3>2 DEF Consumes, TypeOK
    <3>4. /\ c.op = call[p].op /\ c.from = call[p].from /\ c.at = "advance"
          /\ call[p].at = "consume" /\ c.next = "authorization_consumed"
          BY <2>4 DEF Consumes
    <3>5. StatusAt(c)
          BY <2>0, <3>4 DEF StatusAt
    <3> QED
        BY <1>2, <2>0, <3>2, <3>3, <3>4, <3>5, SpendKept
  <2>5. CASE Records(p, c)
    <3>1. /\ c.op = call[p].op /\ c.from = call[p].from /\ c.at = "advance"
          /\ c.next \in Outcomes(call[p].at) /\ used' = used
          /\ c.t.tid = call[p].t.tid /\ c.t.auth = call[p].t.auth
          /\ c.t.digest = call[p].t.digest
          BY <2>5 DEF Records, SamePlan
    <3>2. StatusAt(c)
          BY <3>1 DEF StatusAt, Outcomes
    <3>3. Spends(c) => Spends(call[p])
          BY <3>1 DEF Spends, Outcomes, Consumed
    <3> QED
        BY <1>2, <2>0, <3>1, <3>2, <3>3, SpendKept DEF Current
  <2>6. CASE Verifies(p, c)
    <3>1. /\ call[p].at = "verify" /\ call[p].t.digest \in {0, used[call[p].t.auth]}
          /\ c.t = call[p].t /\ c.at = FirstStep(c.from)
          /\ c.op = call[p].op /\ c.from = call[p].from /\ used' = used
          BY <2>6 DEF Verifies
    <3>2. c.from \in Unfinished /\ c.op = "recover"
          BY <2>0, <3>1
    <3>3. c.t.status = IF c.from \in Consumed THEN c.from ELSE "authorization_consumed"
          BY <2>0, <3>1 DEF StatusAt
    <3>4. StatusAt(c)
          BY <3>1, <3>2, <3>3 DEF StatusAt, FirstStep, Unfinished, Consumed
    <3> QED
        BY <1>2, <2>0, <3>1, <3>4, SpendKept
  <2>7. CASE Advances(p, c) /\ c = Idle
    <3>1. StatusAt(c) /\ ~Spends(c) /\ c.op # "recover"
          BY <2>7 DEF StatusAt, Spends, Idle
    <3> QED
        BY <1>2, <3>1, SpendKept
  <2>8. CASE Advances(p, c) /\ c # Idle
    <3>1. /\ call[p].at = "advance" /\ used' = used /\ c.t = Advanced(call[p])
          /\ c.at = NextStep(call[p].op, call[p].next) /\ c.at # "return"
          /\ c.op = call[p].op /\ c.from = call[p].from
          BY <2>8 DEF Advances
    <3>2. /\ c.t.tid = call[p].t.tid /\ c.t.auth = call[p].t.auth
          /\ c.t.digest = call[p].t.digest /\ c.t.status = call[p].next
          BY <3>1, AdvancedFields
    <3>3. StatusAt(c)
          BY <2>0, <3>1, <3>2 DEF StatusAt, NextStep
    <3>4. Spends(c) => Spends(call[p])
          BY <3>1 DEF Spends, NextStep, Consumed
    <3> QED
        BY <1>2, <2>0, <3>1, <3>2, <3>3, <3>4, SpendKept DEF Current
  <2> QED
      BY <1>2, <2>1, <2>2, <2>3, <2>4, <2>5, <2>6, <2>7, <2>8 DEF Moves
<1> QED
    BY <1>1, <1>2, NextMoves

(* The steps that a transition has taken since a use was consumed for it: in *)
(* the ledger, in the plans that calls have read, and what a call is about   *)
(* to record.  With one use they count down to one completion.               *)

Taken == Consumed \cup {"completed"}

Item(c) == IF c.at = "advance" /\ c.next \in Taken THEN Advanced(c) ELSE c.t

Steps == {x \in Lines \cup {Item(call[p]) : p \in Procs} : x.status \in Taken}

StepsLeft(status) ==
    CASE status = "authorization_consumed" -> 4
      [] status = "projection_receipt_persisted" -> 3
      [] status = "manifest_applied" -> 2
      [] status = "disclosure_event_recorded" -> 1
      [] OTHER -> 0

(* The sequence number of the completion that the step leads to. *)
Ends(x) == x.seq + StepsLeft(x.status)

SameEnd ==
    \A x, y \in Steps :
       Clean(x.tid) /\ x.tid = y.tid /\ x.digest = y.digest => Ends(x) = Ends(y)

ReceiptNames ==
    \A x \in Steps : Clean(x.tid) /\ x.status # "authorization_consumed"
       => receipts[x.tid] = x.digest /\ x.digest # 0

EndInv == SameEnd /\ ReceiptNames

LEMMA ItemFields ==
    ASSUME TypeOK, NEW p \in Procs
    PROVE  LET x == Item(call[p])
               t == call[p].t
           IN  /\ x.tid = t.tid /\ x.auth = t.auth /\ x.digest = t.digest
               /\ x.seq \in Nat /\ x.digest \in Nat
               /\ x.status \in Taken => t \in Recorded /\ Planned(call[p])
<1>1. call[p] \in Calls /\ CallOK(call[p]) /\ call[p].t.seq \in Nat /\ call[p].t.digest \in Nat
      BY LinesTyped DEF TypeOK
<1>2. CASE call[p].at = "advance"
      BY <1>1, <1>2, AdvancedFields DEF Item
<1>3. CASE call[p].at # "advance"
  <2>1. Item(call[p]) = call[p].t
        BY <1>3 DEF Item
  <2>2. call[p].t.status \in Taken => Planned(call[p])
    <3>1. "prepared" \notin Taken /\ "none" \notin Taken
          BY DEF Taken, Consumed
    <3>2. call[p].at = "idle" => call[p].t.status = "none"
          BY <1>1 DEF CallOK, Idle, NoTransition, DisclosureTransition
    <3> QED
        BY <1>1, <3>1, <3>2 DEF CallOK, Planned, Inside
  <2>3. Planned(call[p]) => call[p].t \in Recorded
        BY <1>1 DEF CallOK, Planned
  <2> QED
      BY <1>1, <2>1, <2>2, <2>3
<1> QED
    BY <1>2, <1>3

LEMMA StepFacts ==
    ASSUME TypeOK, ChainInv, NEW x \in Steps
    PROVE  /\ x.tid \in Tids /\ x.seq \in Nat /\ x.digest \in Nat /\ Ends(x) \in Nat
           /\ Key(x) \in Held
           /\ \E l \in Lines : l.tid = x.tid /\ l.auth = x.auth
<1>1. StepsLeft(x.status) \in Nat
      BY DEF StepsLeft
<1>2. \A y \in Recorded : y.tid \in Tids /\ y.seq \in Nat /\ y.digest \in Nat
      BY DEF Recorded, Transitions
<1>3. CASE x \in Lines
  <2>1. x \in Recorded /\ Key(x) \in Held
        BY <1>3, LinesTyped DEF Lines, Held
  <2> QED
      BY <1>1, <1>2, <1>3, <2>1 DEF Ends
<1>4. CASE x \notin Lines
  <2>1. PICK p \in Procs : x = Item(call[p])
        BY <1>4 DEF Steps
  <2>2. /\ x.tid = call[p].t.tid /\ x.auth = call[p].t.auth /\ x.digest = call[p].t.digest
        /\ x.seq \in Nat /\ x.digest \in Nat /\ call[p].t \in Recorded /\ Planned(call[p])
        BY <2>1, ItemFields DEF Steps
  <2>3. Key(x) = Key(call[p].t)
        BY <2>2 DEF Key
  <2>4. Key(x) \in Held
        BY <2>3 DEF Held
  <2> QED
      BY <1>1, <1>2, <2>2, <2>4 DEF Ends, ChainInv, OneAuth
<1> QED
    BY <1>3, <1>4

LEMMA MovedSteps ==
    ASSUME TypeOK, NEW p \in Procs, NEW c, Moves(p, c), NEW x \in Steps'
    PROVE  x \in Steps \/ (x.status \in Taken /\ (x = Item(c) \/ x \in Lines' \ Lines))
<1>1. call'[p] = c /\ \A q \in Procs \ {p} : call'[q] = call[q]
      BY MovedLines
<1>2. x.status \in Taken /\ (x \in Lines' \/ \E q \in Procs : x = Item(call'[q]))
      BY DEF Steps, Item, Advanced, Taken
<1> QED
    BY <1>1, <1>2 DEF Steps

LEMMA EndKept ==
    ASSUME TypeOK, ChainInv, EndInv, NEW p \in Procs, NEW c, Moves(p, c),
           \A tid \in Tids : receipts'[tid] = receipts[tid] \/ receipts[tid] = 0,
           \A x \in Steps' : x \notin Steps /\ Clean(x.tid) =>
              /\ \E y \in Steps : y.tid = x.tid /\ y.digest = x.digest /\ Ends(y) = Ends(x)
              /\ x.status # "authorization_consumed"
                    => receipts'[x.tid] = x.digest /\ x.digest # 0
    PROVE  EndInv'
<1>1. \A tid : (\A x \in Lines' : x.tid = tid => x.status # "recovery_required") => Clean(tid)
      BY MovedLines DEF Clean
<1>2. \A x, y \in Steps' : Clean(x.tid) /\ x.tid = y.tid /\ x.digest = y.digest
         => Ends(x) = Ends(y)
      BY DEF EndInv, SameEnd
<1>3. \A x \in Steps' : Clean(x.tid) /\ x.status # "authorization_consumed"
         => receipts'[x.tid] = x.digest /\ x.digest # 0
  <2> SUFFICES ASSUME NEW x \in Steps', Clean(x.tid), x.status # "authorization_consumed"
               PROVE  receipts'[x.tid] = x.digest /\ x.digest # 0
      OBVIOUS
  <2>1. CASE x \in Steps
        BY <2>1, StepFacts DEF EndInv, ReceiptNames
  <2>2. CASE x \notin Steps
        BY <2>2
  <2> QED
      BY <2>1, <2>2
<1>4. SameEnd'
      BY <1>1, <1>2 DEF SameEnd, Clean, Ends, StepsLeft
<1>5. ReceiptNames'
      BY <1>1, <1>3 DEF ReceiptNames, Clean
<1> QED
    BY <1>4, <1>5 DEF EndInv

LEMMA RecordsKeepEnd ==
    ASSUME TypeOK, TypeOK', UseInv, ChainInv, SpendInv, EndInv,
           NEW p \in Procs, NEW c, Moves(p, c), Records(p, c)
    PROVE  EndInv'
<1> DEFINE t == call[p].t
<1>0. /\ call[p].at # "advance" /\ Inside(call[p])
      /\ c.at = "advance" /\ c.next \in Outcomes(call[p].at)
      /\ c.t.tid = t.tid /\ c.t.auth = t.auth /\ c.t.seq = t.seq
      /\ c.t.status = t.status /\ c.t.digest = t.digest
      /\ c.op = call[p].op /\ c.from = call[p].from
      /\ used' = used /\ Lines' = Lines
      BY DEF Records, SamePlan, Lines
<1>1. /\ c \in Calls
      BY MovedLines DEF TypeOK
<1>2. t \in Recorded /\ t.tid \in Tids /\ t.seq \in Nat /\ t.digest \in Nat
      BY <1>0, InsideTyped DEF Inside, Recorded, Transitions
<1>3. \A tid \in Tids : receipts'[tid] = receipts[tid] \/ receipts[tid] = 0
      BY <1>2 DEF Records, TypeOK
<1>4. Item(call[p]) = t /\ (t.status \in Taken => t \in Steps)
      BY <1>0 DEF Item, Steps
<1>5. ASSUME NEW x \in Steps', x \notin Steps, Clean(x.tid)
      PROVE  /\ \E y \in Steps : y.tid = x.tid /\ y.digest = x.digest /\ Ends(y) = Ends(x)
             /\ x.status # "authorization_consumed"
                   => receipts'[x.tid] = x.digest /\ x.digest # 0
  <2>1. x = Item(c) /\ x.status \in Taken
        BY <1>0, <1>5, MovedSteps
  <2>2. CASE c.next \notin Taken
    <3>1. x = c.t
          BY <1>0, <2>1, <2>2 DEF Item
    <3>2. t \in Steps /\ Ends(t) = Ends(x)
          BY <1>0, <1>4, <2>1, <3>1 DEF Ends
    <3>3. x.status # "authorization_consumed" => receipts[x.tid] = x.digest /\ x.digest # 0
          BY <1>0, <1>5, <3>1, <3>2 DEF EndInv, ReceiptNames
    <3> QED
        BY <1>0, <1>2, <1>3, <3>1, <3>2, <3>3
  <2>3. CASE c.next \in Taken
    <3>1. x = Advanced(c)
          BY <1>0, <2>1, <2>3 DEF Item
    <3>2. /\ x.tid = t.tid /\ x.digest = t.digest /\ x.status = c.next /\ x.seq = t.seq + 1
      <4>1. /\ Advanced(c).tid = c.t.tid /\ Advanced(c).digest = c.t.digest
            /\ Advanced(c).status = c.next /\ Advanced(c).seq = c.t.seq + 1
            BY <1>1 DEF Advanced, Calls, Transitions
      <4> QED
          BY <1>0, <3>1, <4>1
    <3>3. StatusAt(call[p]) /\ (Spends(call[p]) => Current(call[p]))
          BY DEF SpendInv
    <3>4. ~(call[p].op = "recover" /\ call[p].from = "recovery_required")
          BY <1>5, <3>2 DEF SpendInv
    <3>5. \/ /\ call[p].at = "receipt" /\ t.status = "authorization_consumed"
             /\ c.next = "projection_receipt_persisted"
          \/ /\ call[p].at = "manifest" /\ t.status = "projection_receipt_persisted"
             /\ c.next = "manifest_applied"
          \/ /\ call[p].at = "event" /\ t.status = "manifest_applied"
             /\ c.next = "disclosure_event_recorded"
          \/ /\ call[p].at = "complete" /\ t.status = "disclosure_event_recorded"
             /\ c.next = "completed"
          BY <1>0, <2>3, <3>3, <3>4 DEF StatusAt, Outcomes, Taken, Consumed
    <3>6. t \in Steps
          BY <1>4, <3>5 DEF Taken, Consumed
    <3>7. Ends(t) = Ends(x)
          BY <1>2, <3>2, <3>5 DEF Ends, StepsLeft
    <3>8. receipts'[x.tid] = x.digest /\ x.digest # 0
      <4>1. CASE call[p].at = "receipt"
        <5>1. receipts'[t.tid] = used[t.auth]
              BY <3>5, <4>1 DEF Records
        <5>2. t.digest = used[t.auth] /\ t.digest # 0
              BY <3>3, <4>1 DEF Spends, Current, UseInv, CallsHold, HoldsUse
        <5> QED
            BY <3>2, <5>1, <5>2
      <4>2. CASE call[p].at # "receipt"
        <5>1. receipts[t.tid] = t.digest /\ t.digest # 0
              BY <1>5, <3>2, <3>5, <3>6, <4>2 DEF EndInv, ReceiptNames
        <5> QED
            BY <1>2, <1>3, <3>2, <5>1
      <4> QED
          BY <4>1, <4>2
    <3> QED
        BY <3>2, <3>6, <3>7, <3>8
  <2> QED
      BY <2>2, <2>3
<1> HIDE DEF t
<1> QED
    BY <1>3, <1>5, EndKept

(* A consumption begins with a use that no step has. *)
LEMMA NewUse ==
    ASSUME TypeOK, UseInv, ChainInv, NEW p \in Procs, Inside(call[p]),
           NEW y \in Steps, y.tid = call[p].t.tid
    PROVE  y.digest # used[call[p].t.auth] + 1
<1> DEFINE t == call[p].t
<1>1. t.auth \in Auths /\ used[t.auth] \in Nat /\ Planned(call[p])
      BY InsideTyped DEF Planned, Inside
<1>2. Key(y) \in Held /\ y.digest \in Nat /\ \E l \in Lines : l.tid = y.tid /\ l.auth = y.auth
      BY StepFacts
<1>3. \E l \in Lines : l.tid = t.tid /\ l.auth = t.auth
      BY <1>1 DEF ChainInv, OneAuth
<1>4. y.auth = t.auth
      BY <1>2, <1>3 DEF ChainInv, OneAuth
<1>5. y.digest # 0 => y.digest <= used[t.auth]
      BY <1>2, <1>4 DEF UseInv, HeldWasConsumed, Key
<1> QED
    BY <1>1, <1>2, <1>5

LEMMA ConsumesKeepEnd ==
    ASSUME TypeOK, TypeOK', UseInv, ChainInv, EndInv,
           NEW p \in Procs, NEW c, Moves(p, c), Consumes(p, c)
    PROVE  EndInv'
<1> DEFINE t == call[p].t
           e == Advanced(c)
<1>0. /\ call[p].at = "consume" /\ c.at = "advance" /\ c.next = "authorization_consumed"
      /\ c.t = [t EXCEPT !.digest = used[t.auth] + 1]
      /\ receipts' = receipts /\ Lines' = Lines
      BY DEF Consumes, Lines
<1>1. t \in Recorded /\ t.auth \in Auths /\ used[t.auth] \in Nat /\ Planned(call[p])
      BY <1>0, InsideTyped DEF Planned
<1>2. /\ e.tid = t.tid /\ e.digest = used[t.auth] + 1 /\ e.status = "authorization_consumed"
      BY <1>0, <1>1 DEF Advanced, Recorded, Transitions
<1>3. \A x \in Steps' : x \in Steps \/ x = e
      BY <1>0, MovedSteps DEF Item, Taken, Consumed
<1>4. ASSUME NEW y \in Steps, y.tid = t.tid
      PROVE  y.digest # e.digest
      BY <1>0, <1>2, <1>4, NewUse DEF Inside
<1> HIDE DEF t, e
<1>5. \A x, y \in Steps' : Clean(x.tid) /\ x.tid = y.tid /\ x.digest = y.digest
         => Ends(x) = Ends(y)
      BY <1>2, <1>3, <1>4 DEF EndInv, SameEnd
<1>6. \A x \in Steps' : Clean(x.tid) /\ x.status # "authorization_consumed"
         => receipts'[x.tid] = x.digest /\ x.digest # 0
      BY <1>0, <1>2, <1>3 DEF EndInv, ReceiptNames
<1>7. SameEnd'
      BY <1>0, <1>5 DEF SameEnd, Clean, Ends, StepsLeft
<1>8. ReceiptNames'
      BY <1>0, <1>6 DEF ReceiptNames, Clean
<1> QED
    BY <1>7, <1>8 DEF EndInv

LEMMA NextEnd ==
    ASSUME TypeOK, TypeOK', UseInv, ChainInv, SpendInv, EndInv, [Next]_vars
    PROVE  EndInv'
<1>1. CASE UNCHANGED <<used, ledger, receipts, call>>
  <2>1. Lines' = Lines
        BY <1>1 DEF Lines
  <2>2. Steps' = Steps
        BY <1>1, <2>1 DEF Steps, Item, Advanced, Taken
  <2> QED
      BY <1>1, <2>1, <2>2 DEF EndInv, SameEnd, ReceiptNames, Clean, Ends, StepsLeft
<1>2. ASSUME NEW p \in Procs, NEW c, Moves(p, c)
      PROVE  EndInv'
  <2>0. "prepared" \notin Taken /\ "none" \notin Taken
        BY DEF Taken, Consumed
  <2>1. ASSUME receipts' = receipts, \A x \in Steps' : x \in Steps
        PROVE  EndInv'
        BY <1>2, <2>1, EndKept
  <2>2. CASE Departs(p, c) \/ Asks(p, c) \/ Prepares(p, c)
    <3>1. receipts' = receipts /\ Item(c).status \notin Taken
          BY <2>0, <2>2 DEF Departs, Asks, Prepares, Item, Idle, NoTransition, DisclosureTransition
    <3>2. Lines' = Lines \/ (Lines' = Lines \cup {c.t} /\ c.t.status = "prepared")
          BY <2>2, LinesAppended DEF Departs, Asks, Prepares, Lines
    <3> QED
        BY <1>2, <2>0, <2>1, <3>1, <3>2, MovedSteps
  <2>3. CASE Plans(p, c) \/ Continues(p, c)
    <3>1. receipts' = receipts /\ Item(c) \in Lines /\ Lines' = Lines
          BY <2>3 DEF Plans, Continues, Item, Lines
    <3>2. Item(c).status \in Taken => Item(c) \in Steps
          BY <3>1 DEF Steps
    <3> QED
        BY <1>2, <2>1, <3>1, <3>2, MovedSteps
  <2>4. CASE Resumes(p, c) \/ Verifies(p, c)
    <3>1. receipts' = receipts /\ Lines' = Lines
          BY <2>4 DEF Resumes, Verifies, Lines
    <3>2. c.t = call[p].t /\ c.at # "advance" /\ call[p].at # "advance"
          BY <2>4 DEF Resumes, Verifies, FirstStep
    <3>3. Item(c) = Item(call[p])
          BY <3>2 DEF Item
    <3>4. Item(c).status \in Taken => Item(c) \in Steps
          BY <3>3 DEF Steps
    <3> QED
        BY <1>2, <2>1, <3>1, <3>4, MovedSteps
  <2>5. CASE Advances(p, c)
    <3> DEFINE e == Advanced(call[p])
    <3>1. receipts' = receipts /\ Lines' = Lines \cup {e} /\ call[p].at = "advance"
          BY <2>5, LinesAppended DEF Advances
    <3>2. e.status = call[p].next
          BY <3>1, AdvancedFields
    <3>3. e.status \in Taken => e \in Steps
          BY <3>1, <3>2 DEF Steps, Item
    <3>4. Item(c) = e \/ Item(c).status \notin Taken
          BY <2>0, <2>5 DEF Advances, Item, NextStep, Idle, NoTransition, DisclosureTransition
    <3> HIDE DEF e
    <3> QED
        BY <1>2, <2>1, <3>1, <3>3, <3>4, MovedSteps
  <2> QED
      BY <1>2, <2>2, <2>3, <2>4, <2>5, RecordsKeepEnd, ConsumesKeepEnd DEF Moves
<1> QED
    BY <1>1, <1>2, NextMoves

(* While the use that a waiting recovery read is the last one consumed, the  *)
(* lines of other uses are numbered below the plan, unless they end a chain. *)
PlanIsTop ==
    \A p \in Procs : \A x \in Lines :
       /\ call[p].at = "lock" /\ call[p].op = "recover" /\ call[p].from \in Consumed
       /\ Current(call[p]) /\ ~is_terminal(x)
       /\ x.auth = call[p].t.auth /\ x.digest # call[p].t.digest
       => x.seq <= call[p].t.seq

(* A call that spends a use spends it for a transition not yet completed. *)
NotYetCompleted ==
    \A p \in Procs : \A x \in Lines :
       /\ Spends(call[p]) \/ (call[p].at = "verify" /\ Current(call[p]))
       /\ Clean(call[p].t.tid) /\ x.tid = call[p].t.tid /\ x.status = "completed"
       => x.digest # call[p].t.digest

Once ==
    \A i, j \in DOMAIN ledger :
       /\ Clean(ledger[i].tid) /\ ledger[i].tid = ledger[j].tid
       /\ ledger[i].status = "completed" /\ ledger[j].status = "completed"
       => i = j

OnceInv == PlanIsTop /\ NotYetCompleted /\ Once

(* A recovery that gets the lock with a plan whose use is the last one       *)
(* consumed has not been overtaken: if the transition had been completed     *)
(* with that use, the last event would be a terminal one beyond the plan.    *)
LEMMA ResumeInTime ==
    ASSUME TypeOK, UseInv, ChainInv, SpendInv, EndInv, OnceInv,
           NEW p \in Procs, NEW c, Resumes(p, c), c.at = "verify",
           c.t.digest = used[c.t.auth], Clean(c.t.tid),
           NEW x \in Lines, x.tid = c.t.tid, x.status = "completed", x.digest = c.t.digest
    PROVE  FALSE
<1> DEFINE t == call[p].t
           last == _last_event_for_auth(t.auth)
<1>0. /\ call[p].at = "lock" /\ call[p].op = "recover" /\ c.t = t /\ c.from = call[p].from
      /\ ~(last.seq > t.seq /\ is_terminal(last)) /\ call[p].from \in Consumed
      /\ Current(call[p])
      BY DEF Resumes, Current
<1>1. /\ t.status = call[p].from /\ Planned(call[p]) /\ t.digest # 0
      /\ t.seq \in Nat
      BY <1>0, LinesTyped DEF SpendInv, StatusAt, Planned, UseInv, CallsHold, HoldsUse
<1>2. t \in Steps /\ x \in Steps
      BY <1>0, <1>1 DEF Steps, Item, Taken
<1>3. Ends(x) = Ends(t)
      BY <1>0, <1>2 DEF EndInv, SameEnd
<1>4. x.seq \in Nat /\ Ends(x) = x.seq /\ Ends(t) > t.seq
  <2>1. StepsLeft(t.status) \in Nat /\ StepsLeft(t.status) > 0
        BY <1>0, <1>1 DEF StepsLeft, Consumed
  <2>2. StepsLeft(x.status) = 0 /\ x.seq \in Nat
        BY LinesTyped DEF StepsLeft
  <2> QED
      BY <1>1, <2>1, <2>2 DEF Ends
<1>5. x.auth = t.auth
      BY <1>0, <1>1 DEF ChainInv, OneAuth
<1>6. last \in Lines /\ last.auth = t.auth /\ x.seq <= last.seq
      BY <1>5, LastIsTop DEF ChainInv, SeqBounded
<1>7. last \in Recorded /\ last.seq \in Nat
      BY <1>6, LinesTyped
<1> HIDE DEF last, t
<1>8. last.seq > t.seq /\ ~is_terminal(last)
      BY <1>0, <1>1, <1>3, <1>4, <1>6, <1>7
<1>9. last.digest = t.digest
  <2>1. last.digest # t.digest => last.seq <= t.seq
        BY <1>0, <1>6, <1>8 DEF OnceInv, PlanIsTop, t
  <2> QED
      BY <1>1, <1>7, <1>8, <2>1
<1>10. last.tid = t.tid
  <2>1. Key(last) \in Held /\ Key(t) \in Held
        BY <1>6 DEF Lines, Held, t
  <2> QED
      BY <1>1, <1>6, <1>9, <2>1 DEF UseInv, HeldByOne, Key
<1>11. last.status \in Consumed
  <2>1. last.status # "prepared"
        BY <1>1, <1>6, <1>7, <1>8 DEF ChainInv, PreparedFirst
  <2>2. last.status # "recovery_required"
        BY <1>0, <1>6, <1>10 DEF Clean
  <2> QED
      BY <1>7, <1>8, <2>1, <2>2 DEF is_terminal, Recorded, Transitions, Statuses
<1>12. Ends(last) = Ends(x)
  <2>1. last \in Steps
        BY <1>6, <1>11 DEF Steps, Taken
  <2> QED
      BY <1>0, <1>2, <1>9, <1>10, <2>1 DEF EndInv, SameEnd
<1>13. Ends(last) > last.seq
  <2>1. StepsLeft(last.status) \in Nat /\ StepsLeft(last.status) > 0
        BY <1>11 DEF StepsLeft, Consumed
  <2> QED
      BY <1>7, <2>1 DEF Ends
<1> QED
    BY <1>4, <1>6, <1>7, <1>12, <1>13

LEMMA NextTop ==
    ASSUME TypeOK, UseInv, ChainInv, SpendInv, OnceInv, NEW p \in Procs, NEW c, Moves(p, c)
    PROVE  PlanIsTop'
<1>1. call'[p] = c /\ \A q \in Procs \ {p} : call'[q] = call[q]
      BY MovedLines
<1> SUFFICES ASSUME NEW q \in Procs, NEW x \in Lines',
                    call'[q].at = "lock", call'[q].op = "recover", call'[q].from \in Consumed,
                    call'[q].t.digest = used'[call'[q].t.auth], ~is_terminal(x),
                    x.auth = call'[q].t.auth, x.digest # call'[q].t.digest
             PROVE  x.seq <= call'[q].t.seq
    BY DEF PlanIsTop, Current, is_terminal, TERMINAL_STATUSES, Consumed
<1>2. CASE q = p
  <2>1. Plans(p, c)
        BY <1>1, <1>2 DEF Moves, Departs, Asks, Plans, Continues, Prepares, Resumes, Consumes,
                          Records, Verifies, Advances, Idle, FirstStep, NextStep
  <2>2. x \in Lines /\ c.t \in Lines /\ c.t = _last_event_for_auth(c.t.auth)
        BY <2>1 DEF Plans, Lines
  <2> QED
      BY <1>1, <1>2, <2>2, LastIsTop DEF ChainInv, SeqBounded
<1>3. CASE q # p
  <2> DEFINE t == call[q].t
  <2>0. call'[q] = call[q]
        BY <1>1, <1>3
  <2>1. t.seq \in Nat /\ t \in Recorded /\ t.auth \in Auths /\ t.digest # 0 /\ t.digest \in Nat
    <3>1. CallOK(call[q])
          BY DEF TypeOK
    <3>2. t \in Recorded /\ t.digest # 0
          BY <2>0, <3>1 DEF CallOK, UseInv, CallsHold, HoldsUse
    <3> QED
        BY <3>2 DEF Recorded, Transitions
  <2>2. Current(call[q])
    <3>1. CASE Consumes(p, c)
      <4>1. call[p].t.auth \in Auths /\ used[call[p].t.auth] \in Nat
            BY <3>1, InsideTyped DEF Consumes
      <4>2. used' = [used EXCEPT ![call[p].t.auth] = @ + 1]
            BY <3>1 DEF Consumes
      <4>3. t.auth # call[p].t.auth
        <5> SUFFICES ASSUME t.auth = call[p].t.auth PROVE FALSE
            OBVIOUS
        <5>1. used'[t.auth] = used[t.auth] + 1
              BY <4>1, <4>2 DEF TypeOK
        <5>2. Key(t) \in Held
              BY DEF Held
        <5>3. t.digest <= used[t.auth]
              BY <2>1, <5>2 DEF UseInv, HeldWasConsumed, Key
        <5> QED
            BY <2>0, <2>1, <4>1, <5>1, <5>3
      <4>4. used'[t.auth] = used[t.auth]
            BY <2>1, <4>2, <4>3 DEF TypeOK
      <4> QED
          BY <2>0, <4>4 DEF Current
    <3>2. CASE ~Consumes(p, c)
      <4>1. used' = used
            BY <3>2 DEF Moves, Departs, Asks, Plans, Continues, Prepares, Resumes, Records,
                        Verifies, Advances
      <4> QED
          BY <2>0, <4>1 DEF Current
    <3> QED
        BY <3>1, <3>2
  <2>3. CASE x \in Lines
        BY <2>0, <2>2, <2>3 DEF OnceInv, PlanIsTop
  <2>4. CASE x \notin Lines /\ Prepares(p, c)
    <3>1. x = c.t
          BY <2>4, LinesAppended DEF Prepares
    <3>2. x.seq = 0
          BY <2>4, <3>1 DEF Prepares, ChainInv, PreparedFirst
    <3> QED
        BY <2>0, <2>1, <3>2
  <2>5. CASE x \notin Lines /\ Advances(p, c)
    <3>1. x = Advanced(call[p]) /\ call[p].at = "advance"
          BY <2>5, LinesAppended DEF Advances
    <3>2. /\ x.auth = call[p].t.auth /\ x.digest = call[p].t.digest
          /\ x.status = call[p].next /\ call[p].next \in Statuses
          BY <3>1, AdvancedFields
    <3>3. call[p].next # "prepared"
          BY <3>1 DEF ChainInv, PreparedFirst
    <3>4. Spends(call[p])
          BY <3>1, <3>2, <3>3 DEF Spends, is_terminal, Statuses
    <3>5. x.digest = used[x.auth]
          BY <3>2, <3>4 DEF SpendInv, Current
    <3> QED
        BY <2>0, <2>2, <3>5 DEF Current
  <2> QED
      BY <2>3, <2>4, <2>5, MovedLines
<1> QED
    BY <1>2, <1>3

LEMMA NextNotYet ==
    ASSUME TypeOK, UseInv, ChainInv, SpendInv, EndInv, OnceInv,
           NEW p \in Procs, NEW c, Moves(p, c)
    PROVE  NotYetCompleted'
<1>0. /\ call'[p] = c /\ \A q \in Procs \ {p} : call'[q] = call[q]
      /\ Lines \subseteq Lines'
      BY MovedLines
<1> SUFFICES ASSUME NEW q \in Procs, NEW x \in Lines',
                    \/ Spends(call'[q])
                    \/ call'[q].at = "verify" /\ call'[q].t.digest = used'[call'[q].t.auth],
                    \A y \in Lines' : y.tid = call'[q].t.tid => y.status # "recovery_required",
                    x.tid = call'[q].t.tid, x.status = "completed"
             PROVE  x.digest # call'[q].t.digest
    BY DEF NotYetCompleted, Spends, Current, Clean
<1>1. Clean(call'[q].t.tid)
      BY <1>0 DEF Clean
<1>2. Inside(call'[q])
      BY DEF Spends, Inside
<1>3. \A s \in Procs \ {p} : Inside(call[s]) => ~Inside(call[p])
      BY OneInside
<1>4. x \in Lines
  <2> SUFFICES ASSUME x \notin Lines PROVE FALSE
      OBVIOUS
  <2>1. CASE Prepares(p, c) /\ x = c.t
        BY <2>1 DEF Prepares
  <2>2. CASE Advances(p, c) /\ x = Advanced(call[p])
    <3>1. call[p].at = "advance" /\ call[p].next = "completed" /\ Inside(call[p])
          BY <2>2, AdvancedFields DEF Advances, Inside
    <3>2. c = Idle
          BY <2>2, <3>1 DEF Advances, NextStep
    <3>3. q # p
          BY <1>0, <1>2, <3>2 DEF Idle, Inside
    <3> QED
        BY <1>0, <1>2, <1>3, <3>1, <3>3
  <2> QED
      BY <2>1, <2>2, MovedLines
<1>5. \A s \in Procs : /\ Spends(call[s]) \/ (call[s].at = "verify" /\ Current(call[s]))
                       /\ call[s].t.tid = call'[q].t.tid
                       => x.digest # call[s].t.digest
      BY <1>1, <1>4 DEF OnceInv, NotYetCompleted
<1>6. CASE q # p
  <2>1. call'[q] = call[q] /\ ~Inside(call[p])
        BY <1>0, <1>2, <1>3, <1>6
  <2>2. used' = used
        BY <2>1 DEF Moves, Departs, Asks, Plans, Continues, Prepares, Resumes, Consumes,
                    Records, Verifies, Advances, Inside
  <2> QED
      BY <1>5, <2>1, <2>2 DEF Current
<1>7. CASE q = p
  <2> DEFINE t == call[p].t
  <2>0. call'[q] = c /\ Inside(c) /\ (Spends(c) \/ (c.at = "verify" /\ c.t.digest = used'[c.t.auth]))
        BY <1>0, <1>2, <1>7
  <2>1. CASE Departs(p, c) \/ Asks(p, c) \/ Plans(p, c) \/ Continues(p, c) \/ Prepares(p, c)
        BY <2>0, <2>1 DEF Departs, Asks, Plans, Continues, Prepares, Spends, Idle
  <2>2. CASE Resumes(p, c)
    <3>1. c.at = "verify" /\ c.t.digest = used[c.t.auth]
          BY <2>0, <2>2 DEF Resumes, Spends
    <3> QED
        BY <1>1, <1>4, <2>0, <2>2, <3>1, ResumeInTime
  <2>3. CASE Consumes(p, c)
    <3>1. Inside(call[p]) /\ t \in Recorded
          BY <2>3, InsideTyped DEF Consumes
    <3>2. c.t.tid = t.tid /\ c.t.digest = used[t.auth] + 1
          BY <2>3, <3>1 DEF Consumes, Recorded, Transitions
    <3>3. x \in Steps
          BY <1>4 DEF Steps, Taken
    <3> QED
        BY <2>0, <3>1, <3>2, <3>3, NewUse
  <2>4. CASE Records(p, c)
    <3>1. /\ c.at = "advance" /\ c.next \in Outcomes(call[p].at)
          /\ c.t.tid = t.tid /\ c.t.digest = t.digest
          BY <2>4 DEF Records, SamePlan
    <3>2. Spends(call[p])
          BY <2>0, <3>1 DEF Spends, Outcomes, Consumed
    <3> QED
        BY <1>5, <2>0, <3>1, <3>2
  <2>5. CASE Verifies(p, c)
    <3>1. call[p].at = "verify" /\ t.digest \in {0, used[t.auth]} /\ c.t = t
          BY <2>5 DEF Verifies
    <3>2. Current(call[p])
          BY <3>1 DEF Current, UseInv, CallsHold, HoldsUse
    <3> QED
        BY <1>5, <2>0, <3>1, <3>2
  <2>6. CASE Advances(p, c)
    <3>1. /\ call[p].at = "advance" /\ c.at = NextStep(call[p].op, call[p].next)
          /\ c.at # "return" /\ c.t = Advanced(call[p])
          BY <2>0, <2>6 DEF Advances, Idle, Inside
    <3>2. c.t.tid = t.tid /\ c.t.digest = t.digest
          BY <3>1, AdvancedFields
    <3>3. Spends(call[p])
          BY <3>1 DEF Spends, NextStep, Consumed
    <3> QED
        BY <1>5, <2>0, <3>2, <3>3
  <2> QED
      BY <2>1, <2>2, <2>3, <2>4, <2>5, <2>6 DEF Moves
<1> QED
    BY <1>6, <1>7

LEMMA NextOnce ==
    ASSUME TypeOK, UseInv, ChainInv, SpendInv, EndInv, OnceInv,
           NEW p \in Procs, NEW c, Moves(p, c)
    PROVE  Once'
<1> DEFINE e == Advanced(call[p])
<1>0. Lines \subseteq Lines'
      BY MovedLines
<1>1. CASE ledger' = ledger
      BY <1>1 DEF OnceInv, Once, Clean, Lines
<1>2. ASSUME NEW l, ledger' = Append(ledger, l),
             l.status = "completed" /\ Clean(l.tid) =>
                \A x \in Lines : x.status = "completed" => x.tid # l.tid
      PROVE  Once'
  <2> SUFFICES ASSUME NEW i \in DOMAIN ledger', NEW j \in DOMAIN ledger',
                      \A y \in Lines' : y.tid = ledger'[i].tid => y.status # "recovery_required",
                      ledger'[i].tid = ledger'[j].tid,
                      ledger'[i].status = "completed", ledger'[j].status = "completed"
               PROVE  i = j
      BY DEF Once, Clean
  <2>1. ledger \in Seq(Recorded)
        BY DEF TypeOK
  <2>2. \A k \in DOMAIN ledger' : \/ k \in DOMAIN ledger /\ ledger'[k] = ledger[k]
                                  \/ k = Len(ledger) + 1 /\ ledger'[k] = l
        BY <1>2, <2>1, AppendedAt
  <2>3. Clean(ledger'[i].tid) /\ \A k \in DOMAIN ledger : ledger[k] \in Lines
        BY <1>0 DEF Lines, Clean
  <2>4. CASE /\ i \in DOMAIN ledger /\ ledger'[i] = ledger[i]
             /\ j \in DOMAIN ledger /\ ledger'[j] = ledger[j]
        BY <2>3, <2>4 DEF OnceInv, Once
  <2> QED
      BY <1>2, <2>2, <2>3, <2>4
<1>3. CASE Prepares(p, c)
      BY <1>2, <1>3 DEF Prepares
<1>4. CASE Advances(p, c)
  <2>0. call[p].at = "advance" /\ ledger' = Append(ledger, e)
        BY <1>4 DEF Advances
  <2>1. e.tid = call[p].t.tid /\ e.digest = call[p].t.digest /\ e.status = call[p].next
        BY <2>0, AdvancedFields
  <2>2. ASSUME NEW x \in Lines, e.status = "completed", x.status = "completed", Clean(e.tid),
               x.tid = e.tid
        PROVE  FALSE
    <3>1. Spends(call[p])
          BY <2>0, <2>1, <2>2 DEF Spends
    <3>2. x \in Steps /\ e \in Steps
          BY <2>0, <2>1, <2>2 DEF Steps, Item, Taken
    <3>3. x.digest = e.digest
          BY <2>2, <3>2 DEF EndInv, ReceiptNames
    <3> QED
        BY <2>1, <2>2, <3>1, <3>3 DEF OnceInv, NotYetCompleted
  <2> HIDE DEF e
  <2> QED
      BY <1>2, <2>0, <2>2
<1>5. CASE ~Prepares(p, c) /\ ~Advances(p, c)
      BY <1>1, <1>5 DEF Moves, Departs, Asks, Plans, Continues, Resumes, Consumes, Records, Verifies
<1> QED
    BY <1>3, <1>4, <1>5

(* A transition is recorded as completed at most once, unless its chain had  *)
(* recorded RECOVERY_REQUIRED: however many executions and recoveries read   *)
(* the same unfinished plan before one of them completed it.                 *)
THEOREM CompletedAtMostOnce == Spec => []CompletedOnce
<1> DEFINE Inv == ChainInv /\ SpendInv /\ EndInv /\ OnceInv
<1>1. Init => Inv
  <2> SUFFICES ASSUME Init PROVE Inv
      OBVIOUS
  <2>1. Lines = {} /\ DOMAIN ledger = {} /\ \A p \in Procs : call[p] = Idle
        BY DEF Init, Lines
  <2>2. ChainInv
        BY <2>1 DEF ChainInv, SeqBounded, PreparedFirst, OneAuth, Planned, Inside, Idle
  <2>3. SpendInv
        BY <2>1 DEF SpendInv, StatusAt, Spends, Idle
  <2>4. Steps = {}
        BY <2>1 DEF Steps, Item, Taken, Consumed, Idle, NoTransition, DisclosureTransition
  <2>5. EndInv
        BY <2>4 DEF EndInv, SameEnd, ReceiptNames
  <2>6. OnceInv
        BY <2>1 DEF OnceInv, PlanIsTop, NotYetCompleted, Once
  <2> QED
      BY <2>2, <2>3, <2>5, <2>6
<1>2. TypeOK /\ TypeOK' /\ UseInv /\ DiscloseInv /\ Inv /\ [Next]_vars => Inv'
  <2> SUFFICES ASSUME TypeOK, TypeOK', UseInv, DiscloseInv, Inv, [Next]_vars PROVE Inv'
      OBVIOUS
  <2>1. CASE UNCHANGED <<used, ledger, receipts, call>>
    <3>1. Lines' = Lines
          BY <2>1 DEF Lines
    <3>2. PlanIsTop' /\ NotYetCompleted'
          BY <2>1, <3>1 DEF OnceInv, PlanIsTop, NotYetCompleted, Spends, Current, Clean,
                            is_terminal, TERMINAL_STATUSES
    <3>3. Once'
          BY <2>1, <3>1 DEF OnceInv, Once, Clean
    <3> QED
        BY <3>2, <3>3, NextChain, NextSpend, NextEnd DEF OnceInv
  <2>2. ASSUME NEW p \in Procs, NEW c, Moves(p, c) PROVE Inv'
        BY <2>2, NextChain, NextSpend, NextEnd, NextTop, NextNotYet, NextOnce DEF OnceInv
  <2> QED
      BY <2>1, <2>2, NextMoves
<1>3. Inv => CompletedOnce
  <2> SUFFICES ASSUME Once, NEW tid \in Tids, ~Reached(tid, "recovery_required"),
                      NEW i \in Chain(tid), NEW j \in Chain(tid),
                      ledger[i].status = "completed", ledger[j].status = "completed"
               PROVE  i = j
      BY DEF OnceInv, CompletedOnce
  <2>1. Clean(tid)
        BY DEF Clean, Lines, Reached, Chain
  <2> QED
      BY <2>1 DEF Once, Chain
<1> HIDE DEF Inv
<1> QED
    BY <1>1, <1>2, <1>3, TypeCorrect, UsesKept, DisclosuresKept, PTL DEF Spec

=============================================================================

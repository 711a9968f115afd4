------------------------- MODULE FleetClaimsProofs --------------------------
(***************************************************************************)
(* Proofs about FleetClaims, for any processes, claims, paths and bounds.  *)
(***************************************************************************)
EXTENDS FleetClaims, SequenceTheorems, TLAPS

Entry == EventType \cup {Garbled}

(* Every prefix of the ledger has a largest sequence number, which is what   *)
(* makes _next_sequence well defined whichever line a torn append destroys.  *)
HasMaxSeq(L, n) ==
    \E m \in Nat : /\ m = 0 \/ \E i \in 1 .. n : L[i].seq = m
                   /\ \A i \in 1 .. n : L[i].seq <= m

SeqMax == \A n \in 0 .. Len(ledger) : HasMaxSeq(ledger, n)

TypeInv == TypeOK /\ SeqMax

-----------------------------------------------------------------------------
(* An entry of the ledger is a record with a natural sequence number. *)
LEMMA EntrySeq ==
    ASSUME NEW e \in Entry
    PROVE  e.seq \in Nat
BY DEF Entry, EventType, Garbled

LEMMA GarbledEntry == Garbled \in Entry
BY DEF Entry

(* Replacing the last line by a garbled one keeps the ledger a ledger. *)
LEMMA GluedSeq ==
    ASSUME NEW L \in Seq(Entry), L # <<>>
    PROVE  /\ Glued(L) \in Seq(Entry)
           /\ Len(Glued(L)) = Len(L) /\ Glued(L) # <<>> /\ Len(L) \in Nat \ {0}
           /\ \A j \in 1 .. Len(L) : j # Len(L) => Glued(L)[j] = L[j]
           /\ Glued(L)[Len(L)] = Garbled
<1>1. Len(L) \in Nat \ {0}
  BY EmptySeq
<1>2. Len(L) \in 1 .. Len(L)
  BY <1>1
<1>3. /\ Glued(L) \in Seq(Entry)
      /\ Len(Glued(L)) = Len(L)
      /\ \A j \in 1 .. Len(L) :
            Glued(L)[j] = IF j = Len(L) THEN Garbled ELSE L[j]
  BY <1>2, GarbledEntry, ExceptSeq DEF Glued
<1>4. Glued(L) # <<>>
  BY <1>1, <1>3
<1> QED
  BY <1>1, <1>2, <1>3, <1>4

LEMMA AppendSeq ==
    ASSUME NEW L \in Seq(Entry), NEW e \in Entry
    PROVE  /\ Append(L, e) \in Seq(Entry)
           /\ Len(Append(L, e)) = Len(L) + 1 /\ Append(L, e) # <<>>
           /\ \A j \in 1 .. Len(L) : Append(L, e)[j] = L[j]
           /\ Append(L, e)[Len(L) + 1] = e
OBVIOUS

(* _next_sequence is one more than a number no line of the ledger exceeds. *)
LEMMA NextSequenceBound ==
    ASSUME NEW L \in Seq(Entry), HasMaxSeq(L, Len(L))
    PROVE  /\ NextSequence(L, {}) \in Nat \ {0}
           /\ \A i \in 1 .. Len(L) : L[i].seq < NextSequence(L, {})
<1> DEFINE S == {0} \cup {L[i].seq : i \in 1 .. Len(L)}
<1>1. \A i \in 1 .. Len(L) : L[i].seq \in Nat
  BY EntrySeq, ElementOfSeq
<1>2. PICK m \in Nat : /\ m = 0 \/ \E i \in 1 .. Len(L) : L[i].seq = m
                       /\ \A i \in 1 .. Len(L) : L[i].seq <= m
  BY DEF HasMaxSeq
<1>3. m \in S /\ \A y \in S : m >= y
  BY <1>1, <1>2
<1>4. Max(S) \in S /\ \A y \in S : Max(S) >= y
  BY <1>3 DEF Max
<1>5. Max(S) \in Nat /\ \A i \in 1 .. Len(L) : L[i].seq <= Max(S)
  BY <1>1, <1>4
<1>6. NextSequence(L, {}) = 1 + Max(S)
  BY DEF NextSequence
<1> HIDE DEF S
<1> QED
  BY <1>1, <1>5, <1>6

-----------------------------------------------------------------------------
(* What the decision of a call establishes, for an acquiring event and for a *)
(* renewal.  Both speak of the ledger the lock holder has replayed.          *)
AcquireSafe(L, t, r) ==
    \A i \in Active(L, t) :
        L[i].ws = r.ws \/ r.kind = "workspace_claim_acquired"
            => ~PathsConflict(r.paths, L[i].paths)

(* The active claims are the claims of readable, well-typed lines. *)
LEMMA ActiveEntry ==
    ASSUME NEW L \in Seq(Entry), NEW t, NEW i \in Active(L, t)
    PROVE  i \in 1 .. Len(L) /\ L[i] \in EventType /\ L[i].kind \in AcquireKinds
<1>1. i \in 1 .. Len(L) /\ L[i].kind \in AcquireKinds
  BY DEF Active, Unended
<1>2. L[i] \in Entry
  BY <1>1, ElementOfSeq
<1>3. Garbled.kind \notin AcquireKinds
  BY DEF Garbled, AcquireKinds
<1> QED
  BY <1>1, <1>2, <1>3 DEF Entry

LEMMA RequestFields ==
    ASSUME NEW kind \in Kinds, NEW c \in Claims \cup {NoClaim},
           NEW ws \in Authorities,
           NEW paths \in {Normalized(raws) : raws \in RawPathSets},
           NEW base \in Bases, NEW ttl \in TTLs \cup {0}, NEW L,
           kind # "claim_refused_conflict" => c \in Claims
    PROVE  LET r == Request(kind, c, ws, paths, base, ttl, L)
           IN  /\ r \in RequestType
               /\ r.kind = kind /\ r.claim = c /\ r.ws = ws /\ r.paths = paths
               /\ r.missed = IF L = ledger THEN {} ELSE {"replay"}
BY DEF Request, RequestType, AboutClaim

(* What a replay has read is a prefix of the ledger. *)
LEMMA ReplayPrefix ==
    ASSUME TypeOK, NEW L \in Replays
    PROVE  /\ ledger \in Seq(Entry) /\ L \in Seq(Entry) /\ Len(L) <= Len(ledger)
           /\ \A i \in 1 .. Len(L) : i \in 1 .. Len(ledger) /\ L[i] = ledger[i]
<1>1. ledger \in Seq(Entry) /\ Len(ledger) \in Nat
  BY LenProperties DEF TypeOK, Entry
<1>2. PICK n \in 0 .. Len(ledger) : L = SubSeq(ledger, 1, n)
  BY <1>1 DEF Replays
<1>3. /\ L \in Seq(Entry) /\ Len(L) = n
      /\ \A i \in 1 .. n : L[i] = ledger[i]
  BY <1>1, <1>2, SubSeqProperties
<1> QED
  BY <1>1, <1>2, <1>3

(* The call's replay has read the whole ledger. *)
Sighted(r) == "replay" \notin r.missed

(* The event is a refusal, or about a fresh claim or one of the ledger's; and *)
(* about an active one, unless the call did not see the whole ledger.         *)
Decided(p, r) ==
    /\ r \in RequestType
    /\ Decide(p, r) /\ issued \subseteq issued'
    /\ r.claim = NoClaim <=> r.kind = "claim_refused_conflict"
    /\ \/ r.claim \notin issued /\ r.claim \in issued' \cup {NoClaim}
          /\ r.kind # "claim_renewed"
       \/ /\ r.kind \notin AcquireKinds
          /\ \E i \in 1 .. Len(ledger) :
                /\ ledger[i].claim = r.claim /\ ledger[i].ws = r.ws
                /\ Sighted(r) => i \in Active(ledger, clock)
    /\ r.kind \in AcquireKinds /\ Sighted(r) => AcquireSafe(ledger, clock, r)

(* An acquiring call decides on a refusal, or on an event safe to append. *)
LEMMA AcquireDecides ==
    ASSUME TypeOK, NEW p \in Procs, NEW L \in Replays, NEW kind \in AcquireKinds,
           NEW ws \in Authorities, NEW raws \in RawPathSets,
           NEW base \in Bases, NEW ttl \in TTLs, NEW existing,
           Acquire(p, L, kind, ws, Normalized(raws), base, ttl, existing),
           existing = IF kind = "workspace_claim_acquired"
                        THEN Active(L, clock)
                        ELSE ActiveIn(L, clock, ws)
    PROVE  /\ issued' \subseteq Claims
           /\ \E r : Decided(p, r)
<1> DEFINE paths == Normalized(raws)
<1>1. paths \in {Normalized(x) : x \in RawPathSets} /\ ttl \in TTLs \cup {0}
  OBVIOUS
<1> HIDE DEF paths
<1>2. CASE /\ Decide(p, Request("claim_refused_conflict", NoClaim, ws, paths, base, ttl, L))
           /\ UNCHANGED issued
  <2> DEFINE r == Request("claim_refused_conflict", NoClaim, ws, paths, base, ttl, L)
  <2>1. r \in RequestType /\ r.kind = "claim_refused_conflict" /\ r.claim = NoClaim
    BY <1>1, RequestFields DEF Kinds
  <2> HIDE DEF r
  <2>2. Decided(p, r)
    BY <1>2, <2>1, FleetAssumptions DEF Decided, AcquireKinds, TypeOK, r
  <2> QED
    BY <1>2, <2>2 DEF TypeOK
<1>3. CASE /\ \A i \in existing : ~PathsConflict(paths, L[i].paths)
           /\ \E c \in Claims \ issued :
                /\ issued' = issued \cup {c}
                /\ Decide(p, Request(kind, c, ws, paths, base, ttl, L))
  <2>1. PICK c \in Claims \ issued :
                /\ issued' = issued \cup {c}
                /\ Decide(p, Request(kind, c, ws, paths, base, ttl, L))
    BY <1>3
  <2> DEFINE r == Request(kind, c, ws, paths, base, ttl, L)
  <2>2. /\ r \in RequestType /\ r.kind = kind /\ r.claim = c
        /\ r.ws = ws /\ r.paths = paths
        /\ r.missed = IF L = ledger THEN {} ELSE {"replay"}
    BY <1>1, RequestFields DEF Kinds, LeaseKinds
  <2> HIDE DEF r
  <2>3. Sighted(r) => AcquireSafe(ledger, clock, r)
    BY <1>3, <2>2 DEF AcquireSafe, ActiveIn, Sighted
  <2>4. Decided(p, r)
    BY <2>1, <2>2, <2>3, FleetAssumptions DEF Decided, AcquireKinds, r
  <2> QED
    BY <2>1, <2>4 DEF TypeOK
<1> QED
  BY <1>2, <1>3 DEF Acquire, paths

ChangeKinds == Kinds \ (AcquireKinds \cup {"claim_refused_conflict"})

(* An event about a claim the call takes for active repeats its fields. *)
LEMMA AboutDecides ==
    ASSUME TypeOK, NEW p \in Procs, NEW L \in Replays, NEW i \in Active(L, clock),
           NEW kind \in ChangeKinds, NEW ttl \in TTLs \cup {0},
           About(p, L, i, kind, ttl)
    PROVE  /\ issued' \subseteq Claims
           /\ \E r : Decided(p, r)
<1>1. /\ L \in Seq(Entry)
      /\ \A j \in 1 .. Len(L) : j \in 1 .. Len(ledger) /\ L[j] = ledger[j]
  BY ReplayPrefix
<1>2. L[i] \in EventType /\ i \in 1 .. Len(L)
  BY <1>1, ActiveEntry
<1> DEFINE e == L[i]
           r == Request(kind, e.claim, e.ws, e.paths, e.base, ttl, L)
<1>3. /\ e.claim \in Claims /\ e.ws \in Authorities
      /\ e.paths \in {Normalized(raws) : raws \in RawPathSets}
      /\ e.base \in Bases
  BY <1>1, <1>2, ActiveEntry DEF EventType, AboutClaim, AcquireKinds
<1>4. /\ r \in RequestType /\ r.kind = kind /\ r.claim = e.claim /\ r.ws = e.ws
      /\ r.missed = IF L = ledger THEN {} ELSE {"replay"}
  <2> HIDE DEF e
  <2> QED BY <1>3, RequestFields DEF ChangeKinds
<1>5. Decide(p, r) /\ UNCHANGED issued
  BY DEF About
<1>6. /\ i \in 1 .. Len(ledger) /\ ledger[i].claim = r.claim /\ ledger[i].ws = r.ws
      /\ Sighted(r) => i \in Active(ledger, clock)
  <2>1. i \in 1 .. Len(ledger) /\ ledger[i] = e
    BY <1>1, <1>2
  <2> HIDE DEF e, r
  <2> QED BY <1>4, <2>1 DEF Sighted
<1> HIDE DEF r
<1>7. Decided(p, r)
  BY <1>3, <1>4, <1>5, <1>6, FleetAssumptions DEF Decided, ChangeKinds
<1> QED
  BY <1>5, <1>7 DEF TypeOK

Enters(p) ==
    /\ pc[p] = "idle" /\ lock = NoProc /\ thread[StoreOf[p]] = NoProc
    /\ lock' = p /\ thread' = [thread EXCEPT ![StoreOf[p]] = p]

(* Every call that gets as far as an event holds the locks and has decided. *)
LEMMA BeginDecides ==
    ASSUME TypeOK, NEW p \in Procs, Begin(p)
    PROVE  /\ Enters(p)
           /\ issued' \subseteq Claims
           /\ \E r : Decided(p, r)
<1>0. PICK L \in Replays :
        \/ \E ws \in Authorities, raws \in RawPathSets, base \in Bases, ttl \in TTLs :
              \/ acquire_claim(p, L, ws, raws, base, ttl)
              \/ acquire_workspace_claim(p, L, ws, raws, base, ttl)
        \/ \E i \in 1 .. Len(L) :
              \/ \E ttl \in TTLs : renew_claim(p, L, i, ttl)
              \/ \E current \in Bases : accept_integration(p, L, i, current)
              \/ start_editing(p, L, i)
              \/ record_tests_completed(p, L, i)
              \/ mark_ready_for_integration(p, L, i)
              \/ release_claim(p, L, i)
              \/ release_workspace_claim(p, L, i)
              \/ park_work(p, L, i)
  BY DEF Begin
<1> USE DEF Enter, LockFree, Enters
<1>1. ASSUME NEW ws \in Authorities, NEW raws \in RawPathSets,
             NEW base \in Bases, NEW ttl \in TTLs,
             acquire_claim(p, L, ws, raws, base, ttl)
      PROVE  /\ Enters(p)
             /\ issued' \subseteq Claims
             /\ \E r : Decided(p, r)
  <2>1. "claim_acquired" \in AcquireKinds /\ "claim_acquired" # "workspace_claim_acquired"
    BY DEF AcquireKinds
  <2> QED BY <1>1, <2>1, AcquireDecides DEF acquire_claim
<1>2. ASSUME NEW ws \in Authorities, NEW raws \in RawPathSets,
             NEW base \in Bases, NEW ttl \in TTLs,
             acquire_workspace_claim(p, L, ws, raws, base, ttl)
      PROVE  /\ Enters(p)
             /\ issued' \subseteq Claims
             /\ \E r : Decided(p, r)
  <2>1. "workspace_claim_acquired" \in AcquireKinds
    BY DEF AcquireKinds
  <2> QED BY <1>2, <2>1, AcquireDecides DEF acquire_workspace_claim
<1>3. ASSUME NEW i, NEW ttl \in TTLs, renew_claim(p, L, i, ttl)
      PROVE  /\ Enters(p)
             /\ issued' \subseteq Claims
             /\ \E r : Decided(p, r)
  <2>1. "claim_renewed" \in ChangeKinds
    BY DEF ChangeKinds, Kinds, LeaseKinds, AcquireKinds
  <2> QED BY <1>3, <2>1, AboutDecides DEF renew_claim
<1>4. ASSUME NEW i, NEW current, accept_integration(p, L, i, current)
      PROVE  /\ Enters(p)
             /\ issued' \subseteq Claims
             /\ \E r : Decided(p, r)
  <2>1. {"integration_refused_stale_base", "integration_accepted"}
           \subseteq ChangeKinds
    BY DEF ChangeKinds, Kinds, EndKinds, StageKinds, AcquireKinds
  <2>2. PICK kind \in ChangeKinds : About(p, L, i, kind, 0)
    BY <1>4, <2>1 DEF accept_integration
  <2> QED BY <1>4, <2>2, AboutDecides DEF accept_integration
<1>5. ASSUME NEW i,
             \/ start_editing(p, L, i)
             \/ record_tests_completed(p, L, i)
             \/ mark_ready_for_integration(p, L, i)
             \/ release_claim(p, L, i)
             \/ release_workspace_claim(p, L, i)
             \/ park_work(p, L, i)
      PROVE  /\ Enters(p)
             /\ issued' \subseteq Claims
             /\ \E r : Decided(p, r)
  <2>1. {"edit_started", "tests_completed", "ready_for_integration",
         "claim_released", "workspace_claim_released", "work_parked"}
           \subseteq ChangeKinds
    BY DEF ChangeKinds, Kinds, EndKinds, TerminalKinds, StageKinds, AcquireKinds
  <2>2. /\ Enters(p)
        /\ i \in Active(L, clock)
        /\ \E kind \in ChangeKinds : About(p, L, i, kind, 0)
    BY <1>5, <2>1 DEF start_editing, record_tests_completed,
       mark_ready_for_integration, release_claim, release_workspace_claim, park_work
  <2> QED BY <2>2, AboutDecides
<1> QED
  BY <1>0, <1>1, <1>2, <1>3, <1>4, <1>5

-----------------------------------------------------------------------------
(* Type correctness. *)

(* A line that process p may append. *)
Lines(p) == {Stamped(op[p], missed) : missed \in Misses(p)}

(* Its number and its digest, unless the readings for them failed. *)
Linked(L, e) ==
    /\ "sequence" \notin e.missed => e.seq = NextSequence(L, {})
    /\ e.prior = IF L = <<>> \/ "digest" \in e.missed \/ L[Len(L)].kind = "garbled"
                   THEN 0 ELSE Len(L)

(* The event a decided process appends, field by field. *)
LEMMA StampedEvent ==
    ASSUME TypeInv, NEW p \in Procs, pc[p] = "decided", NEW e \in Lines(p)
    PROVE  /\ ledger \in Seq(Entry) /\ op[p] \in RequestType
           /\ e \in EventType /\ e \in Entry /\ Linked(ledger, e)
           /\ e.ts = clock /\ e.kind = op[p].kind /\ e.claim = op[p].claim
           /\ e.ws = op[p].ws /\ e.paths = op[p].paths
           /\ Sighted(e) <=> Sighted(op[p])
<1>1. /\ ledger \in Seq(Entry) /\ op[p] \in RequestType /\ clock \in Nat
      /\ Len(ledger) \in Nat
  BY LenProperties DEF TypeInv, TypeOK, Entry
<1>2. PICK missed \in SUBSET {"sequence", "digest"} : e = Stamped(op[p], missed)
  BY DEF Lines, Misses
<1>3. HasMaxSeq(ledger, Len(ledger))
  BY <1>1 DEF TypeInv, SeqMax
<1>4. NextSequence(ledger, {}) \in Nat
  BY <1>1, <1>3, NextSequenceBound
<1>5. /\ NextSequence(ledger, missed) = IF "sequence" \in missed THEN 1
                                        ELSE NextSequence(ledger, {})
      /\ LastEventDigest(ledger, missed) \in Nat
  BY <1>1 DEF NextSequence, LastEventDigest
<1>6. op[p].missed \in SUBSET {"replay"}
  BY <1>1 DEF RequestType
<1>7. /\ e.kind = op[p].kind /\ e.claim = op[p].claim /\ e.ws = op[p].ws
      /\ e.paths = op[p].paths /\ e.base = op[p].base /\ e.ttl = op[p].ttl
      /\ e.ts = clock /\ e.seq = NextSequence(ledger, missed)
      /\ e.prior = LastEventDigest(ledger, missed)
      /\ e.missed = op[p].missed \cup missed
  BY <1>2 DEF Stamped
<1>8. e \in EventType
  <2>1. e.seq \in Nat /\ e.prior \in Nat
    BY <1>4, <1>5, <1>7
  <2>2. e.missed \in SUBSET {"replay", "sequence", "digest"}
    BY <1>6, <1>7
  <2>3. AboutClaim(e)
    BY <1>1, <1>7 DEF RequestType, AboutClaim
  <2>4. e = [kind |-> e.kind, claim |-> e.claim, ws |-> e.ws, paths |-> e.paths,
             base |-> e.base, ttl |-> e.ttl, ts |-> e.ts, seq |-> e.seq,
             prior |-> e.prior, missed |-> e.missed]
    BY <1>2 DEF Stamped
  <2> QED BY <1>1, <1>7, <2>1, <2>2, <2>3, <2>4 DEF RequestType, EventType
<1>9. /\ "sequence" \in e.missed <=> "sequence" \in missed
      /\ "digest" \in e.missed <=> "digest" \in missed
      /\ "replay" \in e.missed <=> "replay" \in op[p].missed
  BY <1>2, <1>6, <1>7
<1>10. Linked(ledger, e)
  BY <1>5, <1>7, <1>9 DEF Linked, LastEventDigest
<1> QED
  BY <1>1, <1>7, <1>8, <1>9, <1>10 DEF Sighted, Entry

(* A longer ledger still has a largest number. *)
LEMMA AppendMax ==
    ASSUME NEW L \in Seq(Entry), NEW e \in Entry,
           \A n \in 0 .. Len(L) : HasMaxSeq(L, n)
    PROVE  \A n \in 0 .. Len(Append(L, e)) : HasMaxSeq(Append(L, e), n)
<1> DEFINE M == Append(L, e)
<1>1. /\ Len(M) = Len(L) + 1 /\ Len(L) \in Nat
      /\ \A j \in 1 .. Len(L) : M[j] = L[j]
      /\ M[Len(L) + 1] = e /\ e.seq \in Nat
  BY AppendSeq, LenProperties, EntrySeq
<1>2. \A j \in 1 .. Len(L) : L[j].seq \in Nat
  BY EntrySeq, ElementOfSeq
<1>3. HasMaxSeq(L, Len(L))
  BY <1>1
<1> HIDE DEF M
<1>4. ASSUME NEW n \in 0 .. Len(L) PROVE HasMaxSeq(M, n)
  <2>1. \A i \in 1 .. n : i \in 1 .. Len(L) /\ M[i].seq = L[i].seq
    BY <1>1
  <2>2. HasMaxSeq(L, n)
    OBVIOUS
  <2> QED BY <2>1, <2>2 DEF HasMaxSeq
<1>5. HasMaxSeq(M, Len(L) + 1)
  <2>1. \A i \in 1 .. (Len(L) + 1) :
           IF i = Len(L) + 1 THEN M[i].seq = e.seq
           ELSE i \in 1 .. Len(L) /\ M[i].seq = L[i].seq
    BY <1>1
  <2>2. PICK m \in Nat : /\ m = 0 \/ \E i \in 1 .. Len(L) : L[i].seq = m
                         /\ \A i \in 1 .. Len(L) : L[i].seq <= m
    BY <1>3 DEF HasMaxSeq
  <2>3. CASE e.seq <= m
    <3>1. m = 0 \/ \E i \in 1 .. (Len(L) + 1) : M[i].seq = m
      BY <1>1, <2>1, <2>2
    <3>2. \A i \in 1 .. (Len(L) + 1) : M[i].seq <= m
      BY <1>1, <2>1, <2>2, <2>3
    <3> QED BY <3>1, <3>2 DEF HasMaxSeq
  <2>4. CASE m < e.seq
    <3>1. Len(L) + 1 \in 1 .. (Len(L) + 1) /\ M[Len(L) + 1].seq = e.seq
      BY <1>1
    <3>2. \A i \in 1 .. (Len(L) + 1) : M[i].seq <= e.seq
      BY <1>1, <1>2, <2>1, <2>2, <2>4
    <3> QED BY <1>1, <3>1, <3>2 DEF HasMaxSeq
  <2> QED BY <1>1, <2>3, <2>4
<1> QED
  BY <1>1, <1>4, <1>5 DEF M

(* Losing the last line leaves the maxima of the shorter prefixes. *)
LEMMA GluedMax ==
    ASSUME NEW L \in Seq(Entry), L # <<>>,
           \A n \in 0 .. Len(L) : HasMaxSeq(L, n)
    PROVE  \A n \in 0 .. Len(Glued(L)) : HasMaxSeq(Glued(L), n)
<1> DEFINE M == Glued(L)
<1>1. /\ Len(M) = Len(L) /\ Len(L) \in Nat \ {0}
      /\ \A j \in 1 .. Len(L) : j # Len(L) => M[j] = L[j]
      /\ M[Len(L)] = Garbled /\ Garbled.seq = 0
  BY GluedSeq DEF Garbled
<1>2. \A j \in 1 .. Len(L) : L[j].seq \in Nat
  BY EntrySeq, ElementOfSeq
<1> HIDE DEF M
<1>3. ASSUME NEW n \in 0 .. (Len(L) - 1) PROVE HasMaxSeq(M, n)
  <2>1. \A i \in 1 .. n : i \in 1 .. Len(L) /\ M[i].seq = L[i].seq
    BY <1>1
  <2>2. HasMaxSeq(L, n)
    BY <1>1
  <2> QED BY <2>1, <2>2 DEF HasMaxSeq
<1>4. HasMaxSeq(M, Len(L) - 1)
  BY <1>1, <1>3
<1>5. HasMaxSeq(M, Len(L))
  <2>1. PICK m \in Nat :
           /\ m = 0 \/ \E i \in 1 .. (Len(L) - 1) : M[i].seq = m
           /\ \A i \in 1 .. (Len(L) - 1) : M[i].seq <= m
    BY <1>4 DEF HasMaxSeq
  <2>2. m = 0 \/ \E i \in 1 .. Len(L) : M[i].seq = m
    BY <1>1, <2>1
  <2>3. \A i \in 1 .. Len(L) : i = Len(L) \/ i \in 1 .. (Len(L) - 1)
    BY <1>1
  <2>4. \A i \in 1 .. Len(L) : M[i].seq <= m
    BY <1>1, <2>1, <2>3
  <2> QED BY <2>2, <2>4 DEF HasMaxSeq
<1> QED
  BY <1>1, <1>3, <1>5 DEF M

(* A torn append writes a line, or an unreadable piece of it. *)
LEMMA TornWrites ==
    ASSUME NEW p, NEW fault, AppendTorn(p, fault)
    PROVE  \/ \E e \in Lines(p) : ledger' = Written(e)
           \/ tail = "clean" /\ ledger' = Append(ledger, Garbled)
BY DEF AppendTorn, Lines

(* A write of any shape keeps the ledger typed and its maxima defined. *)
LEMMA WriteTyped ==
    ASSUME TypeInv, NEW p \in Procs, pc[p] = "decided",
           \/ \E e \in Lines(p) : ledger' = Written(e)
           \/ ledger' = Append(ledger, Garbled)
    PROVE  ledger' \in Seq(Entry) /\ ledger' # <<>> /\ SeqMax'
<1>1. ledger \in Seq(Entry) /\ \A n \in 0 .. Len(ledger) : HasMaxSeq(ledger, n)
  BY DEF TypeInv, TypeOK, Entry, SeqMax
<1>2. ASSUME NEW e \in Entry, ledger' = Append(ledger, e)
      PROVE  ledger' \in Seq(Entry) /\ ledger' # <<>> /\ SeqMax'
  BY <1>1, <1>2, AppendSeq, AppendMax DEF SeqMax
<1>3. CASE ledger' = Glued(ledger) /\ tail # "clean"
  <2>1. ledger # <<>>
    BY <1>3 DEF TypeInv, TypeOK
  <2> QED BY <1>1, <1>3, <2>1, GluedSeq, GluedMax DEF SeqMax
<1> QED
  BY <1>2, <1>3, StampedEvent, GarbledEntry DEF Written

(* A process that leaves the critical section frees both locks. *)
LEMMA LeaveTyped ==
    ASSUME TypeInv, NEW p \in Procs, pc[p] # "idle", Leave(p)
    PROVE  /\ lock' \in Procs \cup {NoProc}
           /\ pc' \in [Procs -> {"idle", "decided", "appended"}]
           /\ op' \in [Procs -> RequestType \cup {NoRequest}]
           /\ \A q \in Procs : (pc[q] # "idle" <=> lock = q)'
           /\ \A q \in Procs : (pc[q] # "idle" => op[q] \in RequestType)'
           /\ thread' \in [Stores -> Procs \cup {NoProc}]
           /\ \A s \in Stores : (thread[s] # NoProc => StoreOf[thread[s]] = s)'
           /\ \A q \in Procs : (pc[q] # "idle" => thread[StoreOf[q]] = q)'
<1>1. \A q \in Procs : pc[q] # "idle" => q = p
  BY DEF TypeInv, TypeOK
<1>2. \A q \in Procs : pc'[q] = "idle"
  BY <1>1 DEF TypeInv, TypeOK, Leave
<1>3. /\ thread' \in [Stores -> Procs \cup {NoProc}]
      /\ \A s \in Stores : thread'[s] # NoProc => StoreOf[thread'[s]] = s
  <2>1. thread' = [thread EXCEPT ![StoreOf[p]] = NoProc]
    BY DEF Leave
  <2>2. /\ thread \in [Stores -> Procs \cup {NoProc}]
        /\ \A s \in Stores : thread[s] # NoProc => StoreOf[thread[s]] = s
    BY DEF TypeInv, TypeOK
  <2> QED BY <2>1, <2>2
<1> QED
  BY <1>2, <1>3, FleetAssumptions DEF TypeInv, TypeOK, Leave

(* Pointer files are only ever written for claims of the store. *)
LEMMA PointerTyped ==
    ASSUME TypeOK, NEW e, AboutClaim(e), MaintainPointer(e)
    PROVE  pointers' \subseteq Claims
BY DEF TypeOK, AboutClaim, MaintainPointer, AcquireKinds, TerminalKinds

LEMMA InitType == Init => TypeInv
<1> SUFFICES ASSUME Init PROVE TypeInv
  OBVIOUS
<1>1. TypeOK
  BY FleetAssumptions DEF Init, TypeOK
<1>2. SeqMax
  BY DEF Init, SeqMax, HasMaxSeq
<1> QED
  BY <1>1, <1>2 DEF TypeInv

LEMMA NextType == TypeInv /\ [Next]_vars => TypeInv'
<1> SUFFICES ASSUME TypeInv, [Next]_vars PROVE TypeInv'
  OBVIOUS
<1> USE DEF TypeInv
<1>1. CASE UNCHANGED vars
  BY <1>1 DEF vars, TypeOK, SeqMax
<1>2. CASE Tick
  BY <1>2, FleetAssumptions DEF Tick, TypeOK, SeqMax
<1>3. ASSUME NEW p \in Procs, Begin(p) PROVE TypeInv'
  <2>1. PICK r : Decided(p, r)
    BY <1>3, BeginDecides
  <2>2. Enters(p) /\ issued' \subseteq Claims
    BY <1>3, BeginDecides
  <2>3. SeqMax'
    BY <2>1 DEF Decided, Decide, SeqMax
  <2>4. TypeOK'
    <3>1. /\ pc[p] = "idle" /\ lock = NoProc /\ thread[StoreOf[p]] = NoProc
          /\ lock' = p /\ thread' = [thread EXCEPT ![StoreOf[p]] = p]
      BY <2>2 DEF Enters
    <3>2. /\ r \in RequestType /\ UNCHANGED <<ledger, tail, clock, returned>>
          /\ pc' = [pc EXCEPT ![p] = "decided"] /\ op' = [op EXCEPT ![p] = r]
          /\ UNCHANGED pointers
      BY <2>1 DEF Decided, Decide
    <3>3. /\ thread \in [Stores -> Procs \cup {NoProc}]
          /\ \A s \in Stores : thread[s] # NoProc => StoreOf[thread[s]] = s
          /\ StoreOf[p] \in Stores
      BY FleetAssumptions DEF TypeOK
    <3>4. /\ thread' \in [Stores -> Procs \cup {NoProc}]
          /\ \A s \in Stores : thread'[s] # NoProc => StoreOf[thread'[s]] = s
          /\ thread'[StoreOf[p]] = p
      BY <3>1, <3>3
    <3>5. \A q \in Procs : pc[q] = "idle"
      BY <3>1, FleetAssumptions DEF TypeOK
    <3>6. \A q \in Procs : pc'[q] # "idle" <=> q = p
      BY <3>2, <3>5 DEF TypeOK
    <3>7. /\ pc' \in [Procs -> {"idle", "decided", "appended"}]
          /\ op' \in [Procs -> RequestType \cup {NoRequest}]
          /\ op'[p] = r
      BY <3>2 DEF TypeOK
    <3> QED BY <2>2, <3>1, <3>2, <3>4, <3>6, <3>7 DEF TypeOK
  <2> QED BY <2>3, <2>4
<1>4. ASSUME NEW p \in Procs, AppendEvent(p) PROVE TypeInv'
  <2>1. ledger' \in Seq(Entry) /\ ledger' # <<>> /\ SeqMax'
    <3>1. \E e \in Lines(p) : ledger' = Written(e)
      BY <1>4 DEF AppendEvent, Lines
    <3> QED BY <1>4, <3>1, WriteTyped DEF AppendEvent
  <2>2. TypeOK'
    BY <1>4, <2>1 DEF AppendEvent, TypeOK, Entry
  <2> QED BY <2>1, <2>2
<1>5. ASSUME NEW p \in Procs, NEW fault \in TornAppends, AppendTorn(p, fault)
      PROVE  TypeInv'
  <2>1. ledger' \in Seq(Entry) /\ ledger' # <<>> /\ SeqMax'
    BY <1>5, TornWrites, WriteTyped DEF AppendTorn
  <2>2. tail' \in {"clean", "partial", "unterminated"}
    BY <1>5 DEF AppendTorn, TornAppends
  <2>3. pc[p] # "idle" /\ Leave(p)
    BY <1>5 DEF AppendTorn
  <2>4. TypeOK'
    BY <1>5, <2>1, <2>2, <2>3, LeaveTyped DEF AppendTorn, TypeOK, Entry
  <2> QED BY <2>1, <2>4
<1>6. ASSUME NEW p \in Procs, AbortBeforeAppend(p) PROVE TypeInv'
  <2>1. TypeOK'
    BY <1>6, LeaveTyped DEF AbortBeforeAppend, TypeOK
  <2>2. SeqMax'
    BY <1>6 DEF AbortBeforeAppend, SeqMax
  <2> QED BY <2>1, <2>2
<1>7. ASSUME NEW p \in Procs, Finish(p) PROVE TypeInv'
  <2>0. pointers' \subseteq Claims /\ returned' \subseteq (Claims \X Kinds)
    <3>1. op[p] \in RequestType
      BY <1>7 DEF Finish, TypeOK
    <3>2. op[p].kind \in Kinds /\ AboutClaim(op[p])
      BY <3>1 DEF RequestType
    <3>3. pointers' \subseteq Claims
      BY <1>7, <3>2, PointerTyped DEF Finish
    <3>4. returned' \subseteq (Claims \X Kinds)
      BY <1>7, <3>2 DEF Finish, AboutClaim, RefusalKinds, TypeOK
    <3> QED BY <3>3, <3>4
  <2>1. TypeOK'
    BY <1>7, <2>0, LeaveTyped DEF Finish, TypeOK
  <2>2. SeqMax'
    BY <1>7 DEF Finish, SeqMax
  <2> QED BY <2>1, <2>2
<1>8. ASSUME NEW p \in Procs, CrashAfterAppend(p) PROVE TypeInv'
  <2>0. pointers' \subseteq Claims
    <3>1. op[p] \in RequestType
      BY <1>8 DEF CrashAfterAppend, TypeOK
    <3> QED BY <1>8, <3>1, PointerTyped DEF CrashAfterAppend, RequestType
  <2>1. TypeOK'
    BY <1>8, <2>0, LeaveTyped DEF CrashAfterAppend, TypeOK
  <2>2. SeqMax'
    BY <1>8 DEF CrashAfterAppend, SeqMax
  <2> QED BY <2>1, <2>2
<1>9. ASSUME NEW p \in Procs, FlockFails(p) PROVE TypeInv'
  <2>1. TypeOK'
    BY <1>9, FleetAssumptions DEF FlockFails, TypeOK
  <2>2. SeqMax'
    BY <1>9 DEF FlockFails, SeqMax
  <2> QED BY <2>1, <2>2
<1> QED
  BY <1>1, <1>2, <1>3, <1>4, <1>5, <1>6, <1>7, <1>8, <1>9 DEF Next, Proceed

(* The store's state is well typed, and exactly the holder of the flock is   *)
(* inside a call and holds its store's thread lock too, in every reachable   *)
(* state of every instance, whichever flock fails.                           *)
THEOREM TypeCorrect == Spec => []TypeOK
<1>1. TypeInv => TypeOK
  BY DEF TypeInv
<1> QED
  BY InitType, NextType, <1>1, PTL DEF Spec

-----------------------------------------------------------------------------
(* The chain of sequence numbers and digests. *)

(* What Chained says of line j. *)
ChainedAt(L, j) ==
    /\ "sequence" \notin L[j].missed =>
          \A i \in 1 .. (j - 1) : Readable(L, i) => L[i].seq < L[j].seq
    /\ L[j].prior = IF j = 1 \/ "digest" \in L[j].missed \/ ~Readable(L, j - 1)
                      THEN 0 ELSE j - 1

LEMMA AppendChained ==
    ASSUME NEW L \in Seq(Entry), NEW e \in Entry,
           Chained(L), HasMaxSeq(L, Len(L)),
           e.kind = "garbled" \/ Linked(L, e)
    PROVE  Chained(Append(L, e))
<1> DEFINE M == Append(L, e)
<1>1. /\ Len(M) = Len(L) + 1 /\ Len(L) \in Nat
      /\ \A j \in 1 .. Len(L) : M[j] = L[j]
      /\ M[Len(L) + 1] = e
  BY AppendSeq, LenProperties
<1>2. \A i \in 1 .. Len(L) : L[i].seq < NextSequence(L, {})
  BY NextSequenceBound
<1> HIDE DEF M
<1>3. ASSUME NEW j \in 1 .. Len(M), Readable(M, j)
      PROVE  ChainedAt(M, j)
  <2>1. CASE j \in 1 .. Len(L)
    <3>1. /\ M[j] = L[j] /\ \A i \in 1 .. (j - 1) : M[i] = L[i]
          /\ j # 1 => M[j - 1] = L[j - 1]
      BY <1>1, <2>1
    <3>2. ChainedAt(L, j)
      BY <1>3, <2>1, <3>1 DEF Chained, ChainedAt, Readable
    <3> QED BY <3>1, <3>2 DEF ChainedAt, Readable
  <2>2. CASE j = Len(L) + 1
    <3>1. M[j] = e /\ Linked(L, e)
      BY <1>1, <1>3, <2>2 DEF Readable
    <3>2. \A i \in 1 .. (j - 1) : i \in 1 .. Len(L) /\ M[i] = L[i]
      BY <1>1, <2>2
    <3>3. j - 1 = Len(L) /\ (j = 1 <=> L = <<>>)
      BY <1>1, <2>2, EmptySeq
    <3>4. j # 1 => j - 1 \in 1 .. (j - 1)
      BY <1>1, <2>2
    <3>5. j # 1 => M[j - 1] = L[Len(L)]
      BY <3>2, <3>3, <3>4
    <3> QED BY <1>2, <3>1, <3>2, <3>3, <3>5 DEF ChainedAt, Linked, Readable
  <2> QED BY <1>1, <2>1, <2>2
<1> QED
  BY <1>3 DEF Chained, ChainedAt, M

LEMMA GluedChained ==
    ASSUME NEW L \in Seq(Entry), L # <<>>, Chained(L)
    PROVE  Chained(Glued(L))
<1> DEFINE M == Glued(L)
<1>1. /\ Len(M) = Len(L) /\ Len(L) \in Nat \ {0}
      /\ \A j \in 1 .. Len(L) : j # Len(L) => M[j] = L[j]
      /\ ~Readable(M, Len(L))
  BY GluedSeq DEF Garbled, Readable
<1> HIDE DEF M
<1>2. ASSUME NEW j \in 1 .. Len(M), Readable(M, j)
      PROVE  ChainedAt(M, j)
  <2>1. j \in 1 .. Len(L) /\ j # Len(L)
    BY <1>1, <1>2
  <2>2. /\ M[j] = L[j] /\ \A i \in 1 .. (j - 1) : M[i] = L[i]
        /\ j # 1 => M[j - 1] = L[j - 1]
    BY <1>1, <2>1
  <2>3. ChainedAt(L, j)
    BY <1>2, <2>1, <2>2 DEF Chained, ChainedAt, Readable
  <2> QED BY <2>2, <2>3 DEF ChainedAt, Readable
<1> QED
  BY <1>2 DEF Chained, ChainedAt, M

(* The three ways a step can change the ledger. *)
LEMMA LedgerStep ==
    ASSUME TypeInv, [Next]_vars
    PROVE  \/ UNCHANGED ledger
           \/ \E p \in Procs : /\ pc[p] = "decided"
                               /\ \/ \E e \in Lines(p) : ledger' = Written(e)
                                  \/ tail = "clean" /\ ledger' = Append(ledger, Garbled)
<1>1. ASSUME NEW p \in Procs, Begin(p) PROVE UNCHANGED ledger
  BY <1>1, BeginDecides DEF TypeInv, Decided, Decide
<1>2. CASE UNCHANGED vars
  BY <1>2 DEF vars
<1>3. ASSUME NEW p \in Procs, AppendEvent(p)
      PROVE  pc[p] = "decided" /\ \E e \in Lines(p) : ledger' = Written(e)
  BY <1>3 DEF AppendEvent, Lines
<1>4. ASSUME NEW p \in Procs, NEW fault \in TornAppends, AppendTorn(p, fault)
      PROVE  /\ pc[p] = "decided"
             /\ \/ \E e \in Lines(p) : ledger' = Written(e)
                \/ tail = "clean" /\ ledger' = Append(ledger, Garbled)
  BY <1>4, TornWrites DEF AppendTorn
<1> QED
  BY <1>1, <1>2, <1>3, <1>4 DEF Next, Proceed, Tick, FlockFails,
     AbortBeforeAppend, Finish, CrashAfterAppend

LEMMA NextChained == TypeInv /\ OrderedChain /\ [Next]_vars => OrderedChain'
<1> SUFFICES ASSUME TypeInv, OrderedChain, [Next]_vars PROVE Chained(ledger')
  BY DEF OrderedChain
<1>1. Chained(ledger) /\ ledger \in Seq(Entry) /\ HasMaxSeq(ledger, Len(ledger))
  BY LenProperties DEF OrderedChain, TypeInv, TypeOK, SeqMax, Entry
<1>2. CASE UNCHANGED ledger
  BY <1>1, <1>2
<1>3. ASSUME NEW p \in Procs, pc[p] = "decided", NEW e \in Lines(p),
             ledger' = Append(ledger, e)
      PROVE  Chained(ledger')
  BY <1>1, <1>3, StampedEvent, AppendChained
<1>4. CASE ledger' = Append(ledger, Garbled)
  <2>1. Garbled \in Entry /\ Garbled.kind = "garbled"
    BY DEF Garbled, Entry
  <2> QED BY <1>1, <1>4, <2>1, AppendChained
<1>5. CASE ledger' = Glued(ledger) /\ tail # "clean"
  <2>1. ledger # <<>>
    BY <1>5 DEF TypeInv, TypeOK
  <2> QED BY <1>1, <1>5, <2>1, GluedChained
<1> QED
  BY <1>2, <1>3, <1>4, <1>5, LedgerStep DEF Written

(* Whatever calls fail and whichever appends are torn: a readable line whose *)
(* number could be determined is numbered above all before it, one whose     *)
(* digest could be read carries that of its predecessor, and a swallowed     *)
(* OSError shows in no other line than the one of the call it happened to.   *)
THEOREM ChainOrdered == Spec => []OrderedChain
<1>1. Init => OrderedChain
  BY DEF Init, OrderedChain, Chained
<1> QED
  BY InitType, NextType, NextChained, <1>1, PTL DEF Spec

-----------------------------------------------------------------------------
(* Exclusive writing.  The lock holder's decision stays valid until its      *)
(* append: the ledger does not change under it and the passing of time only  *)
(* removes claims.                                                           *)

(* Claim i does not overlap claim j, whichever of the two is the older. *)
Apart(L, i, j) ==
    /\ i < j /\ Checked(L, i, j) /\ Informed(L, i, j)
          => ~PathsConflict(L[j].paths, L[i].paths)
    /\ j < i /\ Checked(L, j, i) /\ Informed(L, j, i)
          => ~PathsConflict(L[i].paths, L[j].paths)

(* The claim being renewed, active when that was decided, may have expired   *)
(* since, but nothing active overlaps it.                                    *)
RenewSafe(L, t, c) ==
    \A i \in 1 .. Len(L) :
        Unended(L, i) /\ L[i].claim = c => \A j \in Active(L, t) : Apart(L, i, j)

PendingSafe ==
    \A p \in Procs : pc[p] = "decided" /\ Sighted(op[p]) =>
        /\ op[p].kind \in AcquireKinds => AcquireSafe(ledger, clock, op[p])
        /\ op[p].kind = "claim_renewed" => RenewSafe(ledger, clock, op[p].claim)

(* An unterminated last line may still be lost: what is left is exclusive. *)
ExclusiveInv ==
    /\ Exclusive(ledger, clock)
    /\ tail # "clean" => Exclusive(Glued(ledger), clock)
    /\ PendingSafe

LEMMA ActiveShrinks ==
    ASSUME NEW L \in Seq(Entry), NEW t \in Nat, NEW u \in Nat, t <= u
    PROVE  Active(L, u) \subseteq Active(L, t)
<1> SUFFICES ASSUME NEW i \in 1 .. Len(L), Unexpired(L, i, u)
             PROVE  Unexpired(L, i, t)
  BY DEF Active
<1>1. PICK k \in i .. Len(L) :
        /\ SameClaim(L, i, k) /\ L[k].kind \in LeaseKinds
        /\ L[k].ts + L[k].ttl > u
        /\ \A j \in (k + 1) .. Len(L) :
              SameClaim(L, i, j) => L[j].kind \notin LeaseKinds
  BY DEF Unexpired
<1>2. k \in 1 .. Len(L)
  BY LenProperties
<1>3. L[k] \in EventType
  <2>1. L[k] \in Entry
    BY <1>2, ElementOfSeq
  <2> QED BY <1>1, <2>1 DEF Entry, Garbled, LeaseKinds, AcquireKinds
<1>4. L[k].ts \in Nat /\ L[k].ttl \in Nat
  <2>1. L[k].ts \in Nat /\ L[k].ttl \in TTLs \cup {0}
    BY <1>3 DEF EventType
  <2>2. \A x \in TTLs \cup {0} : x \in Nat
    BY FleetAssumptions
  <2> QED BY <2>1, <2>2
<1>5. L[k].ts + L[k].ttl > t
  BY <1>1, <1>4
<1> QED
  BY <1>1, <1>5 DEF Unexpired

(* Two lines cannot both hold the same claim. *)
LEMMA OneHolder ==
    ASSUME NEW L \in Seq(Entry), NEW i \in 1 .. Len(L), NEW j \in 1 .. Len(L),
           Unended(L, i), Unended(L, j), L[i].claim = L[j].claim
    PROVE  i = j
<1>1. ~(i < j)
  BY LenProperties DEF Unended, SameClaim
<1>2. ~(j < i)
  BY LenProperties DEF Unended, SameClaim
<1> QED
  BY <1>1, <1>2

(* A claim active after an append was active before it or is renewed by it. *)
LEMMA ActiveAppend ==
    ASSUME NEW L \in Seq(Entry), NEW e \in Entry, NEW t \in Nat,
           NEW i \in Active(Append(L, e), t), i \in 1 .. Len(L)
    PROVE  /\ Append(L, e)[i] = L[i]
           /\ Unended(L, i)
           /\ \/ i \in Active(L, t)
              \/ e.kind = "claim_renewed" /\ L[i].claim = e.claim
<1> DEFINE M == Append(L, e)
<1>1. /\ Len(M) = Len(L) + 1 /\ Len(L) \in Nat
      /\ \A j \in 1 .. Len(L) : M[j] = L[j]
      /\ M[Len(L) + 1] = e
  BY AppendSeq, LenProperties
<1>2. Unended(M, i) /\ Unexpired(M, i, t)
  BY DEF Active
<1> HIDE DEF M
<1>3. \A j \in (i + 1) .. Len(L) : j \in (i + 1) .. Len(M) /\ M[j] = L[j]
  BY <1>1
<1>4. Unended(L, i)
  BY <1>1, <1>2, <1>3 DEF Unended, SameClaim
<1>5. PICK k \in i .. Len(M) :
        /\ SameClaim(M, i, k) /\ M[k].kind \in LeaseKinds
        /\ M[k].ts + M[k].ttl > t
        /\ \A j \in (k + 1) .. Len(M) :
              SameClaim(M, i, j) => M[j].kind \notin LeaseKinds
  BY <1>2 DEF Unexpired
<1>6. CASE k = Len(L) + 1
  <2>1. e.claim = L[i].claim /\ e.kind \in LeaseKinds
    BY <1>1, <1>5, <1>6 DEF SameClaim
  <2>2. e.kind \notin AcquireKinds
    BY <1>1, <1>2, <2>1 DEF Unended, SameClaim
  <2> QED BY <1>1, <1>4, <2>1, <2>2 DEF LeaseKinds, M
<1>7. CASE k \in i .. Len(L)
  <2>1. M[k] = L[k] /\ M[i] = L[i]
    BY <1>1, <1>7
  <2>2. \A j \in (k + 1) .. Len(L) : j \in (k + 1) .. Len(M) /\ M[j] = L[j]
    BY <1>1, <1>7
  <2>3. Unexpired(L, i, t)
    BY <1>5, <1>7, <2>1, <2>2 DEF Unexpired, SameClaim
  <2> QED BY <1>1, <1>4, <2>3 DEF Active, M
<1> QED
  BY <1>1, <1>5, <1>6, <1>7

LEMMA AppendExclusive ==
    ASSUME NEW L \in Seq(Entry), NEW e \in Entry, NEW t \in Nat,
           Exclusive(L, t),
           e.kind \in AcquireKinds /\ Sighted(e) => AcquireSafe(L, t, e),
           e.kind = "claim_renewed" /\ Sighted(e) => RenewSafe(L, t, e.claim)
    PROVE  Exclusive(Append(L, e), t)
<1> DEFINE M == Append(L, e)
<1>1. /\ Len(M) = Len(L) + 1 /\ Len(L) \in Nat
      /\ \A j \in 1 .. Len(L) : M[j] = L[j]
      /\ M[Len(L) + 1] = e
  BY AppendSeq, LenProperties
<1> SUFFICES ASSUME NEW i \in Active(M, t), NEW j \in Active(M, t),
                    i < j, Checked(M, i, j), Informed(M, i, j)
             PROVE  ~PathsConflict(M[j].paths, M[i].paths)
  BY DEF Exclusive
<1>2. i \in 1 .. Len(M) /\ j \in 1 .. Len(M) /\ Unended(M, j) /\ Unended(M, i)
  BY DEF Active
<1>3. i \in 1 .. Len(L)
  BY <1>1, <1>2
<1>4. /\ M[i] = L[i] /\ Unended(L, i)
      /\ i \in Active(L, t) \/ (e.kind = "claim_renewed" /\ L[i].claim = e.claim)
  BY <1>3, ActiveAppend
<1>5. CASE j = Len(L) + 1
  <2>1. M[j] = e /\ e.kind \in AcquireKinds
    BY <1>1, <1>2, <1>5 DEF Unended
  <2>2. i \in Active(L, t)
    BY <1>4, <2>1 DEF AcquireKinds
  <2>3. Sighted(e)
    BY <2>1 DEF Informed, Sighted
  <2> QED BY <1>4, <2>1, <2>2, <2>3 DEF AcquireSafe, Checked
<1>6. CASE j \in 1 .. Len(L)
  <2>1. /\ M[j] = L[j] /\ Unended(L, j)
        /\ j \in Active(L, t) \/ (e.kind = "claim_renewed" /\ L[j].claim = e.claim)
    BY <1>6, ActiveAppend
  <2>2. Checked(L, i, j) /\ Informed(L, i, j)
    <3>1. \A k \in 1 .. Len(L) : k \in 1 .. Len(M) /\ M[k] = L[k]
      BY <1>1
    <3> QED BY <1>4, <2>1, <3>1 DEF Checked, Informed
  <2>3. L[i].claim # L[j].claim
    <3>1. i # j
      BY <1>1, <1>3, <1>6
    <3> QED BY <1>3, <1>4, <1>6, <2>1, <3>1, OneHolder
  <2>0. e.kind = "claim_renewed" /\ e.claim \in {L[i].claim, L[j].claim} => Sighted(e)
    <3>1. Len(L) + 1 \in 1 .. Len(M)
      BY <1>1
    <3> QED BY <1>1, <1>4, <2>1, <3>1 DEF Informed, Sighted
  <2>4. CASE i \in Active(L, t) /\ j \in Active(L, t)
    BY <1>4, <2>1, <2>2, <2>4 DEF Exclusive
  <2>5. CASE e.kind = "claim_renewed" /\ L[i].claim = e.claim /\ j \in Active(L, t)
    BY <1>3, <1>4, <2>0, <2>1, <2>2, <2>5 DEF RenewSafe, Apart
  <2>6. CASE e.kind = "claim_renewed" /\ L[j].claim = e.claim /\ i \in Active(L, t)
    BY <1>4, <1>6, <2>0, <2>1, <2>2, <2>6 DEF RenewSafe, Apart
  <2> QED BY <1>4, <2>1, <2>3, <2>4, <2>5, <2>6
<1> QED
  BY <1>1, <1>2, <1>5, <1>6

(* Gluing garbles the last line and nothing else. *)
LEMMA GluedAppend ==
    ASSUME NEW L \in Seq(Entry), NEW e \in Entry
    PROVE  Glued(Append(L, e)) = Append(L, Garbled)
<1> DEFINE M == Append(L, e)
           N == Append(L, Garbled)
<1>1. /\ M \in Seq(Entry) /\ M # <<>> /\ Len(M) = Len(L) + 1 /\ Len(L) \in Nat
      /\ \A j \in 1 .. Len(L) : M[j] = L[j]
  BY AppendSeq, LenProperties
<1>2. /\ N \in Seq(Entry) /\ Len(N) = Len(L) + 1 /\ N[Len(L) + 1] = Garbled
      /\ \A j \in 1 .. Len(L) : N[j] = L[j]
  BY AppendSeq, GarbledEntry
<1> HIDE DEF M, N
<1>3. /\ Glued(M) \in Seq(Entry) /\ Len(Glued(M)) = Len(M)
      /\ \A j \in 1 .. Len(M) : j # Len(M) => Glued(M)[j] = M[j]
      /\ Glued(M)[Len(M)] = Garbled
  BY <1>1, GluedSeq
<1>4. \A j \in 1 .. Len(Glued(M)) : Glued(M)[j] = N[j]
  BY <1>1, <1>2, <1>3
<1> QED
  BY <1>1, <1>2, <1>3, <1>4, SeqEqual DEF M, N

LEMMA GluedTwice ==
    ASSUME NEW L \in Seq(Entry), L # <<>>
    PROVE  Glued(Glued(L)) = Glued(L)
<1> DEFINE M == Glued(L)
<1>1. /\ M \in Seq(Entry) /\ Len(M) = Len(L) /\ M # <<>>
      /\ Len(L) \in Nat \ {0} /\ M[Len(M)] = Garbled
  BY GluedSeq
<1> HIDE DEF M
<1>2. /\ Glued(M) \in Seq(Entry) /\ Len(Glued(M)) = Len(M)
      /\ \A j \in 1 .. Len(M) : j # Len(M) => Glued(M)[j] = M[j]
      /\ Glued(M)[Len(M)] = Garbled
  BY <1>1, GluedSeq
<1>3. \A j \in 1 .. Len(Glued(M)) : Glued(M)[j] = M[j]
  BY <1>1, <1>2
<1> QED
  BY <1>1, <1>2, <1>3, SeqEqual DEF M

(* A process about to append has an event that is safe to append. *)
LEMMA StampedSafe ==
    ASSUME TypeInv, PendingSafe, NEW p \in Procs, pc[p] = "decided",
           NEW e \in Lines(p)
    PROVE  /\ e.kind \in AcquireKinds /\ Sighted(e) => AcquireSafe(ledger, clock, e)
           /\ e.kind = "claim_renewed" /\ Sighted(e) => RenewSafe(ledger, clock, e.claim)
<1>1. /\ e.kind = op[p].kind /\ e.claim = op[p].claim
      /\ e.ws = op[p].ws /\ e.paths = op[p].paths
      /\ Sighted(e) <=> Sighted(op[p])
  BY StampedEvent
<1> QED
  BY <1>1 DEF PendingSafe, AcquireSafe

(* Whatever is written, the ledger and what it may shrink to are exclusive. *)
LEMMA WriteExclusive ==
    ASSUME TypeInv, ExclusiveInv, NEW p \in Procs, pc[p] = "decided",
           \/ \E e \in Lines(p) : ledger' = Written(e)
           \/ tail = "clean" /\ ledger' = Append(ledger, Garbled)
    PROVE  Exclusive(ledger', clock) /\ Exclusive(Glued(ledger'), clock)
<1>1. ledger \in Seq(Entry) /\ clock \in Nat
  BY DEF TypeInv, TypeOK, Entry
<1>2. Exclusive(Append(ledger, Garbled), clock)
  <2>1. Garbled \in Entry /\ Garbled.kind = "garbled"
    BY DEF Entry, Garbled
  <2> QED BY <1>1, <2>1, AppendExclusive DEF ExclusiveInv, AcquireKinds
<1>3. ASSUME NEW e \in Lines(p), ledger' = Append(ledger, e)
      PROVE  Exclusive(ledger', clock) /\ Exclusive(Glued(ledger'), clock)
  <2>1. e \in Entry
    BY StampedEvent
  <2>2. /\ e.kind \in AcquireKinds /\ Sighted(e) => AcquireSafe(ledger, clock, e)
        /\ e.kind = "claim_renewed" /\ Sighted(e) => RenewSafe(ledger, clock, e.claim)
    BY StampedSafe DEF ExclusiveInv
  <2>3. Exclusive(Append(ledger, e), clock)
    BY <1>1, <2>1, <2>2, AppendExclusive DEF ExclusiveInv
  <2>4. Glued(Append(ledger, e)) = Append(ledger, Garbled)
    BY <1>1, <2>1, GluedAppend
  <2> QED BY <1>2, <1>3, <2>3, <2>4
<1>4. CASE ledger' = Append(ledger, Garbled)
  BY <1>1, <1>2, <1>4, GluedAppend, GarbledEntry
<1>5. CASE ledger' = Glued(ledger) /\ tail # "clean"
  <2>1. ledger # <<>>
    BY <1>5 DEF TypeInv, TypeOK
  <2>2. Exclusive(Glued(ledger), clock)
    BY <1>5 DEF ExclusiveInv
  <2> QED BY <1>1, <1>5, <2>1, <2>2, GluedTwice
<1> QED
  BY <1>3, <1>4, <1>5 DEF Written

(* With the lock released nobody has a pending decision. *)
LEMMA LeaveSafe ==
    ASSUME TypeInv, NEW p \in Procs, pc[p] # "idle",
           pc' = [pc EXCEPT ![p] = "idle"] \/ pc' = [pc EXCEPT ![p] = "appended"]
    PROVE  PendingSafe'
<1>1. \A q \in Procs : pc'[q] # "decided"
  BY DEF TypeInv, TypeOK
<1> QED
  BY <1>1 DEF PendingSafe

LEMMA NextExclusive == TypeInv /\ ExclusiveInv /\ [Next]_vars => ExclusiveInv'
<1> SUFFICES ASSUME TypeInv, ExclusiveInv, [Next]_vars PROVE ExclusiveInv'
  OBVIOUS
<1>0. ledger \in Seq(Entry) /\ clock \in Nat
  BY DEF TypeInv, TypeOK, Entry
<1>1. CASE UNCHANGED vars
  BY <1>1 DEF vars, ExclusiveInv, PendingSafe
<1>2. CASE Tick
  <2>1. clock' = clock + 1 /\ UNCHANGED <<ledger, tail, pc, op>>
    BY <1>2 DEF Tick
  <2>2. \A L \in Seq(Entry) : Active(L, clock') \subseteq Active(L, clock)
    BY <1>0, <2>1, ActiveShrinks
  <2>3. \A L \in Seq(Entry) : Exclusive(L, clock) => Exclusive(L, clock')
    BY <2>2 DEF Exclusive
  <2>4. tail # "clean" => Glued(ledger) \in Seq(Entry)
    BY <1>0, GluedSeq DEF TypeInv, TypeOK
  <2>5. Active(ledger, clock') \subseteq Active(ledger, clock)
    BY <1>0, <2>2
  <2>6. PendingSafe'
    BY <2>1, <2>5 DEF ExclusiveInv, PendingSafe, AcquireSafe, RenewSafe
  <2> QED BY <1>0, <2>1, <2>3, <2>4, <2>6 DEF ExclusiveInv
<1>3. ASSUME NEW p \in Procs, Begin(p) PROVE ExclusiveInv'
  <2>1. PICK r : Decided(p, r)
    BY <1>3, BeginDecides DEF TypeInv
  <2>2. pc[p] = "idle" /\ lock = NoProc
    BY <1>3, BeginDecides DEF TypeInv, Enters
  <2>3. /\ UNCHANGED <<ledger, tail, clock>>
        /\ pc' = [pc EXCEPT ![p] = "decided"] /\ op' = [op EXCEPT ![p] = r]
    BY <2>1 DEF Decided, Decide
  <2>4. \A q \in Procs : pc'[q] = "decided" => q = p
    BY <2>2, <2>3, FleetAssumptions DEF TypeInv, TypeOK
  <2>5. r.kind = "claim_renewed" /\ Sighted(r) => RenewSafe(ledger, clock, r.claim)
    <3> SUFFICES ASSUME r.kind = "claim_renewed", Sighted(r),
                        NEW i \in 1 .. Len(ledger), Unended(ledger, i),
                        ledger[i].claim = r.claim,
                        NEW j \in Active(ledger, clock)
                 PROVE  Apart(ledger, i, j)
      BY DEF RenewSafe
    <3>1. PICK k \in Active(ledger, clock) : ledger[k].claim = r.claim
      BY <2>1 DEF Decided
    <3>2. k \in 1 .. Len(ledger) /\ Unended(ledger, k)
      BY DEF Active
    <3>3. k = i
      BY <1>0, <3>1, <3>2, OneHolder
    <3> QED BY <3>1, <3>3 DEF ExclusiveInv, Exclusive, Apart
  <2>6. op'[p] = r
    BY <2>3 DEF TypeInv, TypeOK
  <2>7. PendingSafe'
    BY <2>1, <2>3, <2>4, <2>5, <2>6 DEF PendingSafe, Decided
  <2> QED BY <2>3, <2>7 DEF ExclusiveInv
<1>4. ASSUME NEW p \in Procs, AppendEvent(p) PROVE ExclusiveInv'
  <2>1. Exclusive(ledger', clock) /\ clock' = clock /\ tail' = "clean"
    <3>1. \E e \in Lines(p) : ledger' = Written(e)
      BY <1>4 DEF AppendEvent, Lines
    <3> QED BY <1>4, <3>1, WriteExclusive DEF AppendEvent
  <2>2. PendingSafe'
    BY <1>4, LeaveSafe DEF AppendEvent
  <2> QED BY <2>1, <2>2 DEF ExclusiveInv
<1>5. ASSUME NEW p \in Procs, NEW fault \in TornAppends, AppendTorn(p, fault)
      PROVE  ExclusiveInv'
  <2>1. /\ Exclusive(ledger', clock) /\ Exclusive(Glued(ledger'), clock)
        /\ clock' = clock
    BY <1>5, TornWrites, WriteExclusive DEF AppendTorn
  <2>2. PendingSafe'
    BY <1>5, LeaveSafe DEF AppendTorn, Leave
  <2> QED BY <2>1, <2>2 DEF ExclusiveInv
<1>6. ASSUME NEW p \in Procs,
             AbortBeforeAppend(p) \/ Finish(p) \/ CrashAfterAppend(p)
      PROVE  ExclusiveInv'
  <2>1. UNCHANGED <<ledger, tail, clock>> /\ pc[p] # "idle" /\ Leave(p)
    BY <1>6 DEF AbortBeforeAppend, Finish, CrashAfterAppend
  <2>2. PendingSafe'
    BY <2>1, LeaveSafe DEF Leave
  <2> QED BY <2>1, <2>2 DEF ExclusiveInv
<1>7. ASSUME NEW p \in Procs, FlockFails(p) PROVE ExclusiveInv'
  BY <1>7 DEF FlockFails, ExclusiveInv, PendingSafe
<1> QED
  BY <1>1, <1>2, <1>3, <1>4, <1>5, <1>6, <1>7 DEF Next, Proceed

(* Mutual exclusion of writers: in every reachable state of every instance,  *)
(* with any number of processes failing anywhere in a call and any appends   *)
(* torn, no claim that was granted after a complete replay overlaps an older *)
(* active claim whose conflict the code checks, as long as neither of the    *)
(* two was renewed after an incomplete one.                                  *)
THEOREM WritersExcluded == Spec => []ExclusiveWrite
<1>1. Init => ExclusiveInv
  BY DEF Init, ExclusiveInv, Exclusive, Active, PendingSafe
<1>2. ExclusiveInv => ExclusiveWrite
  BY DEF ExclusiveInv, ExclusiveWrite
<1> QED
  BY InitType, NextType, NextExclusive, <1>1, <1>2, PTL DEF Spec
-----------------------------------------------------------------------------
(* Results and pointer files.  A process past its append has its event in    *)
(* the ledger, and the lines of a ledger that stays readable only grow.      *)

InLedger(c, kinds) ==
    \E i \in 1 .. Len(ledger) : ledger[i].claim = c /\ ledger[i].kind \in kinds

RecordedInv ==
    Intact(ledger) =>
        /\ \A r \in returned : InLedger(r[1], {r[2]})
        /\ \A c \in pointers : InLedger(c, AcquireKinds)
        /\ \A p \in Procs : pc[p] = "appended" => InLedger(op[p].claim, {op[p].kind})

(* A step that leaves every line readable found them readable and kept them. *)
LEMMA LinesKept ==
    ASSUME TypeInv, [Next]_vars, Intact(ledger')
    PROVE  /\ Intact(ledger)
           /\ \A i \in 1 .. Len(ledger) :
                 i \in 1 .. Len(ledger') /\ ledger'[i] = ledger[i]
<1>1. ledger \in Seq(Entry) /\ Len(ledger) \in Nat
  BY LenProperties DEF TypeInv, TypeOK, Entry
<1>2. CASE UNCHANGED ledger
  BY <1>2
<1>3. ASSUME NEW e \in Entry, ledger' = Append(ledger, e)
      PROVE  /\ Intact(ledger)
             /\ \A i \in 1 .. Len(ledger) :
                   i \in 1 .. Len(ledger') /\ ledger'[i] = ledger[i]
  <2>1. \A i \in 1 .. Len(ledger) :
           i \in 1 .. Len(ledger') /\ ledger'[i] = ledger[i]
    BY <1>1, <1>3, AppendSeq
  <2> QED BY <2>1 DEF Intact, Readable
<1>4. CASE ledger' = Glued(ledger) /\ tail # "clean"
  <2>1. ledger # <<>>
    BY <1>4 DEF TypeInv, TypeOK
  <2>2. /\ Len(ledger) \in Nat \ {0} /\ Len(ledger') = Len(ledger)
        /\ ledger'[Len(ledger)] = Garbled
    BY <1>1, <1>4, <2>1, GluedSeq
  <2>3. Len(ledger) \in 1 .. Len(ledger')
    BY <2>2
  <2>4. FALSE
    BY <2>2, <2>3 DEF Intact, Readable, Garbled
  <2> QED BY <2>4
<1>5. \A p \in Procs : pc[p] = "decided" => Lines(p) \subseteq Entry
  BY StampedEvent
<1> QED
  BY <1>2, <1>3, <1>4, <1>5, LedgerStep, GarbledEntry DEF Written

(* What was in the ledger still is. *)
LEMMA RecordKept ==
    ASSUME TypeInv, [Next]_vars, Intact(ledger'), NEW c, NEW kinds, InLedger(c, kinds)
    PROVE  InLedger(c, kinds)'
BY LinesKept DEF InLedger

(* A step that returns nothing and writes no pointer, except for the event   *)
(* of a process that had appended it.                                        *)
LEMMA RecordedKept ==
    ASSUME TypeInv, RecordedInv, [Next]_vars,
           \A r \in returned' : \/ r \in returned
                                \/ \E p \in Procs : /\ pc[p] = "appended"
                                                    /\ r = <<op[p].claim, op[p].kind>>,
           \A c \in pointers' : \/ c \in pointers
                                \/ \E p \in Procs : /\ pc[p] = "appended" /\ c = op[p].claim
                                                    /\ op[p].kind \in AcquireKinds,
           \A p \in Procs : pc'[p] = "appended" =>
                \/ pc[p] = "appended" /\ op'[p] = op[p]
                \/ Intact(ledger') => InLedger(op[p].claim, {op[p].kind})'
    PROVE  RecordedInv'
<1> SUFFICES ASSUME Intact(ledger')
             PROVE  /\ \A r \in returned' : InLedger(r[1], {r[2]})'
                    /\ \A c \in pointers' : InLedger(c, AcquireKinds)'
                    /\ \A p \in Procs : pc'[p] = "appended" =>
                          InLedger(op[p].claim, {op[p].kind})'
  BY DEF RecordedInv, InLedger
<1>1. /\ \A r \in returned : InLedger(r[1], {r[2]})
      /\ \A c \in pointers : InLedger(c, AcquireKinds)
      /\ \A p \in Procs : pc[p] = "appended" => InLedger(op[p].claim, {op[p].kind})
  BY LinesKept DEF RecordedInv
<1>2. ASSUME NEW r \in returned' PROVE InLedger(r[1], {r[2]})'
  <2>1. CASE r \in returned
    BY <1>1, <2>1, RecordKept
  <2>2. ASSUME NEW p \in Procs, pc[p] = "appended", r = <<op[p].claim, op[p].kind>>
        PROVE  InLedger(r[1], {r[2]})'
    <3>1. InLedger(r[1], {r[2]})
      BY <1>1, <2>2
    <3> QED BY <3>1, RecordKept
  <2> QED BY <2>1, <2>2
<1>3. ASSUME NEW c \in pointers' PROVE InLedger(c, AcquireKinds)'
  <2>1. InLedger(c, AcquireKinds)
    BY <1>1, <1>3 DEF InLedger
  <2> QED BY <2>1, RecordKept
<1>4. ASSUME NEW p \in Procs, pc'[p] = "appended"
      PROVE  InLedger(op[p].claim, {op[p].kind})'
  <2>1. CASE pc[p] = "appended" /\ op'[p] = op[p]
    <3>1. PICK c, k : c = op[p].claim /\ k = op[p].kind
      OBVIOUS
    <3>2. InLedger(c, {k})'
      BY <1>1, <2>1, <3>1, RecordKept
    <3> QED BY <2>1, <3>1, <3>2 DEF InLedger
  <2> QED BY <1>4, <2>1
<1> QED
  BY <1>2, <1>3, <1>4

LEMMA NextRecorded == TypeInv /\ RecordedInv /\ [Next]_vars => RecordedInv'
<1> SUFFICES ASSUME TypeInv, RecordedInv, [Next]_vars PROVE RecordedInv'
  OBVIOUS
<1>0. pc \in [Procs -> {"idle", "decided", "appended"}] /\ DOMAIN op = Procs
  BY DEF TypeInv, TypeOK
<1>1. CASE UNCHANGED vars
  BY <1>1, RecordedKept DEF vars
<1>2. CASE Tick
  BY <1>2, RecordedKept DEF Tick
<1>3. ASSUME NEW p \in Procs, Begin(p) PROVE RecordedInv'
  <2>1. PICK r : Decided(p, r)
    BY <1>3, BeginDecides DEF TypeInv
  <2>2. /\ pointers' = pointers /\ returned' = returned
        /\ pc' = [pc EXCEPT ![p] = "decided"] /\ op' = [op EXCEPT ![p] = r]
    BY <2>1 DEF Decided, Decide
  <2>3. \A q \in Procs : pc'[q] = "appended" => pc[q] = "appended" /\ op'[q] = op[q]
    BY <1>0, <2>2
  <2> QED BY <2>2, <2>3, RecordedKept
<1>4. ASSUME NEW p \in Procs, AppendEvent(p) PROVE RecordedInv'
  <2>1. /\ pointers' = pointers /\ returned' = returned /\ op' = op
        /\ pc' = [pc EXCEPT ![p] = "appended"] /\ pc[p] = "decided"
        /\ \E e \in Lines(p) : ledger' = Written(e)
    BY <1>4 DEF AppendEvent, Lines
  <2>2. ledger \in Seq(Entry) /\ Len(ledger) \in Nat
    BY LenProperties DEF TypeInv, TypeOK, Entry
  <2>3. ASSUME Intact(ledger') PROVE InLedger(op[p].claim, {op[p].kind})'
    <3>0. PICK e \in Lines(p) : ledger' = Written(e)
      BY <2>1
    <3>1. e \in Entry /\ e.kind = op[p].kind /\ e.claim = op[p].claim
      BY <2>1, StampedEvent
    <3>2. tail = "clean"
      <4> SUFFICES ASSUME tail # "clean" PROVE FALSE
        OBVIOUS
      <4>1. ledger' = Glued(ledger) /\ ledger # <<>>
        BY <3>0 DEF Written, TypeInv, TypeOK
      <4>2. /\ Len(ledger) \in Nat \ {0} /\ Len(ledger') = Len(ledger)
            /\ ledger'[Len(ledger)] = Garbled
        BY <2>2, <4>1, GluedSeq
      <4>3. Len(ledger) \in 1 .. Len(ledger')
        BY <4>2
      <4> QED BY <2>3, <4>2, <4>3 DEF Intact, Readable, Garbled
    <3>3. ledger' = Append(ledger, e)
      BY <3>0, <3>2 DEF Written
    <3>4. /\ Len(ledger) + 1 \in 1 .. Len(ledger')
          /\ ledger'[Len(ledger) + 1] = e
      BY <2>2, <3>1, <3>3, AppendSeq
    <3> QED BY <2>1, <3>1, <3>4 DEF InLedger
  <2>4. \A q \in Procs : q # p => pc'[q] = pc[q]
    BY <1>0, <2>1
  <2> QED BY <2>1, <2>3, <2>4, RecordedKept
<1>5. ASSUME NEW p \in Procs,
             (\E fault \in TornAppends : AppendTorn(p, fault)) \/ AbortBeforeAppend(p)
      PROVE  RecordedInv'
  <2>1. pointers' = pointers /\ returned' = returned /\ Leave(p)
    BY <1>5 DEF AppendTorn, AbortBeforeAppend
  <2>2. \A q \in Procs : pc'[q] = "appended" => pc[q] = "appended" /\ op'[q] = op[q]
    BY <1>0, <2>1 DEF Leave
  <2> QED BY <2>1, <2>2, RecordedKept
<1>6. ASSUME NEW p \in Procs, Finish(p) \/ CrashAfterAppend(p) PROVE RecordedInv'
  <2>1. /\ pc[p] = "appended" /\ Leave(p) /\ MaintainPointer(op[p])
        /\ returned' \subseteq returned \cup {<<op[p].claim, op[p].kind>>}
    BY <1>6 DEF Finish, CrashAfterAppend
  <2>2. \A q \in Procs : pc'[q] = "appended" => pc[q] = "appended" /\ op'[q] = op[q]
    BY <1>0, <2>1 DEF Leave
  <2>3. \A c \in pointers' : \/ c \in pointers
                             \/ c = op[p].claim /\ op[p].kind \in AcquireKinds
    <3>1. CASE op[p].kind \in AcquireKinds
      BY <2>1, <3>1 DEF MaintainPointer, AcquireKinds, TerminalKinds
    <3>2. CASE op[p].kind \notin AcquireKinds
      BY <2>1, <3>2 DEF MaintainPointer, AcquireKinds, TerminalKinds
    <3> QED BY <3>1, <3>2
  <2> QED BY <2>1, <2>2, <2>3, RecordedKept
<1>7. ASSUME NEW p \in Procs, FlockFails(p) PROVE RecordedInv'
  BY <1>7, RecordedKept DEF FlockFails
<1> QED
  BY <1>1, <1>2, <1>3, <1>4, <1>5, <1>6, <1>7 DEF Next, Proceed

LEMMA InitRecorded == Init => RecordedInv
BY DEF Init, RecordedInv

(* No call reports success for an event that is not in the ledger, wherever  *)
(* it or another call fails: the result is built after _append_event         *)
(* returned, and no later append removes a readable line.                    *)
THEOREM ResultsAreRecorded == Spec => []ResultsRecorded
<1>1. RecordedInv => ResultsRecorded
  BY DEF RecordedInv, ResultsRecorded, InLedger
<1> QED
  BY InitType, NextType, InitRecorded, NextRecorded, <1>1, PTL DEF Spec

(* No pointer file names a claim that was never recorded, wherever a process *)
(* dies: the pointer is written after the append of the acquiring event.     *)
THEOREM PointersAreRecorded == Spec => []PointerRecorded
<1>1. RecordedInv => PointerRecorded
  BY DEF RecordedInv, PointerRecorded, InLedger
<1> QED
  BY InitType, NextType, InitRecorded, NextRecorded, <1>1, PTL DEF Spec

-----------------------------------------------------------------------------
(* A claim that is not active stays so.  Hypothesis: no append stops exactly *)
(* before the newline.  Otherwise the next line is glued to the unterminated *)
(* one, and a release that readers had already seen is lost again.           *)

NoLineIsLost == "unterminated" \notin Faults

(* A file that does not end with a newline ends with a garbled line, so that *)
(* gluing the next one to it changes nothing.                                *)
TailGarbled ==
    /\ tail \in {"clean", "partial"}
    /\ tail = "partial" => ledger # <<>> /\ ledger[Len(ledger)] = Garbled

(* Nobody has decided to write an event of the claim, except on a part of    *)
(* the ledger that shows it as it was.                                       *)
Over(c) ==
    /\ c \in issued
    /\ \/ BlindlyRenewed(c)
       \/ /\ ~ClaimActive(c)
          /\ \A p \in Procs : pc[p] = "decided" /\ op[p].claim = c =>
                op[p].kind \notin AcquireKinds /\ ~Sighted(op[p])

LEMMA GluedGarbled ==
    ASSUME NEW L \in Seq(Entry), L # <<>>, L[Len(L)] = Garbled
    PROVE  Glued(L) = L
<1>1. /\ Glued(L) \in Seq(Entry) /\ Len(Glued(L)) = Len(L)
      /\ \A j \in 1 .. Len(L) : j # Len(L) => Glued(L)[j] = L[j]
      /\ Glued(L)[Len(L)] = Garbled
  BY GluedSeq
<1>2. \A j \in 1 .. Len(Glued(L)) : Glued(L)[j] = L[j]
  BY <1>1
<1> QED
  BY <1>1, <1>2, SeqEqual

(* An event of another claim, or one that is no lease, makes no claim active. *)
LEMMA AppendKeepsOver ==
    ASSUME NEW L \in Seq(Entry), NEW e \in Entry, NEW t \in Nat, NEW c,
           e.claim # c \/ e.kind \notin LeaseKinds,
           \A i \in Active(L, t) : L[i].claim # c
    PROVE  \A i \in Active(Append(L, e), t) : Append(L, e)[i].claim # c
<1> SUFFICES ASSUME NEW i \in Active(Append(L, e), t)
             PROVE  Append(L, e)[i].claim # c
  OBVIOUS
<1>1. /\ Len(Append(L, e)) = Len(L) + 1 /\ Len(L) \in Nat
      /\ Append(L, e)[Len(L) + 1] = e
  BY AppendSeq, LenProperties
<1>2. i \in 1 .. Len(Append(L, e)) /\ Append(L, e)[i].kind \in AcquireKinds
  BY DEF Active, Unended
<1>3. CASE i = Len(L) + 1
  BY <1>1, <1>2, <1>3 DEF LeaseKinds
<1>4. CASE i \in 1 .. Len(L)
  <2>1. /\ Append(L, e)[i] = L[i]
        /\ i \in Active(L, t) \/ (e.kind = "claim_renewed" /\ L[i].claim = e.claim)
    BY <1>4, ActiveAppend
  <2> QED BY <2>1 DEF LeaseKinds
<1> QED
  BY <1>1, <1>2, <1>3, <1>4

LEMMA NextTail ==
    ASSUME NoLineIsLost, TypeInv, TailGarbled, [Next]_vars
    PROVE  TailGarbled'
<1>1. ledger \in Seq(Entry) /\ Len(ledger) \in Nat
  BY LenProperties DEF TypeInv, TypeOK, Entry
<1>2. CASE UNCHANGED <<ledger, tail>>
  BY <1>2 DEF TailGarbled
<1>3. ASSUME NEW p \in Procs, AppendEvent(p) PROVE TailGarbled'
  BY <1>3 DEF AppendEvent, TailGarbled
<1>4. ASSUME NEW p \in Procs, NEW fault \in TornAppends, AppendTorn(p, fault)
      PROVE  TailGarbled'
  <2>1. fault = "partial"
    BY DEF NoLineIsLost, TornAppends
  <2>2. CASE tail = "clean"
    <3>1. ledger' = Append(ledger, Garbled) /\ tail' = "partial"
      BY <1>4, <2>1, <2>2 DEF AppendTorn
    <3>2. /\ Append(ledger, Garbled) # <<>>
          /\ Append(ledger, Garbled)[Len(Append(ledger, Garbled))] = Garbled
      BY <1>1, AppendSeq, GarbledEntry, LenProperties
    <3> QED BY <3>1, <3>2 DEF TailGarbled
  <2>3. CASE tail # "clean"
    <3>1. ledger' = Glued(ledger) /\ tail' = "partial"
      BY <1>4, <2>3 DEF AppendTorn, Written
    <3>2. Glued(ledger) = ledger
      BY <1>1, <2>3, GluedGarbled DEF TailGarbled
    <3> QED BY <2>3, <3>1, <3>2 DEF TailGarbled
  <2> QED BY <2>2, <2>3
<1>5. ASSUME NEW p \in Procs, Begin(p) PROVE TailGarbled'
  BY <1>2, <1>5, BeginDecides DEF TypeInv, Decided, Decide
<1> QED
  BY <1>2, <1>3, <1>4, <1>5
  DEF Next, Proceed, Tick, FlockFails, AbortBeforeAppend, Finish, CrashAfterAppend, vars

(* A renewal that is in the ledger stays there. *)
LEMMA BlindStays ==
    ASSUME TypeInv, TailGarbled, [Next]_vars, NEW c, BlindlyRenewed(c)
    PROVE  BlindlyRenewed(c)'
<1>1. ledger \in Seq(Entry)
  BY DEF TypeInv, TypeOK, Entry
<1>2. \A p \in Procs : pc[p] = "decided" => Lines(p) \subseteq Entry
  BY StampedEvent
<1>3. UNCHANGED ledger \/ \E e \in Entry : ledger' = Append(ledger, e)
  BY <1>1, <1>2, LedgerStep, GluedGarbled, GarbledEntry DEF Written, TailGarbled
<1>4. \A i \in 1 .. Len(ledger) : i \in 1 .. Len(ledger') /\ ledger'[i] = ledger[i]
  BY <1>1, <1>3, AppendSeq, LenProperties
<1> QED
  BY <1>4 DEF BlindlyRenewed

LEMMA NextOver ==
    ASSUME TypeInv, TailGarbled, [Next]_vars, NEW c \in Claims, Over(c)
    PROVE  Over(c)'
<1>0. issued \subseteq issued'
  <2>1. \A p \in Procs : Begin(p) => issued \subseteq issued'
    BY BeginDecides DEF TypeInv, Decided
  <2> QED BY <2>1 DEF Next, Proceed, Tick, FlockFails, AppendEvent, AppendTorn,
             AbortBeforeAppend, Finish, CrashAfterAppend, vars
<1>1. ledger \in Seq(Entry) /\ clock \in Nat
  BY DEF TypeInv, TypeOK, Entry
<1> SUFFICES ASSUME ~BlindlyRenewed(c)
             PROVE  \/ BlindlyRenewed(c)'
                    \/ /\ ~ClaimActive(c)'
                       /\ \A p \in Procs : pc'[p] = "decided" /\ op'[p].claim = c =>
                             op'[p].kind \notin AcquireKinds /\ ~Sighted(op'[p])
  BY <1>0, BlindStays DEF Over, Sighted
<1> DEFINE Ended == /\ ~ClaimActive(c)'
                    /\ \A p \in Procs : pc'[p] = "decided" /\ op'[p].claim = c =>
                          op'[p].kind \notin AcquireKinds /\ ~Sighted(op'[p])
<1>2. CASE UNCHANGED vars
  BY <1>2 DEF vars, Over, ClaimActive
<1>3. CASE Tick
  <2>1. clock' = clock + 1 /\ UNCHANGED <<ledger, issued, pc, op>>
    BY <1>3 DEF Tick
  <2>2. Active(ledger, clock') \subseteq Active(ledger, clock)
    BY <1>1, <2>1, ActiveShrinks
  <2> QED BY <2>1, <2>2 DEF Over, ClaimActive
<1>4. ASSUME NEW p \in Procs, Begin(p) PROVE Ended
  <2>1. PICK r : Decided(p, r)
    BY <1>4, BeginDecides DEF TypeInv
  <2>2. /\ UNCHANGED <<ledger, clock>>
        /\ pc' = [pc EXCEPT ![p] = "decided"] /\ op' = [op EXCEPT ![p] = r]
    BY <2>1 DEF Decided, Decide
  <2>3. r.claim = c => r.kind \notin AcquireKinds /\ ~Sighted(r)
    BY <2>1 DEF Decided, Over, ClaimActive
  <2>4. \A q \in Procs : pc'[q] = "decided" /\ op'[q].claim = c =>
           op'[q].kind \notin AcquireKinds /\ ~Sighted(op'[q])
    BY <2>2, <2>3 DEF Over, TypeInv, TypeOK
  <2>5. ~ClaimActive(c)'
    BY <2>2 DEF Over, ClaimActive
  <2> QED BY <2>4, <2>5
<1>5. ASSUME NEW p \in Procs, pc[p] = "decided", UNCHANGED <<clock, issued>>,
             pc' = [pc EXCEPT ![p] = "idle"] \/ pc' = [pc EXCEPT ![p] = "appended"],
             \/ \E e \in Lines(p) : ledger' = Written(e)
             \/ ledger' = Append(ledger, Garbled)
      PROVE  BlindlyRenewed(c)' \/ Ended
  <2>1. \A q \in Procs : pc'[q] # "decided"
    BY <1>5 DEF TypeInv, TypeOK
  <2>2. \A i \in Active(ledger, clock) : ledger[i].claim # c
    BY DEF Over, ClaimActive
  <2>3. CASE ledger' = ledger
    BY <1>5, <2>1, <2>2, <2>3 DEF ClaimActive
  <2>4. ASSUME NEW e \in Entry, e.claim # c \/ e.kind \notin LeaseKinds,
               ledger' = Append(ledger, e)
        PROVE  Ended
    <3>1. \A i \in Active(Append(ledger, e), clock) : Append(ledger, e)[i].claim # c
      BY <1>1, <2>2, <2>4, AppendKeepsOver
    <3>2. ~ClaimActive(c)'
      BY <1>5, <2>4, <3>1 DEF ClaimActive
    <3> QED BY <2>1, <3>2
  <2>5. ASSUME NEW e \in Lines(p), e.claim = c, e.kind \in LeaseKinds,
               ledger' = Append(ledger, e)
        PROVE  BlindlyRenewed(c)'
    <3>1. /\ e \in Entry /\ e.kind = op[p].kind /\ e.claim = op[p].claim
          /\ Sighted(e) <=> Sighted(op[p])
      BY <1>5, StampedEvent
    <3>2. e.kind = "claim_renewed" /\ "replay" \in e.missed
      BY <1>5, <2>5, <3>1 DEF Over, LeaseKinds, Sighted
    <3>3. Len(ledger) + 1 \in 1 .. Len(ledger') /\ ledger'[Len(ledger) + 1] = e
      BY <1>1, <2>5, <3>1, AppendSeq, LenProperties
    <3> QED BY <2>5, <3>2, <3>3 DEF BlindlyRenewed
  <2>6. Garbled \in Entry /\ Garbled.kind \notin LeaseKinds
    BY GarbledEntry DEF Garbled, LeaseKinds, AcquireKinds
  <2>7. Lines(p) \subseteq Entry
    BY <1>5, StampedEvent
  <2>8. tail # "clean" => Glued(ledger) = ledger
    BY <1>1, GluedGarbled DEF TailGarbled
  <2> QED BY <1>5, <2>3, <2>4, <2>5, <2>6, <2>7, <2>8 DEF Written
<1>6. ASSUME NEW p \in Procs, AppendEvent(p) PROVE BlindlyRenewed(c)' \/ Ended
  <2>1. \E e \in Lines(p) : ledger' = Written(e)
    BY <1>6 DEF AppendEvent, Lines
  <2> QED BY <1>5, <1>6, <2>1 DEF AppendEvent
<1>7. ASSUME NEW p \in Procs, NEW fault \in TornAppends, AppendTorn(p, fault)
      PROVE  BlindlyRenewed(c)' \/ Ended
  BY <1>5, <1>7, TornWrites DEF AppendTorn, Leave
<1>8. ASSUME NEW p \in Procs,
             AbortBeforeAppend(p) \/ Finish(p) \/ CrashAfterAppend(p)
      PROVE  Ended
  <2>1. /\ UNCHANGED <<ledger, clock, issued>> /\ pc[p] # "idle"
        /\ pc' = [pc EXCEPT ![p] = "idle"]
    BY <1>8 DEF AbortBeforeAppend, Finish, CrashAfterAppend, Leave
  <2>2. \A q \in Procs : pc'[q] # "decided"
    BY <2>1 DEF TypeInv, TypeOK
  <2> QED BY <2>1, <2>2 DEF Over, ClaimActive
<1>9. ASSUME NEW p \in Procs, FlockFails(p) PROVE Ended
  BY <1>9 DEF FlockFails, Over, ClaimActive
<1> QED
  BY <1>2, <1>3, <1>4, <1>6, <1>7, <1>8, <1>9 DEF Next, Proceed

LEMMA ClaimStaysOver ==
    ASSUME NoLineIsLost, NEW c \in Claims
    PROVE  Spec => [](c \in issued /\ LockFree /\ ~ClaimActive(c)
                         => [](ClaimActive(c) => BlindlyRenewed(c)))
<1>1. Init => TailGarbled
  BY DEF Init, TailGarbled
<1>2. TypeInv /\ TailGarbled /\ [Next]_vars => TailGarbled'
  BY NextTail
<1>3. TypeInv /\ TailGarbled /\ [Next]_vars /\ Over(c) => Over(c)'
  BY NextOver
<1>4. TypeInv /\ c \in issued /\ LockFree /\ ~ClaimActive(c) => Over(c)
  BY FleetAssumptions DEF LockFree, Over, TypeInv, TypeOK
<1>5. Over(c) => (ClaimActive(c) => BlindlyRenewed(c))
  BY DEF Over
<1> QED
  BY <1>1, <1>2, <1>3, <1>4, <1>5, InitType, NextType, PTL DEF Spec

(* Released, parked, integrated and expired claims do not come back: once    *)
(* the lock is free and an issued claim is not active it is never active     *)
(* again, whatever calls are made, fail, die or write half a line; unless    *)
(* somebody renews it after reading only a part of the ledger.               *)
THEOREM ClaimsStayOver == NoLineIsLost => (Spec => NoResurrection)
BY ClaimStaysOver DEF NoResurrection

=============================================================================

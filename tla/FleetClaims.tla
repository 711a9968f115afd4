---------------------------- MODULE FleetClaims ----------------------------
(***************************************************************************)
(* FleetClaimStore: exclusive-write claims on repository paths, kept in an *)
(* append-only JSONL ledger that several agent processes share.  A caller  *)
(* takes the store's locks, replays the ledger, decides, appends one       *)
(* event, maintains a pointer file and returns; it may fail or die between *)
(* any two of these steps, the append itself may be torn, and an error     *)
(* while the ledger is read is passed over: the call goes on with what it  *)
(* has.                                                                    *)
(*                                                                         *)
(* A call that only reads, or that is refused without an event, changes no *)
(* state and is a stuttering step.                                         *)
(***************************************************************************)
EXTENDS Integers, FiniteSets, CoordinationPaths

CONSTANTS
    Procs,        \* threads that call a FleetClaimStore
    Stores,       \* FleetClaimStore objects, each with its own thread lock
    StoreOf,      \* the store each thread uses; a process may have one for all
    Claims,       \* claim ids uuid4 may produce
    Authorities,  \* workspace authority ids
    RawPathSets,  \* path lists a caller may claim, before normalisation
    Bases,        \* base_sha256_by_path values: functions from paths to hashes
    TTLs,         \* ttl_seconds values, in clock units
    Calls,        \* the operations the processes of this instance call
    Faults,       \* what may go wrong: see TornAppends, Replays, Misses, FlockFails
    MaxClock,     \* bound on the clock
    MaxEvents,    \* bound on the ledger's length
    MaxMissed,    \* bound on the readings of the ledger that fail
    NoProc, NoClaim

Operations ==
    {"acquire_claim", "acquire_workspace_claim", "renew_claim", "start_editing",
     "record_tests_completed", "mark_ready_for_integration",
     "accept_integration", "release_claim", "release_workspace_claim",
     "park_work"}

ASSUME FleetAssumptions ==
    /\ TTLs \subseteq Nat
    /\ MaxClock \in Nat /\ MaxEvents \in Nat /\ MaxMissed \in Nat
    /\ StoreOf \in [Procs -> Stores]
    /\ Calls \subseteq Operations
    /\ Faults \subseteq {"partial", "unterminated", "replay", "sequence",
                         "digest", "flock"}
    /\ NoProc \notin Procs /\ NoClaim \notin Claims

VARIABLES
    ledger,    \* lines of coordination_events.v1.jsonl
    tail,      \* "clean" when the file ends with a newline
    thread,    \* per store: the holder of _thread_lock, or NoProc
    lock,      \* the holder of the flock, inside _acquire .. _release, or NoProc
    pc,        \* per process: "idle", "decided" (event built), "appended"
    op,        \* per process: the event it is about to append or has appended
    clock,     \* datetime.now(UTC)
    pointers,  \* claims with a file claims/<claim_id>.json
    issued,    \* claim ids uuid4 has produced
    returned   \* <<claim, event kind>> of calls that returned acquired=True

vars == <<ledger, tail, thread, lock, pc, op, clock, pointers, issued, returned>>

-----------------------------------------------------------------------------
(* Event kinds. *)

AcquireKinds  == {"claim_acquired", "workspace_claim_acquired"}
LeaseKinds    == AcquireKinds \cup {"claim_renewed"}
TerminalKinds == {"claim_released", "work_parked", "workspace_claim_released"}
EndKinds      == TerminalKinds \cup {"integration_accepted"}
StageKinds    == {"edit_started", "tests_completed", "ready_for_integration",
                  "integration_refused_stale_base"}
Kinds         == LeaseKinds \cup EndKinds \cup StageKinds
                            \cup {"claim_refused_conflict"}

(* A line that json.loads rejects; every reader skips it. *)
Garbled == [kind |-> "garbled", claim |-> NoClaim, seq |-> 0]

Readable(L, i) == L[i].kind # "garbled"

-----------------------------------------------------------------------------
(* Path lists, as sets. *)

Normalized(raws) == {normalize_path(raw) : raw \in raws}

(* Equal, descendant or ancestor. *)
PathsConflict(proposed, existing) ==
    \E p \in proposed, e \in existing : IsPathPrefix(p, e) \/ IsPathPrefix(e, p)

-----------------------------------------------------------------------------
(* Replay.  A claim is identified by the index of its acquiring event. *)

SameClaim(L, i, j) == L[j].claim = L[i].claim

Unended(L, i) ==
    /\ L[i].kind \in AcquireKinds
    /\ \A j \in (i + 1) .. Len(L) :
          SameClaim(L, i, j) => L[j].kind \notin AcquireKinds \cup EndKinds

(* The last event that sets the expiry of claim i sets it beyond t. *)
Unexpired(L, i, t) ==
    \E k \in i .. Len(L) :
        /\ SameClaim(L, i, k) /\ L[k].kind \in LeaseKinds
        /\ L[k].ts + L[k].ttl > t
        /\ \A j \in (k + 1) .. Len(L) :
              SameClaim(L, i, j) => L[j].kind \notin LeaseKinds

Active(L, t) == {i \in 1 .. Len(L) : Unended(L, i) /\ Unexpired(L, i, t)}

ActiveIn(L, t, ws) == {i \in Active(L, t) : L[i].ws = ws}

(* ClaimState.claimed: no stage event since the claim was acquired or renewed. *)
InClaimedState(L, i) ==
    \E k \in i .. Len(L) :
        /\ SameClaim(L, i, k) /\ L[k].kind \in LeaseKinds
        /\ \A j \in (k + 1) .. Len(L) :
              SameClaim(L, i, j) => L[j].kind \notin StageKinds

-----------------------------------------------------------------------------
(* Appending. *)

(* Mutant: the number after the last line's, 0 if that does not parse. *)
NextSequence_AfterLast(L, missed) ==
    1 + (IF L = <<>> \/ "sequence" \in missed THEN 0 ELSE L[Len(L)].seq)

(* An OSError while the numbers are read is swallowed: the number is 1. *)
NextSequence(L, missed) ==
    1 + (IF "sequence" \in missed THEN 0
         ELSE Max({0} \cup {L[i].seq : i \in 1 .. Len(L)}))

(* The digest of the last line, none when there is no line, when it does not *)
(* parse or when an OSError while reading is swallowed.  A digest is         *)
(* represented by the number of the line it covers, none by 0.               *)
LastEventDigest(L, missed) ==
    IF L = <<>> \/ "digest" \in missed \/ L[Len(L)].kind = "garbled" THEN 0
    ELSE Len(L)

(* missed is history and not in the file: which readings of the ledger       *)
(* failed in the call that writes the line.                                  *)
Stamped(e, missed) ==
    [kind |-> e.kind, claim |-> e.claim, ws |-> e.ws, paths |-> e.paths,
     base |-> e.base, ttl |-> e.ttl, ts |-> clock,
     seq |-> NextSequence(ledger, missed), prior |-> LastEventDigest(ledger, missed),
     missed |-> e.missed \cup missed]

(* Bound: how many readings of the ledger have failed so far. *)
Failed ==
    Cardinality({miss \in (1 .. Len(ledger)) \X {"replay", "sequence", "digest"} :
                    /\ Readable(ledger, miss[1])
                    /\ miss[2] \in ledger[miss[1]].missed})

(* The readings that fail in an append, each on its own. *)
Misses(p) ==
    {missed \in SUBSET (Faults \cap {"sequence", "digest"}) :
        Failed + Cardinality(op[p].missed) + Cardinality(missed) <= MaxMissed}

(* What the replay of a call has read when it ends: the ledger or, if an     *)
(* OSError ended it early and was passed over, the lines before the error.   *)
Replays ==
    {SubSeq(ledger, 1, n) : n \in IF "replay" \in Faults /\ Failed < MaxMissed
                                   THEN 0 .. Len(ledger) ELSE {Len(ledger)}}

(* A line written after an unterminated one is glued to it: neither parses. *)
Glued(L) == [L EXCEPT ![Len(L)] = Garbled]

Written(e) == IF tail = "clean" THEN Append(ledger, e) ELSE Glued(ledger)

-----------------------------------------------------------------------------
(* The lock, and the three steps every writing call consists of. *)

(* L is what the call's replay has read. *)
Request(kind, c, ws, paths, base, ttl, L) ==
    [kind |-> kind, claim |-> c, ws |-> ws, paths |-> paths,
     base |-> base, ttl |-> ttl, missed |-> IF L = ledger THEN {} ELSE {"replay"}]

NoRequest == [kind |-> "none", claim |-> NoClaim]

LockFree == lock = NoProc

(* _acquire: the store's thread lock, then the flock.  They are taken in one *)
(* step: a thread that waits for the flock only makes the others of its      *)
(* store wait too.  The replay that follows sees this state.                 *)
Enter(p, call) ==
    /\ call \in Calls
    /\ pc[p] = "idle" /\ thread[StoreOf[p]] = NoProc /\ LockFree
    /\ Len(ledger) < MaxEvents
    /\ thread' = [thread EXCEPT ![StoreOf[p]] = p]
    /\ lock' = p

(* flock raises, with or without having waited, after the thread lock was    *)
(* taken.  _acquire is called outside the callers' try: nobody releases the  *)
(* thread lock again.                                                        *)
FlockFails(p) ==
    /\ "flock" \in Faults
    /\ pc[p] = "idle" /\ thread[StoreOf[p]] = NoProc
    /\ thread' = [thread EXCEPT ![StoreOf[p]] = p]
    /\ UNCHANGED <<ledger, tail, lock, pc, op, clock, pointers, issued, returned>>

(* Mutant: the pointer file is written before the event is appended. *)
Decide_PointerFirst(p, request) ==
    /\ pc' = [pc EXCEPT ![p] = "decided"]
    /\ op' = [op EXCEPT ![p] = request]
    /\ pointers' = IF request.kind \in AcquireKinds
                     THEN pointers \cup {request.claim} ELSE pointers
    /\ UNCHANGED <<ledger, tail, clock, returned>>

Decide(p, request) ==
    /\ pc' = [pc EXCEPT ![p] = "decided"]
    /\ op' = [op EXCEPT ![p] = request]
    /\ UNCHANGED <<ledger, tail, clock, pointers, returned>>

(* Mutant: a path out of the call misses the finally clause. *)
Leave_StillLocked(p) ==
    /\ pc' = [pc EXCEPT ![p] = "idle"]
    /\ op' = [op EXCEPT ![p] = NoRequest]
    /\ UNCHANGED <<thread, lock>>

(* _release, in the finally clause or by the death of the process. *)
Leave(p) ==
    /\ pc' = [pc EXCEPT ![p] = "idle"]
    /\ op' = [op EXCEPT ![p] = NoRequest]
    /\ lock' = NoProc
    /\ thread' = [thread EXCEPT ![StoreOf[p]] = NoProc]

(* _append_event: the event is stamped and written by one append. *)
AppendEvent(p) ==
    /\ pc[p] = "decided"
    /\ \E missed \in Misses(p) : ledger' = Written(Stamped(op[p], missed))
    /\ tail' = "clean"
    /\ pc' = [pc EXCEPT ![p] = "appended"]
    /\ UNCHANGED <<thread, lock, op, clock, pointers, issued, returned>>

(* The append stops before the newline, by a full disk or by a crash: part of *)
(* the line is in the file, or all of it but the newline.                     *)
TornAppends == Faults \cap {"partial", "unterminated"}

AppendTorn(p, fault) ==
    /\ pc[p] = "decided"
    /\ \E missed \in Misses(p) :
          ledger' = IF tail = "clean" /\ fault = "partial"
                      THEN Append(ledger, Garbled)
                      ELSE Written(Stamped(op[p], missed))
    /\ tail' = IF tail = "clean" THEN fault ELSE "partial"
    /\ Leave(p)
    /\ UNCHANGED <<clock, pointers, issued, returned>>

(* Mutant: the error of the append is swallowed, as the pointer's is. *)
AbortBeforeAppend_Swallowed(p) ==
    /\ pc[p] = "decided"
    /\ pc' = [pc EXCEPT ![p] = "appended"]
    /\ UNCHANGED <<ledger, tail, thread, lock, op, clock, pointers, issued, returned>>

(* Validation, opening the file or the process itself fails before the write. *)
AbortBeforeAppend(p) ==
    /\ pc[p] = "decided"
    /\ Leave(p)
    /\ UNCHANGED <<ledger, tail, clock, pointers, issued, returned>>

(* The pointer file is written for a new claim and removed for a released or *)
(* parked one; an OSError is swallowed.                                      *)
MaintainPointer(e) ==
    \/ pointers' = CASE e.kind \in AcquireKinds  -> pointers \cup {e.claim}
                     [] e.kind \in TerminalKinds -> pointers \ {e.claim}
                     [] OTHER                    -> pointers
    \/ UNCHANGED pointers

RefusalKinds == {"claim_refused_conflict", "integration_refused_stale_base"}

Finish(p) ==
    /\ pc[p] = "appended"
    /\ MaintainPointer(op[p])
    /\ returned' = IF op[p].kind \in RefusalKinds THEN returned
                   ELSE returned \cup {<<op[p].claim, op[p].kind>>}
    /\ Leave(p)
    /\ UNCHANGED <<ledger, tail, clock, issued>>

CrashAfterAppend(p) ==
    /\ pc[p] = "appended"
    /\ MaintainPointer(op[p])
    /\ Leave(p)
    /\ UNCHANGED <<ledger, tail, clock, issued, returned>>

-----------------------------------------------------------------------------
(* Operations. *)

(* Every operation decides on L, which its replay has read; existing is what *)
(* it compares with.  A refusal event carries a claim id of its own, which   *)
(* no claim ever has.                                                        *)
Acquire(p, L, kind, ws, paths, base, ttl, existing) ==
    \/ /\ \E i \in existing : PathsConflict(paths, L[i].paths)
       /\ Decide(p, Request("claim_refused_conflict", NoClaim, ws, paths, base, ttl, L))
       /\ UNCHANGED issued
    \/ /\ \A i \in existing : ~PathsConflict(paths, L[i].paths)
       /\ \E c \in Claims \ issued :
            /\ issued' = issued \cup {c}
            /\ Decide(p, Request(kind, c, ws, paths, base, ttl, L))

acquire_claim(p, L, ws, raws, base, ttl) ==
    /\ Enter(p, "acquire_claim")
    /\ Acquire(p, L, "claim_acquired", ws, Normalized(raws), base, ttl,
               ActiveIn(L, clock, ws))

(* Mutant: only the caller's own authority is searched for conflicts. *)
acquire_workspace_claim_OwnAuthority(p, L, ws, raws, base, ttl) ==
    /\ Enter(p, "acquire_workspace_claim")
    /\ Acquire(p, L, "workspace_claim_acquired", ws, Normalized(raws), base, ttl,
               ActiveIn(L, clock, ws))

acquire_workspace_claim(p, L, ws, raws, base, ttl) ==
    /\ Enter(p, "acquire_workspace_claim")
    /\ Acquire(p, L, "workspace_claim_acquired", ws, Normalized(raws), base, ttl,
               Active(L, clock))

(* An event about the claim acquired at index i copies the claim's fields. *)
About(p, L, i, kind, ttl) ==
    /\ Decide(p, Request(kind, L[i].claim, L[i].ws, L[i].paths,
                         L[i].base, ttl, L))
    /\ UNCHANGED issued

(* Mutant: an expired claim may be renewed. *)
renew_claim_Expired(p, L, i, ttl) ==
    /\ Enter(p, "renew_claim")
    /\ Unended(L, i)
    /\ About(p, L, i, "claim_renewed", ttl)

renew_claim(p, L, i, ttl) ==
    /\ Enter(p, "renew_claim")
    /\ i \in Active(L, clock)
    /\ About(p, L, i, "claim_renewed", ttl)

start_editing(p, L, i) ==
    /\ Enter(p, "start_editing")
    /\ i \in Active(L, clock)
    /\ InClaimedState(L, i)
    /\ About(p, L, i, "edit_started", 0)

record_tests_completed(p, L, i) ==
    /\ Enter(p, "record_tests_completed")
    /\ i \in Active(L, clock)
    /\ About(p, L, i, "tests_completed", 0)

mark_ready_for_integration(p, L, i) ==
    /\ Enter(p, "mark_ready_for_integration")
    /\ i \in Active(L, clock)
    /\ About(p, L, i, "ready_for_integration", 0)

StaleBase(base, current) ==
    \E path \in DOMAIN base :
        path \notin DOMAIN current \/ current[path] # base[path]

accept_integration(p, L, i, current) ==
    /\ Enter(p, "accept_integration")
    /\ i \in Active(L, clock)
    /\ About(p, L, i, IF StaleBase(L[i].base, current)
                     THEN "integration_refused_stale_base"
                     ELSE "integration_accepted", 0)

release_claim(p, L, i) ==
    /\ Enter(p, "release_claim")
    /\ i \in Active(L, clock)
    /\ About(p, L, i, "claim_released", 0)

release_workspace_claim(p, L, i) ==
    /\ Enter(p, "release_workspace_claim")
    /\ i \in Active(L, clock)
    /\ About(p, L, i, "workspace_claim_released", 0)

park_work(p, L, i) ==
    /\ Enter(p, "park_work")
    /\ i \in Active(L, clock)
    /\ About(p, L, i, "work_parked", 0)

Tick ==
    /\ clock < MaxClock
    /\ clock' = clock + 1
    /\ UNCHANGED <<ledger, tail, thread, lock, pc, op, pointers, issued, returned>>

-----------------------------------------------------------------------------
Init ==
    /\ ledger = <<>> /\ tail = "clean"
    /\ lock = NoProc /\ thread = [s \in Stores |-> NoProc]
    /\ pc = [p \in Procs |-> "idle"]
    /\ op = [p \in Procs |-> NoRequest]
    /\ clock = 0
    /\ pointers = {} /\ issued = {} /\ returned = {}

Begin(p) == \E L \in Replays :
    \/ \E ws \in Authorities, raws \in RawPathSets, base \in Bases, ttl \in TTLs :
          \/ acquire_claim(p, L, ws, raws, base, ttl)
          \/ acquire_workspace_claim(p, L, ws, raws, base, ttl)
    \/ \E i \in 1 .. Len(L) :
          \/ \E ttl \in TTLs : renew_claim(p, L, i, ttl)
          \/ \E current \in Bases : accept_integration(p, L, i, current)
          \/ start_editing(p, L, i)
          \/ record_tests_completed(p, L, i)
          \/ mark_ready_for_integration(p, L, i)
          \/ release_claim(p, L, i)
          \/ release_workspace_claim(p, L, i)
          \/ park_work(p, L, i)

(* What a process inside the lock does next; it waits for nobody. *)
Proceed(p) ==
    \/ AppendEvent(p)
    \/ \E fault \in TornAppends : AppendTorn(p, fault)
    \/ AbortBeforeAppend(p)
    \/ Finish(p)
    \/ CrashAfterAppend(p)

Next == Tick \/ \E p \in Procs : Begin(p) \/ FlockFails(p) \/ Proceed(p)

Spec == Init /\ [][Next]_vars

FairSpec == Spec /\ \A p \in Procs : WF_vars(Proceed(p))

-----------------------------------------------------------------------------
(* Properties. *)

(* Only a refusal is not about a claim of the store. *)
AboutClaim(e) == e.kind # "claim_refused_conflict" => e.claim \in Claims

RequestType ==
    {r \in [kind : Kinds, claim : Claims \cup {NoClaim}, ws : Authorities,
            paths : {Normalized(raws) : raws \in RawPathSets}, base : Bases,
            ttl : TTLs \cup {0}, missed : SUBSET {"replay"}] : AboutClaim(r)}

EventType ==
    {e \in [kind : Kinds, claim : Claims \cup {NoClaim}, ws : Authorities,
            paths : {Normalized(raws) : raws \in RawPathSets}, base : Bases,
            ttl : TTLs \cup {0}, ts : Nat, seq : Nat, prior : Nat,
            missed : SUBSET {"replay", "sequence", "digest"}] : AboutClaim(e)}

(* Types, and the locks' bookkeeping: exactly the holder of the flock is     *)
(* inside a call, and it holds the thread lock of its own store as well.     *)
TypeOK ==
    /\ ledger \in Seq(EventType \cup {Garbled})
    /\ tail \in {"clean", "partial", "unterminated"}
    /\ tail # "clean" => ledger # <<>>
    /\ lock \in Procs \cup {NoProc}
    /\ thread \in [Stores -> Procs \cup {NoProc}]
    /\ \A s \in Stores : thread[s] # NoProc => StoreOf[thread[s]] = s
    /\ pc \in [Procs -> {"idle", "decided", "appended"}]
    /\ op \in [Procs -> RequestType \cup {NoRequest}]
    /\ \A p \in Procs : pc[p] # "idle" <=> lock = p
    /\ \A p \in Procs : pc[p] # "idle" => thread[StoreOf[p]] = p
    /\ \A p \in Procs : pc[p] # "idle" => op[p] \in RequestType
    /\ clock \in Nat
    /\ pointers \subseteq Claims /\ issued \subseteq Claims
    /\ returned \subseteq (Claims \X Kinds)

(* acquire_claim looks for conflicts only among claims of its own authority. *)
Checked(L, i, j) ==
    L[i].ws = L[j].ws \/ L[j].kind = "workspace_claim_acquired"

(* Line j was written after a replay that reached the end of the ledger, and *)
(* so was every renewal of the claims i and j.                               *)
Informed(L, i, j) ==
    /\ "replay" \notin L[j].missed
    /\ \A k \in 1 .. Len(L) :
          L[k].kind = "claim_renewed" /\ L[k].claim \in {L[i].claim, L[j].claim}
              => "replay" \notin L[k].missed

(* Neither of two claims overlaps the other, where their check is due. *)
Exclusive(L, t) ==
    \A i, j \in Active(L, t) :
        i < j /\ Checked(L, i, j) /\ Informed(L, i, j)
            => ~PathsConflict(L[j].paths, L[i].paths)

(* No two active claims of one workspace authority ever overlap, and a       *)
(* workspace claim never overlaps a claim of any authority that was acquired *)
(* before it: the replay and the append of every call are one critical       *)
(* section, whatever fails inside it and however the ledger is torn.  A call *)
(* whose own replay stopped at an error decides on part of the ledger: what  *)
(* it grants or renews may overlap, what others grant later does not.        *)
ExclusiveWrite == Exclusive(ledger, clock)

(* Line j is numbered after the readable lines before it, and its digest     *)
(* covers the line just before it; unless the reading for the one or the     *)
(* other failed, and then the digest covers nothing.                         *)
Chained(L) ==
    \A j \in 1 .. Len(L) : Readable(L, j) =>
        /\ "sequence" \notin L[j].missed =>
              \A i \in 1 .. (j - 1) : Readable(L, i) => L[i].seq < L[j].seq
        /\ L[j].prior = IF j = 1 \/ "digest" \in L[j].missed \/ ~Readable(L, j - 1)
                          THEN 0 ELSE j - 1

(* Every line is numbered above all readable lines before it and carries the *)
(* digest of the line just before it (none, if that one does not parse),     *)
(* even after torn appends.  A line whose reading for its number failed is   *)
(* numbered 1 and one whose reading for the digest failed carries none; the  *)
(* lines after them are in order again.                                      *)
OrderedChain == Chained(ledger)

Intact(L) == \A i \in 1 .. Len(L) : Readable(L, i)

(* "If a governed decision is not recorded in its canonical evidence domain, *)
(* it did not happen": whatever a call returned as acquired=True is in the   *)
(* ledger, or in one of its damaged lines.                                   *)
ResultsRecorded ==
    Intact(ledger) => \A r \in returned : \E i \in 1 .. Len(ledger) :
        ledger[i].claim = r[1] /\ ledger[i].kind = r[2]

(* A pointer file is written only after the event that acquired its claim is *)
(* in the ledger, so a crash never leaves a pointer to an unrecorded claim   *)
(* as long as the ledger is not damaged.                                     *)
PointerRecorded ==
    Intact(ledger) => \A c \in pointers : \E i \in 1 .. Len(ledger) :
        ledger[i].claim = c /\ ledger[i].kind \in AcquireKinds

ClaimActive(c) == \E i \in Active(ledger, clock) : ledger[i].claim = c

(* Some renewal of the claim was decided on part of the ledger, where the   *)
(* claim may seem to expire later than it does.                              *)
BlindlyRenewed(c) ==
    \E i \in 1 .. Len(ledger) :
        /\ ledger[i].kind = "claim_renewed" /\ ledger[i].claim = c
        /\ "replay" \in ledger[i].missed

(* Once somebody can see that an issued claim is not active (the lock is     *)
(* free), it is never active again: released, parked, integrated and expired *)
(* claims do not come back, by a renewal (unless its own replay of the       *)
(* ledger failed) or otherwise.                                              *)
NoResurrection ==
    \A c \in Claims :
        [](c \in issued /\ LockFree /\ ~ClaimActive(c)
               => [](ClaimActive(c) => BlindlyRenewed(c)))

(* Every call that got both locks leaves the critical section, by returning, *)
(* failing or dying, and then has released both: its store is only shut for  *)
(* good by a flock that raises (FlockFails), never by a call that got in.    *)
LockReleased ==
    \A p \in Procs : lock = p ~> (lock # p /\ thread[StoreOf[p]] # p)

=============================================================================

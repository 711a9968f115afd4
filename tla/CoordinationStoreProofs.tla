----------------------- MODULE CoordinationStoreProofs ----------------------
(***************************************************************************)
(* Proofs about CoordinationStore, for any sessions, tasks, path lists and *)
(* ttls, with or without crashes.  Provided that callers spell paths the   *)
(* way normalize_path does, leases of different owners exclude each other  *)
(* and the store implements PathLeases.  (Callers need not spell them so:  *)
(* two spellings of a path can be leased to two owners.)  Without that     *)
(* assumption: types, events and the files they report, stale leases and   *)
(* their events, and that no task changes hands in one step.               *)
(***************************************************************************)
EXTENDS CoordinationStore, TLAPS

(* Callers spell paths the way they are stored. *)
Canonical == \A raws \in RawPathLists : Normalized(raws) = raws

(* The part of the type invariant the argument needs. *)
LeaseTypes ==
    /\ clock \in Nat
    /\ leases \in [DOMAIN leases -> LeaseType]
    /\ \A k \in DOMAIN leases : k[2] = leases[k].paths

LeaseInv == LeaseTypes /\ LeaseExclusion

(* A step after which every lease in force was in force before, for the same *)
(* owner, mode and paths.                                                    *)
Thinned ==
    \A k \in ForceKeys' :
        /\ k \in ForceKeys
        /\ leases'[k].session = leases[k].session /\ leases'[k].task = leases[k].task
        /\ leases'[k].mode = leases[k].mode /\ leases'[k].paths = leases[k].paths

-----------------------------------------------------------------------------

(* Leases that stop being in force can break no exclusion. *)
LEMMA ThinnedExcludes == LeaseExclusion /\ Thinned => LeaseExclusion'
  BY DEF LeaseExclusion, Thinned, SameOwner

(* Marking leases stale keeps their types and puts none in force. *)
LEMMA MarkingThins ==
  ASSUME NEW K \in SUBSET DOMAIN leases, LeaseTypes,
         leases' = MarkedStale(K), clock' = clock
  PROVE  LeaseTypes' /\ Thinned
<1>1. DOMAIN leases' = DOMAIN leases
  BY DEF MarkedStale
<1>2. \A k \in DOMAIN leases :
        leases'[k] = IF k \in K THEN [leases[k] EXCEPT !.status = "stale"] ELSE leases[k]
  BY DEF MarkedStale
<1>3. \A k \in DOMAIN leases : leases'[k] \in LeaseType
  BY <1>2 DEF LeaseTypes, LeaseType, Statuses
<1>4. leases' = [k \in DOMAIN leases' |-> leases'[k]]
  BY DEF MarkedStale
<1>5. LeaseTypes'
  BY <1>1, <1>2, <1>3, <1>4 DEF LeaseTypes, LeaseType
<1>6. Thinned
  BY <1>1, <1>2 DEF Thinned, ForceKeys, InForce, LeaseTypes, LeaseType, Statuses
<1>7. QED
  BY <1>5, <1>6

(* A grant adds one lease that no other owner's lease in force excludes.     *)
LEMMA GrantExcludes ==
  ASSUME Canonical, LeaseInv,
         NEW s \in Sessions, NEW t \in Tasks, NEW mode \in Modes,
         NEW raws \in RawPathLists, NEW ttl \in TTLs,
         Blocking(s, t, mode, raws) = {},
         leases' = Put(MarkedStale(ExpiredKeys), LeaseKey(s, t, Normalized(raws)),
                       Lease(s, t, mode, Normalized(raws), ttl)),
         clock' = clock
  PROVE  LeaseInv'
<1> DEFINE key == LeaseKey(s, t, Normalized(raws))
           new == Lease(s, t, mode, Normalized(raws), ttl)
           old == MarkedStale(ExpiredKeys)
<1>1. DOMAIN leases' = DOMAIN leases \cup {key}
  BY DEF Put, MarkedStale
<1>2. leases'[key] = new
  BY DEF Put, MarkedStale
<1>3. \A k \in DOMAIN leases \ {key} :
        leases'[k] = IF k \in ExpiredKeys THEN [leases[k] EXCEPT !.status = "stale"]
                                          ELSE leases[k]
  BY DEF Put, MarkedStale
<1>4. new \in LeaseType
  BY StoreAssumptions DEF Lease, LeaseType, LeaseInv, LeaseTypes, Statuses
<1>5. \A k \in DOMAIN leases \ {key} : leases'[k] \in LeaseType
  BY <1>3 DEF LeaseInv, LeaseTypes, LeaseType, Statuses
<1>6. leases' = [k \in DOMAIN leases' |-> leases'[k]]
  BY DEF Put
<1>7. LeaseTypes'
  <2>1. key[2] = new.paths
    BY DEF LeaseKey, Lease
  <2>2. \A k \in DOMAIN leases \ {key} : leases'[k].paths = leases[k].paths
    BY <1>3 DEF LeaseInv, LeaseTypes, LeaseType
  <2>3. QED
    BY <1>1, <1>2, <1>4, <1>5, <1>6, <2>1, <2>2 DEF LeaseTypes, LeaseInv
<1>8. \A k \in ForceKeys' \ {key} :
        /\ k \in ForceKeys
        /\ leases'[k] = leases[k]
  BY <1>1, <1>3 DEF ForceKeys, InForce, ExpiredKeys, Expired, LeaseInv, LeaseTypes, LeaseType
<1>9. Normalized(raws) = raws
  BY DEF Canonical
<1>10. \A k \in ForceKeys' \ {key} :
         ~(leases'[k].session = new.session /\ leases'[k].task = new.task)
         /\ (\/ PathListsOverlap(leases'[k].paths, new.paths)
             \/ PathListsOverlap(new.paths, leases'[k].paths))
           => new.mode = "read" /\ leases'[k].mode = "read"
  <2> SUFFICES ASSUME NEW k \in ForceKeys' \ {key},
                      ~(leases'[k].session = s /\ leases'[k].task = t),
                      \/ PathListsOverlap(leases'[k].paths, raws)
                      \/ PathListsOverlap(raws, leases'[k].paths)
               PROVE  mode = "read" /\ leases'[k].mode = "read"
    BY <1>9 DEF Lease
  <2>1. k \in ForceKeys /\ leases'[k] = leases[k]
    BY <1>8
  <2>2. PathListsOverlap(leases[k].paths, raws)
    BY <2>1 DEF PathListsOverlap
  <2>3. ~(mode = "write" \/ leases[k].mode = "write")
    BY <2>1, <2>2 DEF Blocking, OwnedBy
  <2>4. leases[k].mode \in Modes
    BY <2>1 DEF ForceKeys, LeaseInv, LeaseTypes, LeaseType
  <2>5. QED
    BY <2>1, <2>3, <2>4 DEF Modes
<1>11. LeaseExclusion'
  <2> SUFFICES ASSUME NEW k \in ForceKeys', NEW l \in ForceKeys',
                      ~(leases'[k].session = leases'[l].session
                        /\ leases'[k].task = leases'[l].task),
                      PathListsOverlap(leases'[k].paths, leases'[l].paths)
               PROVE  leases'[k].mode = "read" /\ leases'[l].mode = "read"
    BY DEF LeaseExclusion, SameOwner
  <2>1. CASE k = key /\ l = key
    BY <2>1
  <2>2. CASE k = key /\ l # key
    BY <2>2, <1>2, <1>10
  <2>3. CASE k # key /\ l = key
    BY <2>3, <1>2, <1>10
  <2>4. CASE k # key /\ l # key
    BY <2>4, <1>8 DEF LeaseInv, LeaseExclusion, SameOwner
  <2>5. QED
    BY <2>1, <2>2, <2>3, <2>4
<1>12. QED
  BY <1>7, <1>11 DEF LeaseInv

(* A reservation, granted or refused. *)
LEMMA ReserveExcludes ==
  ASSUME Canonical, LeaseInv,
         NEW s \in Sessions, NEW t \in Tasks, NEW mode \in Modes,
         NEW raws \in RawPathLists, NEW ttl \in TTLs,
         reserve_paths(s, t, mode, raws, ttl)
  PROVE  LeaseInv'
<1>0. clock' = clock
  BY DEF reserve_paths
<1>1. CASE leases' = MarkedStale(ExpiredKeys)
  <2>1. ExpiredKeys \in SUBSET DOMAIN leases
    BY DEF ExpiredKeys
  <2>2. LeaseTypes' /\ Thinned
    BY <1>0, <1>1, <2>1, MarkingThins DEF LeaseInv
  <2>3. QED
    BY <2>2, ThinnedExcludes DEF LeaseInv
<1>2. CASE /\ Blocking(s, t, mode, raws) = {}
           /\ leases' = Put(MarkedStale(ExpiredKeys), LeaseKey(s, t, Normalized(raws)),
                            Lease(s, t, mode, Normalized(raws), ttl))
  BY <1>0, <1>2, GrantExcludes
<1>3. QED
  BY <1>1, <1>2 DEF reserve_paths

(* A release ends one lease. *)
LEMMA ReleaseExcludes ==
  ASSUME LeaseInv, NEW s, NEW t, NEW raws, release_paths(s, t, raws)
  PROVE  LeaseInv'
<1> DEFINE key == LeaseKey(s, t, Normalized(raws))
<1>0. clock' = clock
  BY DEF release_paths
<1>1. CASE leases' = leases
  BY <1>0, <1>1 DEF LeaseInv, LeaseTypes, LeaseExclusion, SameOwner, ForceKeys, InForce
<1>2. CASE key \in DOMAIN leases /\ leases' = [leases EXCEPT ![key].status = "released"]
  <2>1. DOMAIN leases' = DOMAIN leases /\ leases' = [k \in DOMAIN leases' |-> leases'[k]]
    BY <1>2 DEF LeaseInv, LeaseTypes
  <2>2. \A k \in DOMAIN leases :
          leases'[k] = IF k = key THEN [leases[k] EXCEPT !.status = "released"] ELSE leases[k]
    BY <1>2
  <2>3. \A k \in DOMAIN leases : leases'[k] \in LeaseType
    BY <2>2 DEF LeaseInv, LeaseTypes, LeaseType, Statuses
  <2>4. LeaseTypes'
    BY <1>0, <2>1, <2>2, <2>3 DEF LeaseTypes, LeaseInv, LeaseType
  <2>5. Thinned
    BY <1>0, <2>1, <2>2 DEF Thinned, ForceKeys, InForce, LeaseInv, LeaseTypes, LeaseType
  <2>6. QED
    BY <2>4, <2>5, ThinnedExcludes DEF LeaseInv
<1>3. QED
  BY <1>1, <1>2 DEF release_paths

(* Time only ends leases. *)
LEMMA TickExcludes == ASSUME LeaseInv, Tick PROVE LeaseInv'
<1>1. LeaseTypes'
  BY DEF LeaseInv, LeaseTypes, Tick
<1>2. Thinned
  BY DEF LeaseInv, LeaseTypes, Tick, Thinned, ForceKeys, InForce, LeaseType
<1>3. QED
  BY <1>1, <1>2, ThinnedExcludes DEF LeaseInv

(* Every other call leaves leases and the clock alone. *)
LEMMA OthersExclude ==
  ASSUME LeaseInv, UNCHANGED <<leases, clock>>
  PROVE  LeaseInv'
  BY DEF LeaseInv, LeaseTypes, LeaseExclusion, SameOwner, ForceKeys, InForce

-----------------------------------------------------------------------------

(* What a step may do to leases. *)
LEMMA LeaseSteps ==
  ASSUME [Next]_vars
  PROVE  \/ Tick
         \/ \E K \in SUBSET ExpiredKeys : \E R \in SUBSET K : reserve_paths_crash(K, R)
         \/ \E s \in Sessions, t \in Tasks : mark_lease_stale(s, t)
         \/ \E s \in Sessions, t \in Tasks, raws \in RawPathLists, ttl \in TTLs :
               \/ \E mode \in ClaimModes : claim_paths(s, t, mode, raws, ttl)
               \/ renew_lease(s, t, raws, ttl)
         \/ \E s \in Sessions, t \in Tasks, raws \in RawPathLists : release_paths(s, t, raws)
         \/ UNCHANGED <<leases, clock>>
<1>1. ASSUME NEW s \in Sessions, NEW t \in Tasks,
             \/ \E status \in {"running", "done"} :
                   register_session(s, status) \/ heartbeat(s, t, status)
             \/ \E ttl \in TTLs : claim_task(s, t, ttl)
             \/ release_task(s, t)
             \/ \E a \in Artifacts : publish_artifact(s, t, a)
             \/ report_conflict(s, t)
             \/ record_event(s, t)
             \/ \E target \in Sessions : request_handoff(s, target, t)
      PROVE  UNCHANGED <<leases, clock>>
  BY <1>1 DEF register_session, heartbeat, claim_task, release_task,
              publish_artifact, report_conflict, record_event, request_handoff
<1>2. QED
  BY <1>1 DEF Next, vars

LEMMA InitLeases == ASSUME Init PROVE LeaseInv
<1>1. DOMAIN leases = {}
  BY DEF Init
<1>2. leases \in [DOMAIN leases -> LeaseType]
  BY <1>1 DEF Init
<1>3. QED
  BY <1>1, <1>2 DEF Init, LeaseInv, LeaseTypes, LeaseExclusion, ForceKeys

LEMMA NextLeases == ASSUME Canonical, LeaseInv, [Next]_vars PROVE LeaseInv'
<1>1. CASE Tick
  BY <1>1, TickExcludes
<1>2. ASSUME NEW K \in SUBSET ExpiredKeys, NEW R \in SUBSET K, reserve_paths_crash(K, R)
      PROVE  LeaseInv'
  <2>1. K \in SUBSET DOMAIN leases
    BY DEF ExpiredKeys
  <2>2. LeaseTypes' /\ Thinned
    BY <1>2, <2>1, MarkingThins DEF reserve_paths_crash, LeaseInv
  <2>3. QED
    BY <2>2, ThinnedExcludes DEF LeaseInv
<1>3. ASSUME NEW s \in Sessions, NEW t \in Tasks, mark_lease_stale(s, t)
      PROVE  LeaseInv'
  <2>1. PICK K \in SUBSET {k \in DOMAIN leases : OwnedBy(k, s, t)} :
          leases' = MarkedStale(K)
    BY <1>3 DEF mark_lease_stale
  <2>2. K \in SUBSET DOMAIN leases /\ clock' = clock
    BY <1>3, <2>1 DEF mark_lease_stale
  <2>3. LeaseTypes' /\ Thinned
    BY <2>1, <2>2, MarkingThins DEF LeaseInv
  <2>4. QED
    BY <2>3, ThinnedExcludes DEF LeaseInv
<1>4. ASSUME NEW s \in Sessions, NEW t \in Tasks, NEW raws \in RawPathLists,
             NEW ttl \in TTLs, NEW mode \in ClaimModes,
             claim_paths(s, t, mode, raws, ttl)
      PROVE  LeaseInv'
  <2>1. StoreMode[mode] \in Modes
    BY StoreAssumptions DEF StoreMode, Modes
  <2>2. QED
    BY <1>4, <2>1, ReserveExcludes DEF claim_paths
<1>5. ASSUME NEW s \in Sessions, NEW t \in Tasks, NEW raws \in RawPathLists,
             NEW ttl \in TTLs, renew_lease(s, t, raws, ttl)
      PROVE  LeaseInv'
  BY <1>5, ReserveExcludes DEF renew_lease, Modes
<1>6. ASSUME NEW s \in Sessions, NEW t \in Tasks, NEW raws \in RawPathLists,
             release_paths(s, t, raws)
      PROVE  LeaseInv'
  BY <1>6, ReleaseExcludes
<1>7. CASE UNCHANGED <<leases, clock>>
  BY <1>7, OthersExclude
<1>8. QED
  BY <1>1, <1>2, <1>3, <1>4, <1>5, <1>6, <1>7, LeaseSteps

(* Two leases in force of different owners overlap only if both are reads,   *)
(* in every reachable state of a store whose callers spell paths canonically *)
(* (CoordinationStore.reserve_paths, release_paths, mark_lease_stale and     *)
(* PathLeaseManager.renew_lease, crashes inside them included).              *)
THEOREM LeasesExclude == ASSUME Canonical PROVE Spec => []LeaseExclusion
<1>1. LeaseInv /\ [Next]_vars => LeaseInv'
  BY NextLeases
<1>2. LeaseInv => LeaseExclusion
  BY DEF LeaseInv
<1>3. QED
  BY <1>1, <1>2, InitLeases, PTL DEF Spec

-----------------------------------------------------------------------------
(* The refinement. *)

Record(k) ==
    [session |-> leases[k].session, task |-> leases[k].task, mode |-> leases[k].mode,
     paths |-> leases[k].paths, expires |-> leases[k].expires]

LEMMA HeldRecords == Held = {Record(k) : k \in ForceKeys}
  BY DEF Held, Record

(* A step that takes leases of one owner out of force, or none, and touches  *)
(* no other.                                                                 *)
LEMMA EndRefines ==
  ASSUME NEW s \in Sessions, NEW t \in Tasks, clock' = clock,
         ForceKeys' \subseteq ForceKeys,
         \A k \in ForceKeys' : Record(k)' = Record(k),
         \A k \in ForceKeys \ ForceKeys' : OwnedBy(k, s, t)
  PROVE  Promise!Next
<1> DEFINE ended == Held \ Held'
<1>1. Held' = {Record(k) : k \in ForceKeys'}
  BY DEF Held, Record
<1>2. Held' \subseteq Held
  BY <1>1, HeldRecords
<1>3. \A h \in ended : Promise!Own(h, s, t)
  <2> SUFFICES ASSUME NEW h \in ended PROVE Promise!Own(h, s, t)
    OBVIOUS
  <2>1. PICK k \in ForceKeys : h = Record(k)
    BY HeldRecords
  <2>2. k \notin ForceKeys'
    BY <1>1, <2>1
  <2>3. QED
    BY <2>1, <2>2 DEF OwnedBy, Record, Promise!Own
<1>4. Held' = Held \ ended
  BY <1>2
<1>5. Promise!End(s, t)
  BY <1>3, <1>4 DEF Promise!End
<1>6. QED
  BY <1>5 DEF Promise!Next

(* Marking expired leases ends none that is in force. *)
LEMMA SweepHolds ==
  ASSUME NEW K \in SUBSET ExpiredKeys, LeaseTypes, leases' = MarkedStale(K), clock' = clock
  PROVE  UNCHANGED <<Held, clock>>
<1>1. DOMAIN leases' = DOMAIN leases
  BY DEF MarkedStale
<1>2. \A k \in DOMAIN leases :
        leases'[k] = IF k \in K THEN [leases[k] EXCEPT !.status = "stale"] ELSE leases[k]
  BY DEF MarkedStale
<1>3. \A k \in K : k \notin ForceKeys /\ k \notin ForceKeys'
  BY <1>1, <1>2 DEF ExpiredKeys, Expired, ForceKeys, InForce, LeaseTypes, LeaseType
<1>4. ForceKeys' = ForceKeys /\ \A k \in ForceKeys : leases'[k] = leases[k]
  BY <1>1, <1>2, <1>3 DEF ForceKeys, InForce
<1>5. QED
  BY <1>4 DEF Held

(* Marking an owner's leases. *)
LEMMA MarkRefines ==
  ASSUME NEW s \in Sessions, NEW t \in Tasks, LeaseTypes, mark_lease_stale(s, t)
  PROVE  Promise!Next
<1>1. PICK K \in SUBSET {k \in DOMAIN leases : OwnedBy(k, s, t)} :
        leases' = MarkedStale(K)
  BY DEF mark_lease_stale
<1>2. clock' = clock /\ DOMAIN leases' = DOMAIN leases
  BY <1>1 DEF mark_lease_stale, MarkedStale
<1>3. \A k \in DOMAIN leases :
        leases'[k] = IF k \in K THEN [leases[k] EXCEPT !.status = "stale"] ELSE leases[k]
  BY <1>1 DEF MarkedStale
<1>4. ForceKeys' = ForceKeys \ K
  BY <1>1, <1>2, <1>3 DEF ForceKeys, InForce, LeaseTypes, LeaseType
<1>5. \A k \in ForceKeys' : Record(k)' = Record(k)
  BY <1>3, <1>4 DEF Record, ForceKeys
<1>6. QED
  BY <1>1, <1>2, <1>4, <1>5, EndRefines

(* Releasing a lease ends it for the session that reserved it. *)
LEMMA ReleaseRefines ==
  ASSUME LeaseTypes, NEW s, NEW t, NEW raws, release_paths(s, t, raws)
  PROVE  Promise!Next \/ UNCHANGED <<Held, clock>>
<1> DEFINE key == LeaseKey(s, t, Normalized(raws))
<1>0. clock' = clock
  BY DEF release_paths
<1>1. CASE leases' = leases
  BY <1>0, <1>1 DEF Held, ForceKeys, InForce
<1>2. CASE key \in DOMAIN leases /\ leases' = [leases EXCEPT ![key].status = "released"]
  <2>1. DOMAIN leases' = DOMAIN leases
    BY <1>2
  <2>2. \A k \in DOMAIN leases :
          leases'[k] = IF k = key THEN [leases[k] EXCEPT !.status = "released"] ELSE leases[k]
    BY <1>2
  <2>3. ForceKeys' = ForceKeys \ {key}
    BY <1>0, <1>2, <2>1, <2>2 DEF ForceKeys, InForce, LeaseTypes, LeaseType
  <2>4. \A k \in ForceKeys' : Record(k)' = Record(k)
    BY <2>2, <2>3 DEF Record, ForceKeys
  <2>5. leases[key].session \in Sessions /\ leases[key].task \in Tasks
    BY <1>2 DEF LeaseTypes, LeaseType
  <2>6. OwnedBy(key, leases[key].session, leases[key].task)
    BY DEF OwnedBy
  <2>7. QED
    BY <1>0, <2>3, <2>4, <2>5, <2>6, EndRefines
<1>3. QED
  BY <1>1, <1>2 DEF release_paths

(* A grant, and a refusal, which only sweeps. *)
LEMMA ReserveRefines ==
  ASSUME Canonical, LeaseTypes,
         NEW s \in Sessions, NEW t \in Tasks, NEW mode \in Modes,
         NEW raws \in RawPathLists, NEW ttl \in TTLs,
         reserve_paths(s, t, mode, raws, ttl)
  PROVE  Promise!Next \/ UNCHANGED <<Held, clock>>
<1> DEFINE key   == LeaseKey(s, t, Normalized(raws))
           lease == Lease(s, t, mode, Normalized(raws), ttl)
           new   == [session |-> s, task |-> t, mode |-> mode, paths |-> raws,
                     expires |-> clock + ttl]
           old   == {Record(k) : k \in ForceKeys \ {key}}
<1>0. clock' = clock /\ Normalized(raws) = raws
  BY DEF reserve_paths, Canonical
<1>1. CASE leases' = MarkedStale(ExpiredKeys)
  BY <1>0, <1>1, SweepHolds
<1>2. CASE /\ Blocking(s, t, mode, raws) = {}
           /\ leases' = Put(MarkedStale(ExpiredKeys), key, lease)
  <2>1. DOMAIN leases' = DOMAIN leases \cup {key} /\ leases'[key] = lease
    BY <1>2 DEF Put, MarkedStale
  <2>2. \A k \in DOMAIN leases \ {key} :
          leases'[k] = IF k \in ExpiredKeys THEN [leases[k] EXCEPT !.status = "stale"]
                                            ELSE leases[k]
    BY <1>2 DEF Put, MarkedStale
  <2>3. /\ ForceKeys' \ {key} = ForceKeys \ {key}
        /\ \A k \in ForceKeys \ {key} : leases'[k] = leases[k]
    BY <1>0, <2>1, <2>2 DEF ForceKeys, InForce, ExpiredKeys, Expired, LeaseTypes, LeaseType
  <2>4. key \in ForceKeys' <=> ttl > 0
    BY <1>0, <2>1, StoreAssumptions DEF ForceKeys, InForce, Lease, LeaseTypes
  <2>5. Record(key)' = new
    BY <1>0, <2>1 DEF Record, Lease
  <2>6. \A k \in ForceKeys \ {key} : Record(k)' = Record(k)
    BY <2>3 DEF Record
  <2>7. Held' = old \cup (IF ttl > 0 THEN {new} ELSE {})
    <3>1. Held' = {Record(k)' : k \in ForceKeys'}
      BY DEF Held, Record
    <3>2. ForceKeys' = (ForceKeys \ {key}) \cup (IF ttl > 0 THEN {key} ELSE {})
      BY <2>3, <2>4
    <3>3. QED
      BY <2>5, <2>6, <3>1, <3>2
  <2>8. old = Held \ (Held \ old)
    BY HeldRecords
  <2>9. \A h \in Held \ old : h.paths = raws
    <3> SUFFICES ASSUME NEW h \in Held \ old PROVE h.paths = raws
      OBVIOUS
    <3>1. PICK k \in ForceKeys : h = Record(k)
      BY HeldRecords
    <3>2. k = key
      BY <3>1
    <3>3. key \in DOMAIN leases /\ key[2] = raws
      BY <1>0, <3>2 DEF ForceKeys, LeaseKey
    <3>4. QED
      BY <3>1, <3>2, <3>3 DEF Record, LeaseTypes
  <2>10. \A h \in Held : Promise!Own(h, s, t) \/ Promise!Compatible(h, mode, raws)
    <3> SUFFICES ASSUME NEW h \in Held, ~Promise!Own(h, s, t),
                        PathListsOverlap(h.paths, raws)
                 PROVE  h.mode = "read" /\ mode = "read"
      BY DEF Promise!Compatible
    <3>1. PICK k \in ForceKeys : h = Record(k)
      BY HeldRecords
    <3>2. ~OwnedBy(k, s, t) /\ PathListsOverlap(leases[k].paths, raws)
      BY <3>1 DEF OwnedBy, Record, Promise!Own
    <3>3. ~(mode = "write" \/ leases[k].mode = "write")
      BY <1>2, <3>2 DEF Blocking
    <3>4. leases[k].mode \in Modes
      BY DEF ForceKeys, LeaseTypes, LeaseType
    <3>5. QED
      BY <3>1, <3>3, <3>4 DEF Modes, Record
  <2> HIDE DEF old
  <2>11. Held \ old \in SUBSET {h \in Held : h.paths = raws}
    BY <2>9
  <2>12. Promise!Grant(s, t, mode, raws, ttl)
    BY <1>0, <2>7, <2>8, <2>10, <2>11 DEF Promise!Grant
  <2>13. raws \in {Normalized(r) : r \in RawPathLists}
    BY <1>0
  <2>14. QED
    BY <2>12, <2>13 DEF Promise!Next, Modes
<1>3. QED
  BY <1>1, <1>2 DEF reserve_paths

(* Time ends the leases whose time has come. *)
LEMMA TickRefines == ASSUME LeaseTypes, Tick PROVE Promise!Next
<1>1. clock' = clock + 1 /\ leases' = leases
  BY DEF Tick
<1>2. Held' = {h \in Held : h.expires > clock'}
  BY <1>1 DEF Held, ForceKeys, InForce, LeaseTypes, LeaseType
<1>3. QED
  BY <1>1, <1>2 DEF Promise!Next, Promise!Tick

(* Every step of the store is a step of PathLeases or changes nothing of it. *)
LEMMA NextRefines ==
  ASSUME Canonical, LeaseInv, [Next]_vars
  PROVE  Promise!Next \/ UNCHANGED <<Held, clock>>
<1> LeaseTypes
  BY DEF LeaseInv
<1>1. CASE Tick
  BY <1>1, TickRefines
<1>2. ASSUME NEW K \in SUBSET ExpiredKeys, NEW R \in SUBSET K, reserve_paths_crash(K, R)
      PROVE  UNCHANGED <<Held, clock>>
  BY <1>2, SweepHolds DEF reserve_paths_crash
<1>3. ASSUME NEW s \in Sessions, NEW t \in Tasks, mark_lease_stale(s, t)
      PROVE  Promise!Next
  BY <1>3, MarkRefines
<1>4. ASSUME NEW s \in Sessions, NEW t \in Tasks, NEW raws \in RawPathLists,
             NEW ttl \in TTLs, NEW mode \in ClaimModes,
             claim_paths(s, t, mode, raws, ttl)
      PROVE  Promise!Next \/ UNCHANGED <<Held, clock>>
  <2>1. StoreMode[mode] \in Modes
    BY StoreAssumptions DEF StoreMode, Modes
  <2>2. QED
    BY <1>4, <2>1, ReserveRefines DEF claim_paths
<1>5. ASSUME NEW s \in Sessions, NEW t \in Tasks, NEW raws \in RawPathLists,
             NEW ttl \in TTLs, renew_lease(s, t, raws, ttl)
      PROVE  Promise!Next \/ UNCHANGED <<Held, clock>>
  BY <1>5, ReserveRefines DEF renew_lease, Modes
<1>6. ASSUME NEW s \in Sessions, NEW t \in Tasks, NEW raws \in RawPathLists,
             release_paths(s, t, raws)
      PROVE  Promise!Next \/ UNCHANGED <<Held, clock>>
  BY <1>6, ReleaseRefines
<1>7. CASE UNCHANGED <<leases, clock>>
  BY <1>7 DEF Held, ForceKeys, InForce
<1>8. QED
  BY <1>1, <1>2, <1>3, <1>4, <1>5, <1>6, <1>7, LeaseSteps

(* The store's files implement PathLeases: whatever is claimed, renewed,     *)
(* released, marked, swept or lost in a crash, what changes is one grant     *)
(* beside compatible leases, the end of leases of one owner, or expiry       *)
(* (CoordinationStore.reserve_paths and its sweep, release_paths,            *)
(* mark_lease_stale).                                                        *)
THEOREM StoreKeepsPromise == ASSUME Canonical PROVE Spec => KeepsPromise
<1>1. Init => Promise!Init
  BY DEF Init, Promise!Init, Held, ForceKeys
<1>2. LeaseInv /\ [Next]_vars => [Promise!Next]_(Promise!vars)
  BY NextRefines DEF Promise!vars
<1>3. LeaseInv /\ [Next]_vars => LeaseInv'
  BY NextLeases
<1>4. QED
  BY <1>1, <1>2, <1>3, InitLeases, PTL DEF Spec, KeepsPromise, Promise!Spec

-----------------------------------------------------------------------------
(* Events and files. *)

(* The file an event reports is on the disk. *)
Written(e) ==
    /\ e.name = "coord.session.registered" => e.session \in DOMAIN sessions
    /\ e.name = "coord.task.claimed" => e.task \in DOMAIN tasks
    /\ e.name = "coord.path.reserved" =>
          LeaseKey(e.session, e.task, e.detail[2]) \in DOMAIN leases
    /\ e.name = "coord.artifact.published" => e.detail \in artifacts
    /\ e.name \in {"coord.conflict.reported", "coord.task.claim_refused"} =>
          TaskConflict(e.task, e.session) \in conflicts
    /\ e.name = "coord.path.reservation_refused" => PathConflict(e.detail) \in conflicts

(* No file is removed. *)
Grown ==
    /\ DOMAIN sessions \subseteq DOMAIN sessions' /\ DOMAIN tasks \subseteq DOMAIN tasks'
    /\ DOMAIN leases \subseteq DOMAIN leases'
    /\ conflicts \subseteq conflicts' /\ artifacts \subseteq artifacts'

LEMMA LogWritten == LoggedIsWritten <=> \A e \in BagToSet(log) : Written(e)
  BY DEF LoggedIsWritten, Written

LEMMA LogGrows ==
  ASSUME NEW E, log' = log (+) SetToBag(E)
  PROVE  BagToSet(log') = BagToSet(log) \cup E
  BY DEF BagToSet, SetToBag, (+)

(* What one call appends is backed by what it wrote and found. *)
LEMMA AppendWritten ==
  ASSUME LoggedIsWritten, Grown, NEW E, Appended(E), \A e \in E : Written(e)'
  PROVE  LoggedIsWritten'
<1>1. BagToSet(log') = BagToSet(log) \cup E
  BY LogGrows DEF Appended
<1>2. \A e \in BagToSet(log) : Written(e)'
  BY LogWritten DEF Written, Grown
<1>3. (\A e \in BagToSet(log) : Written(e))'
  BY <1>1, <1>2
<1>4. QED
  BY <1>3 DEF LoggedIsWritten, Written

(* Events about which nothing is said. *)
LEMMA Unbacked ==
  ASSUME NEW name, NEW s, NEW t, NEW detail,
         name \notin {"coord.session.registered", "coord.task.claimed",
                      "coord.path.reserved", "coord.artifact.published",
                      "coord.conflict.reported", "coord.task.claim_refused",
                      "coord.path.reservation_refused"}
  PROVE  Written(Event(name, s, t, detail))'
  BY DEF Written, Event

(* Marking leases removes none. *)
LEMMA MarkedDomain == ASSUME NEW K PROVE DOMAIN MarkedStale(K) = DOMAIN leases
  BY DEF MarkedStale

(* A call that reports one event, or dies before it does. *)
LEMMA OneEvent ==
  ASSUME LoggedIsWritten, Grown, NEW e, Written(e)', Logged({e}) \/ Unlogged
  PROVE  LoggedIsWritten'
<1>1. PICK E \in SUBSET {e} : Appended(E)
  BY DEF Logged, Unlogged, Died
<1>2. QED
  BY <1>1, AppendWritten

(* Sessions, artifacts, conflicts and plain events. *)
LEMMA PlainWritten ==
  ASSUME LoggedIsWritten, NEW s, NEW t,
         \/ \E status \in {"running", "done"} :
               register_session(s, status) \/ heartbeat(s, t, status)
         \/ release_task(s, t)
         \/ \E a \in Artifacts : publish_artifact(s, t, a)
         \/ report_conflict(s, t)
         \/ record_event(s, t)
         \/ \E target \in Sessions : request_handoff(s, target, t)
  PROVE  LoggedIsWritten'
<1>1. ASSUME NEW status, register_session(s, status) PROVE LoggedIsWritten'
  <2>1. Grown
    BY <1>1 DEF Put, register_session, Grown
  <2>2. Written(Event("coord.session.registered", s, <<>>, status))'
    BY <1>1 DEF Put, register_session, Written, Event
  <2>3. QED
    BY <1>1, <2>1, <2>2, OneEvent DEF register_session
<1>2. ASSUME NEW status, heartbeat(s, t, status) PROVE LoggedIsWritten'
  <2>1. Grown
    BY <1>2 DEF Put, heartbeat, Grown
  <2>2. Written(Event("coord.session.heartbeat", s, t, status))'
    BY Unbacked
  <2>3. QED
    BY <1>2, <2>1, <2>2, OneEvent DEF heartbeat
<1>3. CASE release_task(s, t)
  <2>1. Grown
    BY <1>3 DEF release_task, Grown
  <2>2. Written(Event("coord.task.released", s, t, <<>>))'
    BY Unbacked
  <2>3. QED
    BY <1>3, <2>1, <2>2, OneEvent DEF release_task
<1>4. ASSUME NEW a, publish_artifact(s, t, a) PROVE LoggedIsWritten'
  <2>1. Grown
    BY <1>4 DEF publish_artifact, Grown
  <2>2. Written(Event("coord.artifact.published", s, t, a))'
    BY <1>4 DEF publish_artifact, Written, Event
  <2>3. QED
    BY <1>4, <2>1, <2>2, OneEvent DEF publish_artifact
<1>5. CASE report_conflict(s, t)
  <2>1. Grown
    BY <1>5 DEF report_conflict, Grown
  <2>2. Written(Event("coord.conflict.reported", s, t, <<>>))'
    BY <1>5 DEF report_conflict, Written, Event
  <2>3. QED
    BY <1>5, <2>1, <2>2, OneEvent DEF report_conflict
<1>6. CASE record_event(s, t)
  <2>1. Grown
    BY <1>6 DEF record_event, Grown
  <2>2. Written(Event("task_considered", s, t, <<>>))'
    BY Unbacked
  <2>3. QED
    BY <1>6, <2>1, <2>2, OneEvent DEF record_event
<1>7. ASSUME NEW target, request_handoff(s, target, t) PROVE LoggedIsWritten'
  <2>1. Grown
    BY <1>7 DEF request_handoff, Grown
  <2>2. Written(Event("coord.handoff.requested", s, t, target))'
    BY Unbacked
  <2>3. QED
    BY <1>7, <2>1, <2>2, OneEvent DEF request_handoff
<1>8. QED
  BY <1>1, <1>2, <1>3, <1>4, <1>5, <1>6, <1>7

(* A claim is renewed, refused or granted. *)
LEMMA ClaimWritten ==
  ASSUME LoggedIsWritten, NEW s, NEW t, NEW ttl, claim_task(s, t, ttl)
  PROVE  LoggedIsWritten'
<1>1. CASE TaskHeld(t) /\ Logged({ClaimEvent(t, tasks[t], TRUE)}) /\ UNCHANGED <<tasks, conflicts>>
  <2>1. Grown
    BY <1>1 DEF claim_task, Grown
  <2>2. Written(ClaimEvent(t, tasks[t], TRUE))'
    BY <1>1 DEF Written, ClaimEvent, Event, TaskHeld
  <2>3. QED
    BY <1>1, <2>1, <2>2, OneEvent
<1>2. CASE /\ conflicts' = conflicts \cup {TaskConflict(t, s)} /\ UNCHANGED tasks
           /\ \/ Logged({Event("coord.task.claim_refused", s, t, tasks[t].session)})
              \/ Unlogged
  <2>1. Grown
    BY <1>2 DEF claim_task, Grown
  <2>2. Written(Event("coord.task.claim_refused", s, t, tasks[t].session))'
    BY <1>2 DEF Written, Event
  <2>3. QED
    BY <1>2, <2>1, <2>2, OneEvent
<1>3. CASE /\ tasks' = Put(tasks, t, Claim(s, ttl)) /\ UNCHANGED conflicts
           /\ Logged({ClaimEvent(t, Claim(s, ttl), FALSE)}) \/ Unlogged
  <2>1. Grown
    BY <1>3 DEF Put, claim_task, Grown
  <2>2. PICK e : e = ClaimEvent(t, Claim(s, ttl), FALSE)
    OBVIOUS
  <2>3. Written(e)'
    BY <1>3, <2>2 DEF Put, Written, ClaimEvent, Event
  <2>4. QED
    BY <1>3, <2>1, <2>2, <2>3, OneEvent
<1>4. QED
  BY <1>1, <1>2, <1>3 DEF claim_task

(* A reservation reports what it swept, and then what it wrote. *)
LEMMA ReserveWritten ==
  ASSUME LoggedIsWritten, NEW s, NEW t, NEW mode, NEW raws, NEW ttl,
         reserve_paths(s, t, mode, raws, ttl)
  PROVE  LoggedIsWritten'
<1> DEFINE paths   == Normalized(raws)
           lease   == Lease(s, t, mode, paths, ttl)
           renewal == \E k \in ForceKeys : OwnedBy(k, s, t)
           expired == ExpiredEvents(ExpiredKeys)
           refused == Event("coord.path.reservation_refused", s, t, paths)
<1>1. \A e \in expired : Written(e)'
  BY Unbacked DEF ExpiredEvents, ExpiredEvent
<1>2. CASE /\ conflicts' = conflicts \cup {PathConflict(paths)}
           /\ leases' = MarkedStale(ExpiredKeys)
           /\ Logged(expired \cup {refused}) \/ Died(expired)
  <2>1. Grown
    BY <1>2, MarkedDomain DEF reserve_paths, Grown
  <2>2. Written(refused)'
    BY <1>2 DEF Written, Event
  <2>3. PICK E \in SUBSET (expired \cup {refused}) : Appended(E)
    BY <1>2 DEF Logged, Died
  <2>4. QED
    BY <1>1, <2>1, <2>2, <2>3, AppendWritten
<1>3. CASE /\ leases' = Put(MarkedStale(ExpiredKeys), LeaseKey(s, t, paths), lease)
           /\ Logged(expired \cup {ReservedEvent(lease, renewal)}) \/ Died(expired)
           /\ UNCHANGED conflicts
  <2>0. DOMAIN leases' = DOMAIN leases \cup {LeaseKey(s, t, paths)}
    BY <1>3, MarkedDomain DEF Put
  <2>1. Grown
    BY <1>3, <2>0 DEF reserve_paths, Grown
  <2>2. PICK e : e = ReservedEvent(lease, renewal)
    OBVIOUS
  <2>3. Written(e)'
    BY <2>0, <2>2 DEF Written, ReservedEvent, Event, Lease
  <2>4. PICK E \in SUBSET (expired \cup {e}) : Appended(E)
    BY <1>3, <2>2 DEF Logged, Died
  <2>5. \A x \in E : Written(x)'
    BY <1>1, <2>3, <2>4
  <2>6. QED
    BY <2>1, <2>4, <2>5, AppendWritten
<1>4. QED
  BY <1>2, <1>3 DEF reserve_paths

(* The other calls on leases, and the death inside a sweep. *)
LEMMA EndWritten ==
  ASSUME LoggedIsWritten,
         \/ \E K \in SUBSET ExpiredKeys : \E R \in SUBSET K : reserve_paths_crash(K, R)
         \/ \E s \in Sessions, t \in Tasks : mark_lease_stale(s, t)
         \/ \E s \in Sessions, t \in Tasks, raws \in RawPathLists : release_paths(s, t, raws)
  PROVE  LoggedIsWritten'
<1>1. ASSUME NEW K, NEW R, reserve_paths_crash(K, R) PROVE LoggedIsWritten'
  <2>1. Grown
    BY <1>1, MarkedDomain DEF reserve_paths_crash, Grown
  <2>2. \A e \in ExpiredEvents(R) : Written(e)'
    BY Unbacked DEF ExpiredEvents, ExpiredEvent
  <2>3. QED
    BY <1>1, <2>1, <2>2, AppendWritten DEF reserve_paths_crash, Died
<1>2. ASSUME NEW s, NEW t, mark_lease_stale(s, t) PROVE LoggedIsWritten'
  <2>1. PICK K \in SUBSET {k \in DOMAIN leases : OwnedBy(k, s, t)} :
          /\ leases' = MarkedStale(K)
          /\ Logged({Event("coord.lease.marked_stale", s, t, <<>>)}) \/ Unlogged
    BY <1>2 DEF mark_lease_stale
  <2>2. Grown
    BY <1>2, <2>1, MarkedDomain DEF mark_lease_stale, Grown
  <2>3. Written(Event("coord.lease.marked_stale", s, t, <<>>))'
    BY Unbacked
  <2>4. QED
    BY <2>1, <2>2, <2>3, OneEvent
<1>3. ASSUME NEW s, NEW t, NEW raws, release_paths(s, t, raws) PROVE LoggedIsWritten'
  <2>1. Grown
    BY <1>3 DEF release_paths, Grown
  <2>2. \A detail : /\ Written(Event("coord.path.released", s, t, detail))'
                    /\ Written(Event("coord.path.release_denied", s, t, detail))'
    BY Unbacked
  <2>3. QED
    BY <1>3, <2>1, <2>2, OneEvent DEF release_paths
<1>4. QED
  BY <1>1, <1>2, <1>3

(* Whatever is in events.jsonl about sessions, claims, reservations,         *)
(* refusals, conflicts and artifacts has its file, whichever call dies       *)
(* between file and event (CoordinationStore's writers and _append_event).   *)
THEOREM EventsBacked == Spec => []LoggedIsWritten
<1>1. Init => LoggedIsWritten
  BY DEF Init, LoggedIsWritten, EmptyBag, SetToBag, BagToSet
<1>2. ASSUME LoggedIsWritten, [Next]_vars PROVE LoggedIsWritten'
  <2>1. CASE UNCHANGED <<sessions, tasks, leases, conflicts, artifacts, log>>
    BY <1>2, <2>1 DEF LoggedIsWritten, BagToSet
  <2>2. QED
    BY <1>2, <2>1, PlainWritten, ClaimWritten, ReserveWritten, EndWritten
       DEF Next, vars, Tick, claim_paths, renew_lease
<1>3. QED
  BY <1>1, <1>2, PTL DEF Spec

-----------------------------------------------------------------------------
(* Types, task claims and stale leases. *)

TaskTypes ==
    /\ DOMAIN tasks \subseteq Tasks
    /\ \A t \in DOMAIN tasks :
          tasks[t] \in [session : Sessions, expires : Nat, status : Statuses]

FiledLeases ==
    \A k \in DOMAIN leases :
        /\ leases[k] \in LeaseType
        /\ k = LeaseKey(leases[k].session, leases[k].task, leases[k].paths)

LogTypes == IsABag(log) /\ crashes \in 0 .. MaxCrashes

LEMMA TypeParts ==
  TypeOK <=> /\ DOMAIN sessions \subseteq Sessions /\ TaskTypes /\ FiledLeases
             /\ LogTypes /\ clock \in 0 .. MaxClock
  BY DEF TypeOK, TaskTypes, FiledLeases, LogTypes

(* Appending keeps a bag, and nobody revives a dead process. *)
LEMMA AppendTyped ==
  ASSUME LogTypes, NEW E, Logged(E) \/ Died(E)
  PROVE  /\ LogTypes' /\ crashes' >= crashes
         /\ BagToSet(log') = BagToSet(log) \cup E
         /\ crashes' > 0 \/ Logged(E)
<1>1. log' = log (+) SetToBag(E)
  BY DEF Logged, Died, Appended
<1>2. IsABag(log')
  BY <1>1 DEF LogTypes, IsABag, SetToBag, (+)
<1>3. BagToSet(log') = BagToSet(log) \cup E
  BY <1>1, LogGrows
<1>4. crashes' \in 0 .. MaxCrashes /\ crashes' >= crashes /\ (crashes' > 0 \/ Logged(E))
  BY StoreAssumptions DEF LogTypes, Logged, Died
<1>5. QED
  BY <1>2, <1>3, <1>4 DEF LogTypes

LEMMA MarkedFiled ==
  ASSUME FiledLeases, NEW K, leases' = MarkedStale(K) PROVE FiledLeases'
<1>1. DOMAIN leases' = DOMAIN leases
  BY DEF MarkedStale
<1>2. \A k \in DOMAIN leases :
        leases'[k] = IF k \in K THEN [leases[k] EXCEPT !.status = "stale"] ELSE leases[k]
  BY DEF MarkedStale
<1>3. \A k \in DOMAIN leases :
        /\ leases'[k] \in LeaseType
        /\ leases'[k].session = leases[k].session /\ leases'[k].task = leases[k].task
        /\ leases'[k].paths = leases[k].paths
  BY <1>2 DEF FiledLeases, LeaseType, Statuses
<1>4. QED
  BY <1>1, <1>3 DEF FiledLeases

LEMMA GrantFiled ==
  ASSUME FiledLeases, clock \in Nat,
         NEW s \in Sessions, NEW t \in Tasks, NEW mode \in Modes,
         NEW raws \in RawPathLists, NEW ttl \in TTLs,
         leases' = Put(MarkedStale(ExpiredKeys), LeaseKey(s, t, Normalized(raws)),
                       Lease(s, t, mode, Normalized(raws), ttl))
  PROVE  FiledLeases'
<1> DEFINE key == LeaseKey(s, t, Normalized(raws))
           new == Lease(s, t, mode, Normalized(raws), ttl)
<1>1. DOMAIN leases' = DOMAIN leases \cup {key} /\ leases'[key] = new
  BY DEF Put, MarkedStale
<1>2. \A k \in DOMAIN leases \ {key} :
        leases'[k] = IF k \in ExpiredKeys THEN [leases[k] EXCEPT !.status = "stale"]
                                          ELSE leases[k]
  BY DEF Put, MarkedStale
<1> HIDE DEF key, new
<1>3. \A k \in DOMAIN leases \ {key} :
        /\ leases'[k] \in LeaseType
        /\ leases'[k].session = leases[k].session /\ leases'[k].task = leases[k].task
        /\ leases'[k].paths = leases[k].paths
  BY <1>2 DEF FiledLeases, LeaseType, Statuses
<1>4. new \in LeaseType /\ new.session = s /\ new.task = t /\ new.paths = Normalized(raws)
  BY StoreAssumptions DEF new, Lease, LeaseType, Statuses
<1>5. QED
  BY <1>1, <1>3, <1>4 DEF FiledLeases, key

(* What a call appends, whether or not it survives. *)
LEMMA CallTyped ==
  ASSUME LogTypes, [Next]_vars
  PROVE  LogTypes' /\ crashes' >= crashes /\ BagToSet(log) \subseteq BagToSet(log')
<1>1. CASE \E E : Logged(E) \/ Died(E)
  BY <1>1, AppendTyped
<1>2. CASE UNCHANGED <<log, crashes>>
  BY <1>2 DEF LogTypes, IsABag, BagToSet
<1>3. ASSUME NEW s, NEW t, NEW mode, NEW raws, NEW ttl, reserve_paths(s, t, mode, raws, ttl)
      PROVE  \E E : Logged(E) \/ Died(E)
  BY <1>3 DEF reserve_paths
<1>4. ASSUME NEW s, NEW t,
             \/ \E status : register_session(s, status) \/ heartbeat(s, t, status)
             \/ \E ttl : claim_task(s, t, ttl)
             \/ release_task(s, t)
      PROVE  \E E : Logged(E) \/ Died(E)
  BY <1>4 DEF register_session, heartbeat, claim_task, release_task, Unlogged
<1>5. ASSUME NEW s, NEW t,
             \/ \E a : publish_artifact(s, t, a)
             \/ report_conflict(s, t) \/ record_event(s, t)
             \/ \E target : request_handoff(s, target, t)
      PROVE  \E E : Logged(E) \/ Died(E)
  BY <1>5 DEF publish_artifact, report_conflict, record_event, request_handoff, Unlogged
<1>6. ASSUME NEW s, NEW t, mark_lease_stale(s, t) \/ \E raws : release_paths(s, t, raws)
      PROVE  \E E : Logged(E) \/ Died(E)
  BY <1>6 DEF mark_lease_stale, release_paths, Unlogged
<1>7. ASSUME NEW K, NEW R, reserve_paths_crash(K, R)
      PROVE  \E E : Logged(E) \/ Died(E)
  BY <1>7 DEF reserve_paths_crash
<1>8. CASE Tick \/ UNCHANGED vars
  BY <1>2, <1>8 DEF Tick, vars
<1>9. CASE Next /\ ~Tick
  <2>1. \E E : Logged(E) \/ Died(E)
    BY <1>3, <1>4, <1>5, <1>6, <1>7, <1>9 DEF Next, claim_paths, renew_lease
  <2>2. QED
    BY <1>1, <2>1
<1>10. QED
  BY <1>8, <1>9

(* Only claims and releases touch task files, and only to claim a free task  *)
(* or to end a claim.                                                        *)
LEMMA TaskSteps ==
  ASSUME [Next]_vars
  PROVE  \/ \E s \in Sessions, t \in Tasks, ttl \in TTLs :
               ~TaskHeld(t) /\ tasks' = Put(tasks, t, Claim(s, ttl)) /\ clock' = clock
         \/ \E t \in DOMAIN tasks :
               tasks' = [tasks EXCEPT ![t].status = "released"] /\ clock' = clock
         \/ tasks' = tasks
<1>1. ASSUME NEW s \in Sessions, NEW t \in Tasks, NEW ttl \in TTLs, claim_task(s, t, ttl)
      PROVE  \/ ~TaskHeld(t) /\ tasks' = Put(tasks, t, Claim(s, ttl)) /\ clock' = clock
             \/ tasks' = tasks
  BY <1>1 DEF claim_task
<1>2. ASSUME NEW s \in Sessions, NEW t \in Tasks, release_task(s, t)
      PROVE  \/ /\ t \in DOMAIN tasks
                /\ tasks' = [tasks EXCEPT ![t].status = "released"] /\ clock' = clock
             \/ tasks' = tasks
  BY <1>2 DEF release_task
<1>3. ASSUME NEW s \in Sessions, NEW t \in Tasks,
             \/ \E status \in {"running", "done"} :
                   register_session(s, status) \/ heartbeat(s, t, status)
             \/ \E a \in Artifacts : publish_artifact(s, t, a)
             \/ report_conflict(s, t)
             \/ record_event(s, t)
             \/ \E target \in Sessions : request_handoff(s, target, t)
      PROVE  tasks' = tasks
  BY <1>3 DEF register_session, heartbeat, publish_artifact, report_conflict, record_event,
              request_handoff
<1>4. ASSUME NEW s \in Sessions, NEW t \in Tasks,
             \/ \E raws \in RawPathLists, ttl \in TTLs :
                   \/ \E mode \in ClaimModes : claim_paths(s, t, mode, raws, ttl)
                   \/ renew_lease(s, t, raws, ttl)
             \/ \E raws \in RawPathLists : release_paths(s, t, raws)
             \/ mark_lease_stale(s, t)
      PROVE  tasks' = tasks
  BY <1>4 DEF claim_paths, renew_lease, reserve_paths, release_paths, mark_lease_stale
<1>5. CASE Tick \/ UNCHANGED vars
  BY <1>5 DEF Tick, vars
<1>6. ASSUME NEW K, NEW R, reserve_paths_crash(K, R) PROVE tasks' = tasks
  BY <1>6 DEF reserve_paths_crash
<1>7. QED
  BY <1>1, <1>2, <1>3, <1>4, <1>5, <1>6 DEF Next

LEMMA NextTasks ==
  ASSUME TaskTypes, clock \in Nat, [Next]_vars PROVE TaskTypes'
<1>1. ASSUME NEW s \in Sessions, NEW t \in Tasks, NEW ttl \in TTLs,
             tasks' = Put(tasks, t, Claim(s, ttl))
      PROVE  TaskTypes'
  BY <1>1, StoreAssumptions DEF Put, Claim, TaskTypes, Statuses
<1>2. ASSUME NEW t \in DOMAIN tasks, tasks' = [tasks EXCEPT ![t].status = "released"]
      PROVE  TaskTypes'
  <2>1. DOMAIN tasks' = DOMAIN tasks
    BY <1>2
  <2>2. \A x \in DOMAIN tasks :
          tasks'[x] = IF x = t THEN [tasks[x] EXCEPT !.status = "released"] ELSE tasks[x]
    BY <1>2
  <2>3. QED
    BY <2>1, <2>2 DEF TaskTypes, Statuses
<1>3. CASE tasks' = tasks
  BY <1>3 DEF TaskTypes
<1>4. QED
  BY <1>1, <1>2, <1>3, TaskSteps

LEMMA NextSessions ==
  ASSUME DOMAIN sessions \subseteq Sessions, [Next]_vars
  PROVE  DOMAIN sessions' \subseteq Sessions
<1>1. ASSUME NEW s \in Sessions, NEW t \in Tasks,
             \E status \in {"running", "done"} :
                register_session(s, status) \/ heartbeat(s, t, status)
      PROVE  DOMAIN sessions' \subseteq Sessions
  BY <1>1 DEF register_session, heartbeat, Put
<1>2. ASSUME NEW s \in Sessions, NEW t \in Tasks,
             \/ \E ttl \in TTLs : claim_task(s, t, ttl)
             \/ release_task(s, t)
             \/ \E a \in Artifacts : publish_artifact(s, t, a)
             \/ report_conflict(s, t)
             \/ record_event(s, t)
             \/ \E target \in Sessions : request_handoff(s, target, t)
      PROVE  sessions' = sessions
  BY <1>2 DEF claim_task, release_task, publish_artifact, report_conflict, record_event,
              request_handoff
<1>3. ASSUME NEW s \in Sessions, NEW t \in Tasks,
             \/ \E raws \in RawPathLists, ttl \in TTLs :
                   \/ \E mode \in ClaimModes : claim_paths(s, t, mode, raws, ttl)
                   \/ renew_lease(s, t, raws, ttl)
             \/ \E raws \in RawPathLists : release_paths(s, t, raws)
             \/ mark_lease_stale(s, t)
      PROVE  sessions' = sessions
  BY <1>3 DEF claim_paths, renew_lease, reserve_paths, release_paths, mark_lease_stale
<1>4. CASE Tick \/ UNCHANGED vars
  BY <1>4 DEF Tick, vars
<1>5. ASSUME NEW K, NEW R, reserve_paths_crash(K, R) PROVE sessions' = sessions
  BY <1>5 DEF reserve_paths_crash
<1>6. QED
  BY <1>1, <1>2, <1>3, <1>4, <1>5 DEF Next

LEMMA NextFiled ==
  ASSUME FiledLeases, clock \in Nat, [Next]_vars PROVE FiledLeases'
<1>1. ASSUME NEW s \in Sessions, NEW t \in Tasks, NEW mode \in Modes,
             NEW raws \in RawPathLists, NEW ttl \in TTLs,
             reserve_paths(s, t, mode, raws, ttl)
      PROVE  FiledLeases'
  BY <1>1, MarkedFiled, GrantFiled DEF reserve_paths
<1>2. ASSUME NEW s, NEW t, NEW raws, release_paths(s, t, raws) PROVE FiledLeases'
  <2> DEFINE key == LeaseKey(s, t, Normalized(raws))
  <2>1. CASE leases' = leases
    BY <2>1 DEF FiledLeases
  <2>2. CASE key \in DOMAIN leases /\ leases' = [leases EXCEPT ![key].status = "released"]
    <3>1. DOMAIN leases' = DOMAIN leases
      BY <2>2
    <3>2. \A k \in DOMAIN leases :
            leases'[k] = IF k = key THEN [leases[k] EXCEPT !.status = "released"]
                                    ELSE leases[k]
      BY <2>2
    <3> HIDE DEF key
    <3>3. \A k \in DOMAIN leases :
            /\ leases'[k] \in LeaseType
            /\ leases'[k].session = leases[k].session /\ leases'[k].task = leases[k].task
            /\ leases'[k].paths = leases[k].paths
      BY <3>2 DEF FiledLeases, LeaseType, Statuses
    <3>4. QED
      BY <3>1, <3>3 DEF FiledLeases
  <2>3. QED
    BY <1>2, <2>1, <2>2 DEF release_paths
<1>3. ASSUME NEW s, NEW t, mark_lease_stale(s, t) PROVE FiledLeases'
  BY <1>3, MarkedFiled DEF mark_lease_stale
<1>4. ASSUME NEW K, NEW R, reserve_paths_crash(K, R) PROVE FiledLeases'
  BY <1>4, MarkedFiled DEF reserve_paths_crash
<1>5. CASE UNCHANGED <<leases, clock>> \/ Tick
  BY <1>5 DEF FiledLeases, Tick
<1>6. \A mode \in ClaimModes : StoreMode[mode] \in Modes
  BY StoreAssumptions DEF StoreMode, Modes
<1>7. QED
  BY <1>1, <1>2, <1>3, <1>4, <1>5, <1>6, LeaseSteps DEF claim_paths, renew_lease, Modes

LEMMA NextClock == ASSUME clock \in 0 .. MaxClock, [Next]_vars PROVE clock' \in 0 .. MaxClock
<1>1. CASE Tick
  BY <1>1, StoreAssumptions DEF Tick
<1>2. CASE clock' = clock
  BY <1>2
<1>3. ASSUME NEW s, NEW t, NEW mode, NEW raws, NEW ttl,
             reserve_paths(s, t, mode, raws, ttl)
      PROVE  clock' = clock
  BY <1>3 DEF reserve_paths
<1>4. ASSUME NEW s, NEW t, NEW raws, release_paths(s, t, raws) PROVE clock' = clock
  BY <1>4 DEF release_paths
<1>5. ASSUME NEW s, NEW t, mark_lease_stale(s, t) PROVE clock' = clock
  BY <1>5 DEF mark_lease_stale
<1>6. ASSUME NEW K, NEW R, reserve_paths_crash(K, R) PROVE clock' = clock
  BY <1>6 DEF reserve_paths_crash
<1>7. QED
  BY <1>1, <1>2, <1>3, <1>4, <1>5, <1>6, LeaseSteps DEF claim_paths, renew_lease

(* Sessions, claims, leases and the ledger are well formed, and every lease  *)
(* is in the file its owner and paths name, however paths are spelled        *)
(* (CoordinationStore's writers, _path_key).                                 *)
THEOREM StoreTyped == Spec => []TypeOK
<1>1. Init => TypeOK
  BY StoreAssumptions DEF Init, TypeOK, EmptyBag, SetToBag, IsABag
<1>2. ASSUME TypeOK, [Next]_vars PROVE TypeOK'
  <2>1. /\ DOMAIN sessions \subseteq Sessions /\ TaskTypes /\ FiledLeases
        /\ LogTypes /\ clock \in 0 .. MaxClock /\ clock \in Nat
    BY <1>2, TypeParts, StoreAssumptions
  <2>2. /\ DOMAIN sessions' \subseteq Sessions /\ TaskTypes' /\ FiledLeases'
        /\ LogTypes' /\ clock' \in 0 .. MaxClock
    BY <1>2, <2>1, NextSessions, NextTasks, NextFiled, CallTyped, NextClock
  <2>3. QED
    BY <2>2 DEF TypeOK, TaskTypes, FiledLeases, LogTypes
<1>3. QED
  BY <1>1, <1>2, PTL DEF Spec

(* A task that one session holds is not held by another after any step:      *)
(* claim_task refuses it, and nothing else assigns tasks.                    *)
THEOREM TasksKept == Spec => TaskNotStolen
<1>1. ASSUME TypeOK, [Next]_vars, NEW t \in Tasks, TaskHeld(t), TaskHeld(t)'
      PROVE  tasks'[t].session = tasks[t].session
  <2>1. ASSUME NEW s \in Sessions, NEW u \in Tasks, NEW ttl \in TTLs,
               ~TaskHeld(u), tasks' = Put(tasks, u, Claim(s, ttl))
        PROVE  tasks'[t].session = tasks[t].session
    <3>1. t # u /\ t \in DOMAIN tasks
      BY <1>1, <2>1 DEF TaskHeld
    <3>2. QED
      BY <2>1, <3>1 DEF Put
  <2>2. ASSUME NEW u \in DOMAIN tasks, tasks' = [tasks EXCEPT ![u].status = "released"]
        PROVE  tasks'[t].session = tasks[t].session
    <3>1. t \in DOMAIN tasks
      BY <1>1 DEF TaskHeld
    <3>2. CASE t = u
      BY <1>1, <2>2, <3>1, <3>2 DEF TypeOK
    <3>3. CASE t # u
      BY <2>2, <3>1, <3>3
    <3>4. QED
      BY <3>2, <3>3
  <2>3. QED
    BY <1>1, <2>1, <2>2, TaskSteps
<1>2. TypeOK /\ [Next]_vars =>
        [\A t \in Tasks : TaskHeld(t) /\ TaskHeld(t)'
            => tasks'[t].session = tasks[t].session]_vars
  BY <1>1
<1>3. QED
  BY <1>2, StoreTyped, PTL DEF Spec, TaskNotStolen

-----------------------------------------------------------------------------
(* Stale leases and their events. *)

(* An event says that a lease of this owner on these paths is over. *)
Told(s, t, paths) ==
    \/ crashes > 0
    \/ Event("coord.lease.expired", s, t, paths) \in BagToSet(log)
    \/ Event("coord.lease.marked_stale", s, t, <<>>) \in BagToSet(log)

(* The events about lease k, if it is over. *)
StaleTold(k) ==
    leases[k].status = "stale" => Told(leases[k].session, leases[k].task, leases[k].paths)

(* Lease k is what it was, but for its status. *)
SameLease(k) ==
    /\ k \in DOMAIN leases
    /\ leases'[k].session = leases[k].session /\ leases'[k].task = leases[k].task
    /\ leases'[k].paths = leases[k].paths

LEMMA StaleParts == StaleReported <=> \A k \in DOMAIN leases : StaleTold(k)
  BY DEF StaleReported, ExpiredEvent, StaleTold, Told

(* Once told, told for ever. *)
LEMMA ToldKept ==
  ASSUME LogTypes, [Next]_vars, NEW k, SameLease(k), StaleTold(k),
         leases'[k].status = "stale" => leases[k].status = "stale"
  PROVE  StaleTold(k)'
<1>1. LogTypes' /\ crashes' >= crashes /\ BagToSet(log) \subseteq BagToSet(log')
  BY CallTyped
<1>2. QED
  BY <1>1 DEF StaleTold, Told, SameLease, LogTypes

(* A step that marks leases of K, each told about as it is marked. *)
LEMMA MarkTold ==
  ASSUME FiledLeases, StaleReported, LogTypes, [Next]_vars, NEW K,
         leases' = MarkedStale(K),
         \A k \in K \cap DOMAIN leases :
            \/ crashes' > 0
            \/ ExpiredEvent(k) \in BagToSet(log')
            \/ Event("coord.lease.marked_stale", leases[k].session, leases[k].task, <<>>)
                  \in BagToSet(log')
  PROVE  StaleReported'
<1>1. ASSUME NEW k \in DOMAIN leases' PROVE StaleTold(k)'
  <2>1. /\ k \in DOMAIN leases
        /\ leases'[k] = IF k \in K THEN [leases[k] EXCEPT !.status = "stale"] ELSE leases[k]
    BY DEF MarkedStale
  <2>2. SameLease(k) /\ (k \notin K => leases'[k] = leases[k])
    BY <2>1 DEF SameLease, FiledLeases, LeaseType
  <2>3. CASE k \in K
    BY <2>1, <2>2, <2>3 DEF SameLease, StaleTold, Told, ExpiredEvent
  <2>4. CASE k \notin K
    BY <2>1, <2>2, <2>4, ToldKept, StaleParts
  <2>5. QED
    BY <2>3, <2>4
<1>2. QED
  BY <1>1 DEF StaleReported, ExpiredEvent, StaleTold, Told

(* The events a surviving or a dying reservation leaves for swept leases. *)
LEMMA SweepTold ==
  ASSUME LogTypes, NEW E,
         Logged(ExpiredEvents(ExpiredKeys) \cup E) \/ Died(ExpiredEvents(ExpiredKeys))
  PROVE  \A k \in ExpiredKeys : ExpiredEvent(k) \in BagToSet(log')
<1>1. ExpiredEvents(ExpiredKeys) \subseteq BagToSet(log')
  BY AppendTyped
<1>2. QED
  BY <1>1 DEF ExpiredEvents

LEMMA ReserveTold ==
  ASSUME FiledLeases, StaleReported, LogTypes, [Next]_vars,
         NEW s, NEW t, NEW mode, NEW raws, NEW ttl, reserve_paths(s, t, mode, raws, ttl)
  PROVE  StaleReported'
<1>1. \A k \in ExpiredKeys : ExpiredEvent(k) \in BagToSet(log')
  BY SweepTold DEF reserve_paths
<1>2. CASE leases' = MarkedStale(ExpiredKeys)
  BY <1>1, <1>2, MarkTold
<1>3. CASE leases' = Put(MarkedStale(ExpiredKeys), LeaseKey(s, t, Normalized(raws)),
                         Lease(s, t, mode, Normalized(raws), ttl))
  <2> DEFINE key == LeaseKey(s, t, Normalized(raws))
             new == Lease(s, t, mode, Normalized(raws), ttl)
  <2>1. DOMAIN leases' = DOMAIN leases \cup {key} /\ leases'[key] = new
    BY <1>3 DEF Put, MarkedStale
  <2>2. \A k \in DOMAIN leases \ {key} :
          leases'[k] = IF k \in ExpiredKeys THEN [leases[k] EXCEPT !.status = "stale"]
                                            ELSE leases[k]
    BY <1>3 DEF Put, MarkedStale
  <2>3. new.status = "active"
    BY DEF Lease
  <2> HIDE DEF key, new
  <2>4. ASSUME NEW k \in DOMAIN leases' PROVE StaleTold(k)'
    <3>1. CASE k = key
      BY <2>1, <2>3, <3>1 DEF StaleTold
    <3>2. CASE k # key
      <4>1. k \in DOMAIN leases /\ SameLease(k)
        BY <2>1, <2>2, <2>4, <3>2 DEF SameLease, FiledLeases, LeaseType
      <4>2. CASE k \in ExpiredKeys
        BY <1>1, <4>1, <4>2 DEF SameLease, StaleTold, Told, ExpiredEvent
      <4>3. CASE k \notin ExpiredKeys
        BY <2>2, <3>2, <4>1, <4>3, ToldKept, StaleParts
      <4>4. QED
        BY <4>2, <4>3
    <3>3. QED
      BY <3>1, <3>2
  <2>5. QED
    BY <2>4 DEF StaleReported, ExpiredEvent, StaleTold, Told
<1>4. QED
  BY <1>2, <1>3 DEF reserve_paths

LEMMA ReleaseTold ==
  ASSUME FiledLeases, StaleReported, LogTypes, [Next]_vars,
         NEW s, NEW t, NEW raws, release_paths(s, t, raws)
  PROVE  StaleReported'
<1> DEFINE key == LeaseKey(s, t, Normalized(raws))
<1>1. \/ leases' = leases
      \/ key \in DOMAIN leases /\ leases' = [leases EXCEPT ![key].status = "released"]
  BY DEF release_paths
<1> HIDE DEF key
<1>2. ASSUME NEW k \in DOMAIN leases' PROVE StaleTold(k)'
  <2>1. CASE leases' = leases
    BY <1>2, <2>1, ToldKept, StaleParts DEF SameLease
  <2>2. CASE key \in DOMAIN leases /\ leases' = [leases EXCEPT ![key].status = "released"]
    <3>1. k \in DOMAIN leases
      BY <1>2, <2>2
    <3>2. leases'[k] = IF k = key THEN [leases[k] EXCEPT !.status = "released"] ELSE leases[k]
      BY <2>2, <3>1
    <3>3. SameLease(k) /\ (leases'[k].status = "stale" => leases[k].status = "stale")
      BY <3>1, <3>2 DEF SameLease, FiledLeases, LeaseType
    <3>4. QED
      BY <3>1, <3>3, ToldKept, StaleParts
  <2>3. QED
    BY <1>1, <2>1, <2>2
<1>3. QED
  BY <1>2 DEF StaleReported, ExpiredEvent, StaleTold, Told

LEMMA MarkCallTold ==
  ASSUME FiledLeases, StaleReported, LogTypes, [Next]_vars,
         NEW s, NEW t, mark_lease_stale(s, t)
  PROVE  StaleReported'
<1>1. PICK K \in SUBSET {k \in DOMAIN leases : OwnedBy(k, s, t)} :
         /\ leases' = MarkedStale(K)
         /\ Logged({Event("coord.lease.marked_stale", s, t, <<>>)}) \/ Unlogged
  BY DEF mark_lease_stale
<1>2. crashes' > 0 \/ Event("coord.lease.marked_stale", s, t, <<>>) \in BagToSet(log')
  <2>1. CASE Unlogged
    BY <2>1, StoreAssumptions DEF Unlogged, Died, LogTypes
  <2>2. CASE Logged({Event("coord.lease.marked_stale", s, t, <<>>)})
    BY <2>2, AppendTyped
  <2>3. QED
    BY <1>1, <2>1, <2>2
<1>3. \A k \in K : leases[k].session = s /\ leases[k].task = t
  BY <1>1 DEF OwnedBy
<1>4. QED
  BY <1>1, <1>2, <1>3, MarkTold

(* Every lease that was marked stale has an event that says so,              *)
(* unless a process died between marking and reporting                       *)
(* (CoordinationStore.reserve_paths's sweep, mark_lease_stale).              *)
THEOREM StaleAlwaysReported == Spec => []StaleReported
<1>1. Init => StaleReported
  BY DEF Init, StaleReported
<1>2. ASSUME StaleReported, TypeOK, [Next]_vars PROVE StaleReported'
  <2>1. FiledLeases /\ LogTypes
    BY <1>2, TypeParts
  <2>2. ASSUME NEW K, NEW R, reserve_paths_crash(K, R) PROVE StaleReported'
    <3>1. crashes' > 0
      BY <2>1, <2>2, StoreAssumptions DEF reserve_paths_crash, Died, LogTypes
    <3>2. QED
      BY <3>1 DEF StaleReported
  <2>3. CASE leases' = leases
    <3>1. \A k \in DOMAIN leases' : StaleTold(k)'
      BY <1>2, <2>1, <2>3, ToldKept, StaleParts DEF SameLease
    <3>2. QED
      BY <3>1 DEF StaleReported, ExpiredEvent, StaleTold, Told
  <2>4. CASE Tick
    BY <2>3, <2>4 DEF Tick
  <2>5. QED
    BY <1>2, <2>1, <2>2, <2>3, <2>4, ReserveTold, ReleaseTold, MarkCallTold, LeaseSteps
       DEF claim_paths, renew_lease
<1>3. QED
  BY <1>1, <1>2, StoreTyped, PTL DEF Spec

=============================================================================

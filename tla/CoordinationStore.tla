-------------------------- MODULE CoordinationStore -------------------------
(***************************************************************************)
(* CoordinationStore and PathLeaseManager: sessions, task claims and path  *)
(* leases as JSON files, every change reported in events.jsonl.  All       *)
(* writers hold the digester lock for a whole call, so a call is one step; *)
(* what it can leave behind when its process dies between the file write   *)
(* and the event is a step of its own.                                     *)
(***************************************************************************)
EXTENDS Integers, Bags, CoordinationPaths

CONSTANTS
    Sessions,    \* session ids, as sequences of characters
    Tasks,       \* task ids, as sequences of characters
    RawPathLists,\* path lists a caller may lease, before normalisation
    TTLs,        \* ttl_seconds values, in clock units
    Artifacts,   \* artifact hashes
    ClaimModes,  \* the modes in which paths are claimed
    Calls,       \* the operations the sessions of this instance call
    MaxCrashes,  \* bound on the number of processes that die inside a call
    MaxClock,    \* bound on the clock
    MaxEvents    \* bound on the number of events

ASSUME StoreAssumptions ==
    /\ Sessions \subseteq Seq(STRING) /\ Tasks \subseteq Seq(STRING)
    /\ TTLs \subseteq Nat /\ MaxClock \in Nat /\ MaxEvents \in Nat
    /\ ClaimModes \subseteq {"exclusive_write", "shared_read"}
    /\ MaxCrashes \in Nat

VARIABLES
    sessions,   \* sessions/<id>.json: the status of a registered session
    tasks,      \* tasks/<id>.json: a function from task ids to claims
    leases,     \* leases/paths/<key>.json: a function from keys to reservations
    conflicts,  \* ids with a file in conflicts/
    artifacts,  \* hashes with a file in artifacts/
    log,        \* events.jsonl, as a bag of payloads
    clock,      \* datetime.now(UTC)
    crashes     \* history: how many processes died inside a call

vars == <<sessions, tasks, leases, conflicts, artifacts, log, clock, crashes>>

-----------------------------------------------------------------------------
(* Records. *)

Statuses == {"active", "stale", "released"}
Modes    == {"read", "write"}

Claim(s, ttl) == [session |-> s, expires |-> clock + ttl, status |-> "active"]

(* Mutant: the reservation does not record its task. *)
Lease_NoTask(s, t, mode, paths, ttl) ==
    [session |-> s, task |-> <<>>, mode |-> mode, paths |-> paths,
     expires |-> clock + ttl, status |-> "active"]

Lease(s, t, mode, paths, ttl) ==
    [session |-> s, task |-> t, mode |-> mode, paths |-> paths,
     expires |-> clock + ttl, status |-> "active"]

Normalized(raws) == [i \in DOMAIN raws |-> normalize_path(raws[i])]

(* The lease's file name hashes session_id + task_id + paths: two owners     *)
(* whose ids concatenate to the same text share a file.  (Ids that run into  *)
(* the text of the first path are left out.)                                 *)
LeaseKey(s, t, paths) == <<s \o t, paths>>

(* Names of the files in conflicts/. *)
TaskConflict(t, s)  == <<"task", t \o s>>
PathConflict(paths) == <<"paths", paths>>

Event(name, s, t, detail) ==
    [name |-> name, session |-> s, task |-> t, detail |-> detail]

(* The lock holder appends its events, or dies having appended some of them. *)
Appended(events) ==
    /\ BagCardinality(log) + Cardinality(events) <= MaxEvents
    /\ log' = log (+) SetToBag(events)

Logged(events) == Appended(events) /\ UNCHANGED crashes

Died(events) ==
    /\ crashes < MaxCrashes /\ crashes' = crashes + 1
    /\ Appended(events)

Unlogged == Died({})

Put(f, k, v) == [x \in DOMAIN f \cup {k} |-> IF x = k THEN v ELSE f[x]]

-----------------------------------------------------------------------------
(* Sessions. *)

register_session(s, status) ==
    /\ "register_session" \in Calls
    /\ sessions' = Put(sessions, s, status)
    /\ Logged({Event("coord.session.registered", s, <<>>, status)}) \/ Unlogged
    /\ UNCHANGED <<tasks, leases, conflicts, artifacts, clock>>

(* A heartbeat updates a registered session and extends no lease. *)
heartbeat(s, t, status) ==
    /\ "heartbeat" \in Calls
    /\ sessions' = IF s \in DOMAIN sessions THEN Put(sessions, s, status) ELSE sessions
    /\ Logged({Event("coord.session.heartbeat", s, t, status)}) \/ Unlogged
    /\ UNCHANGED <<tasks, leases, conflicts, artifacts, clock>>

-----------------------------------------------------------------------------
(* Task claims. *)

TaskHeld(t) ==
    /\ t \in DOMAIN tasks
    /\ tasks[t].status = "active" /\ tasks[t].expires > clock

ClaimEvent(t, claim, renewal) ==
    Event("coord.task.claimed", claim.session, t, <<claim.expires, renewal>>)

(* Mutant: a second session's claim overwrites the first's. *)
claim_task_Steals(s, t, ttl) ==
    /\ "claim_task" \in Calls
    /\ tasks' = Put(tasks, t, Claim(s, ttl))
    /\ Logged({ClaimEvent(t, Claim(s, ttl), FALSE)})
    /\ UNCHANGED <<sessions, leases, conflicts, artifacts, clock>>

(* The owner's second claim is reported as a renewal; the file is left alone. *)
claim_task(s, t, ttl) ==
    /\ "claim_task" \in Calls
    /\ \/ /\ TaskHeld(t) /\ tasks[t].session = s
          /\ Logged({ClaimEvent(t, tasks[t], TRUE)})
          /\ UNCHANGED <<tasks, conflicts>>
       \/ /\ TaskHeld(t) /\ tasks[t].session # s
          /\ conflicts' = conflicts \cup {TaskConflict(t, s)}
          /\ \/ Logged({Event("coord.task.claim_refused", s, t, tasks[t].session)})
             \/ Unlogged
          /\ UNCHANGED tasks
       \/ /\ ~TaskHeld(t)
          /\ tasks' = Put(tasks, t, Claim(s, ttl))
          /\ Logged({ClaimEvent(t, Claim(s, ttl), FALSE)}) \/ Unlogged
          /\ UNCHANGED conflicts
    /\ UNCHANGED <<sessions, leases, artifacts, clock>>

(* Any session may release any task. *)
release_task(s, t) ==
    /\ "release_task" \in Calls
    /\ tasks' = IF t \in DOMAIN tasks
                  THEN [tasks EXCEPT ![t].status = "released"] ELSE tasks
    /\ Logged({Event("coord.task.released", s, t, <<>>)}) \/ Unlogged
    /\ UNCHANGED <<sessions, leases, conflicts, artifacts, clock>>

-----------------------------------------------------------------------------
(* Path leases. *)

PathListsOverlap(ps, qs) ==
    \E i \in DOMAIN ps, j \in DOMAIN qs :
        IsPathPrefix(ps[i], qs[j]) \/ IsPathPrefix(qs[j], ps[i])

(* Mutant: every active lease is swept. *)
Expired_Active(k) == leases[k].status = "active"

Expired(k) == leases[k].status = "active" /\ leases[k].expires <= clock

InForce(k) == leases[k].status = "active" /\ leases[k].expires > clock
ExpiredKeys == {k \in DOMAIN leases : Expired(k)}
ForceKeys   == {k \in DOMAIN leases : InForce(k)}

(* Mutant: ownership is decided by the session alone. *)
OwnedBy_SessionOnly(k, s, t) == leases[k].session = s

OwnedBy(k, s, t) == leases[k].session = s /\ leases[k].task = t

MarkedStale(K) ==
    [k \in DOMAIN leases |->
        IF k \in K THEN [leases[k] EXCEPT !.status = "stale"] ELSE leases[k]]

ExpiredEvent(k) ==
    Event("coord.lease.expired", leases[k].session, leases[k].task, leases[k].paths)

(* Mutant: expired leases are marked and not reported. *)
ExpiredEvents_None(K) == {}

ExpiredEvents(K) == {ExpiredEvent(k) : k \in K}

ReservedEvent(lease, renewal) ==
    Event("coord.path.reserved", lease.session, lease.task,
          <<lease.mode, lease.paths, lease.expires, renewal>>)

(* Leases in force that keep owner (s, t) from leasing raws in this mode.   *)
(* The requested paths are compared as the caller spelled them.             *)
Blocking(s, t, mode, raws) ==
    {k \in ForceKeys :
        /\ ~OwnedBy(k, s, t)
        /\ mode = "write" \/ leases[k].mode = "write"
        /\ PathListsOverlap(leases[k].paths, raws)}

reserve_paths(s, t, mode, raws, ttl) ==
    LET paths    == Normalized(raws)
        renewal  == \E k \in ForceKeys : OwnedBy(k, s, t)
        lease    == Lease(s, t, mode, paths, ttl)
        expired  == ExpiredEvents(ExpiredKeys)
    IN  /\ \/ /\ \E k \in Blocking(s, t, mode, raws) :
                   \/ Logged(expired \cup {Event("coord.path.reservation_refused", s, t,
                                                 paths)})
                   \/ Died(expired)
              /\ conflicts' = conflicts \cup {PathConflict(paths)}
              /\ leases' = MarkedStale(ExpiredKeys)
           \/ /\ Blocking(s, t, mode, raws) = {}
              /\ leases' = Put(MarkedStale(ExpiredKeys), LeaseKey(s, t, paths), lease)
              /\ \/ Logged(expired \cup {ReservedEvent(lease, renewal)})
                 \/ Died(expired)
              /\ UNCHANGED conflicts
        /\ UNCHANGED <<sessions, tasks, artifacts, clock>>

(* The process dies while it marks expired leases: it has marked those of K *)
(* and reported those of R, all of K or all but the last.                    *)
reserve_paths_crash(K, R) ==
    /\ Calls \cap {"claim_paths", "renew_lease"} # {}
    /\ R \subseteq K /\ Cardinality(K \ R) <= 1
    /\ leases' = MarkedStale(K)
    /\ Died(ExpiredEvents(R))
    /\ UNCHANGED <<sessions, tasks, conflicts, artifacts, clock>>

StoreMode == [exclusive_write |-> "write", shared_read |-> "read"]

claim_paths(s, t, mode, raws, ttl) ==
    /\ "claim_paths" \in Calls
    /\ reserve_paths(s, t, StoreMode[mode], raws, ttl)

(* A renewal is a reservation in mode read, whatever the lease's mode was. *)
renew_lease(s, t, raws, ttl) ==
    /\ "renew_lease" \in Calls
    /\ reserve_paths(s, t, "read", raws, ttl)

release_paths(s, t, raws) ==
    LET paths == Normalized(raws)
        key   == LeaseKey(s, t, paths)
    IN  /\ "release_paths" \in Calls
        /\ \/ /\ key \in DOMAIN leases /\ leases[key].session = s
              /\ leases' = [leases EXCEPT ![key].status = "released"]
              /\ Logged({Event("coord.path.released", s, t, paths)}) \/ Unlogged
           \/ /\ key \in DOMAIN leases /\ leases[key].session # s
              /\ Logged({Event("coord.path.release_denied", s, t, <<"not_owner", paths>>)})
              /\ UNCHANGED leases
           \/ /\ key \notin DOMAIN leases
              /\ Logged({Event("coord.path.release_denied", s, t, <<"not_found", paths>>)})
              /\ UNCHANGED leases
        /\ UNCHANGED <<sessions, tasks, conflicts, artifacts, clock>>

(* Every lease of the owner becomes stale, released and expired ones too. *)
mark_lease_stale(s, t) ==
    /\ "mark_lease_stale" \in Calls
    /\ \E K \in SUBSET {k \in DOMAIN leases : OwnedBy(k, s, t)} :
          /\ leases' = MarkedStale(K)
          /\ \/ /\ K = {k \in DOMAIN leases : OwnedBy(k, s, t)}
                /\ Logged({Event("coord.lease.marked_stale", s, t, <<>>)})
             \/ K # {} /\ Unlogged
    /\ UNCHANGED <<sessions, tasks, conflicts, artifacts, clock>>

-----------------------------------------------------------------------------
(* Everything else that is reported. *)

(* Mutant: the event is appended before the file is written. *)
publish_artifact_LogFirst(s, t, a) ==
    /\ "publish_artifact" \in Calls
    /\ \/ artifacts' = artifacts \cup {a} /\ Logged({Event("coord.artifact.published", s, t, a)})
       \/ UNCHANGED artifacts /\ Died({Event("coord.artifact.published", s, t, a)})
    /\ UNCHANGED <<sessions, tasks, leases, conflicts, clock>>

publish_artifact(s, t, a) ==
    /\ "publish_artifact" \in Calls
    /\ artifacts' = artifacts \cup {a}
    /\ Logged({Event("coord.artifact.published", s, t, a)}) \/ Unlogged
    /\ UNCHANGED <<sessions, tasks, leases, conflicts, clock>>

report_conflict(s, t) ==
    /\ "report_conflict" \in Calls
    /\ conflicts' = conflicts \cup {TaskConflict(t, s)}
    /\ Logged({Event("coord.conflict.reported", s, t, <<>>)}) \/ Unlogged
    /\ UNCHANGED <<sessions, tasks, leases, artifacts, clock>>

record_event(s, t) ==
    /\ "record_event" \in Calls
    /\ Logged({Event("task_considered", s, t, <<>>)})
    /\ UNCHANGED <<sessions, tasks, leases, conflicts, artifacts, clock>>

request_handoff(s, target, t) ==
    /\ "request_handoff" \in Calls
    /\ Logged({Event("coord.handoff.requested", s, t, target)})
    /\ UNCHANGED <<sessions, tasks, leases, conflicts, artifacts, clock>>

Tick ==
    /\ clock < MaxClock
    /\ clock' = clock + 1
    /\ UNCHANGED <<sessions, tasks, leases, conflicts, artifacts, log, crashes>>

-----------------------------------------------------------------------------
Init ==
    /\ sessions = <<>> /\ tasks = <<>> /\ leases = <<>>
    /\ conflicts = {} /\ artifacts = {}
    /\ log = EmptyBag
    /\ clock = 0
    /\ crashes = 0

Next ==
    \/ Tick
    \/ \E K \in SUBSET ExpiredKeys : \E R \in SUBSET K : reserve_paths_crash(K, R)
    \/ \E s \in Sessions, t \in Tasks :
          \/ \E status \in {"running", "done"} :
                register_session(s, status) \/ heartbeat(s, t, status)
          \/ \E ttl \in TTLs : claim_task(s, t, ttl)
          \/ release_task(s, t)
          \/ \E raws \in RawPathLists, ttl \in TTLs :
                \/ \E mode \in ClaimModes : claim_paths(s, t, mode, raws, ttl)
                \/ renew_lease(s, t, raws, ttl)
          \/ \E raws \in RawPathLists : release_paths(s, t, raws)
          \/ mark_lease_stale(s, t)
          \/ \E a \in Artifacts : publish_artifact(s, t, a)
          \/ report_conflict(s, t)
          \/ record_event(s, t)
          \/ \E target \in Sessions : request_handoff(s, target, t)

Spec == Init /\ [][Next]_vars

-----------------------------------------------------------------------------
(* Properties. *)

LeaseType ==
    [session : Sessions, task : Tasks, mode : Modes,
     paths : {Normalized(raws) : raws \in RawPathLists}, expires : Nat,
     status : Statuses]

(* Types; a lease is filed under its owner's and its paths' key. *)
TypeOK ==
    /\ DOMAIN sessions \subseteq Sessions
    /\ DOMAIN tasks \subseteq Tasks
    /\ \A t \in DOMAIN tasks :
          tasks[t] \in [session : Sessions, expires : Nat, status : Statuses]
    /\ \A k \in DOMAIN leases :
          /\ leases[k] \in LeaseType
          /\ k = LeaseKey(leases[k].session, leases[k].task, leases[k].paths)
    /\ IsABag(log)
    /\ clock \in 0 .. MaxClock
    /\ crashes \in 0 .. MaxCrashes

SameOwner(k, l) == leases[k].session = leases[l].session /\ leases[k].task = leases[l].task

(* "exclusive_write blocks both read and write leases on overlapping paths": *)
(* two leases in force of different owners overlap only if both are reads,   *)
(* whatever was renewed, released, expired or lost in a crash before.        *)
LeaseExclusion ==
    \A k, l \in ForceKeys :
        ~SameOwner(k, l) /\ PathListsOverlap(leases[k].paths, leases[l].paths)
            => leases[k].mode = "read" /\ leases[l].mode = "read"

(* What the leases in force are to anybody who asks. *)
Held ==
    {[session |-> leases[k].session, task |-> leases[k].task, mode |-> leases[k].mode,
      paths |-> leases[k].paths, expires |-> leases[k].expires] : k \in ForceKeys}

Promise == INSTANCE PathLeases WITH
    held <- Held, now <- clock, Overlap <- PathListsOverlap,
    PathLists <- {Normalized(raws) : raws \in RawPathLists}

(* The files keep the promise of PathLeases: a lease is only granted beside  *)
(* compatible ones, and once granted it stays in force until it expires, a   *)
(* call for its owner releases it or marks it stale, or a lease on the same  *)
(* paths is written to its file.  Nobody's call ends leases of two owners.   *)
KeepsPromise == Promise!Spec

(* "Expired/stale leases are reported": a lease that became stale has an     *)
(* event that says so, unless a process died between the two.                *)
StaleReported ==
    \A k \in DOMAIN leases : leases[k].status = "stale" =>
        \/ crashes > 0
        \/ ExpiredEvent(k) \in BagToSet(log)
        \/ Event("coord.lease.marked_stale", leases[k].session, leases[k].task, <<>>)
              \in BagToSet(log)

(* The ledger reports nothing that is not on disk, since every file is       *)
(* written before its event, even if the process dies in between.            *)
LoggedIsWritten ==
    \A e \in BagToSet(log) :
        /\ e.name = "coord.session.registered" => e.session \in DOMAIN sessions
        /\ e.name = "coord.task.claimed" => e.task \in DOMAIN tasks
        /\ e.name = "coord.path.reserved" =>
              LeaseKey(e.session, e.task, e.detail[2]) \in DOMAIN leases
        /\ e.name = "coord.artifact.published" => e.detail \in artifacts
        /\ e.name \in {"coord.conflict.reported", "coord.task.claim_refused"} =>
              TaskConflict(e.task, e.session) \in conflicts
        /\ e.name = "coord.path.reservation_refused" =>
              PathConflict(e.detail) \in conflicts

(* A task held by one session never passes to another in one step: it is     *)
(* released or expires first.                                                *)
TaskNotStolen ==
    [][\A t \in Tasks : TaskHeld(t) /\ TaskHeld(t)'
          => tasks'[t].session = tasks[t].session]_vars

(* "Renew an existing lease by extending its TTL": a renewal changes the     *)
(* expiry of the owner's lease and not what the lease excludes.              *)
RenewalKeepsMode ==
    [][\A s \in Sessions, t \in Tasks, raws \in RawPathLists, ttl \in TTLs :
          LET k == LeaseKey(s, t, Normalized(raws))
          IN  renew_lease(s, t, raws, ttl) /\ k \in ForceKeys /\ OwnedBy(k, s, t)
                  => leases'[k].mode = leases[k].mode]_vars

=============================================================================

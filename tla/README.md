# Rig Relay: TLA+ models of coordination, workspaces, supervision, disclosure and local inference

Rig Relay lets several coding agents work on one repository. What keeps them
apart is a set of files that any number of processes read and write (a ledger
of exclusive claims, a store of leases and task claims, a queue of work items,
execution leases), a service that gives every agent a git worktree of its own
and must not lose what is in it, a supervisor that runs commands in such a
worktree, a corridor through which protected content may be disclosed, and a
local model that all agents of a machine share. This project
models those parts: the ones whose correctness depends on interleavings,
crashes, cancellation and half-done work rather than on data.

The models are written from the Python source; every definition that stands
for code is listed in `PROJECT.json` under `map`, with its file and lines.

## 1. Inventory

### Modelled

| Part | State | Operations | Interaction |
|---|---|---|---|
| Fleet claim store, `coordination/fleet_claims.py` | `coordination_events.v1.jsonl` (append-only, numbered, digest-linked), `claims/<id>.json` pointer files, a thread lock and a `flock` | acquire (per authority and per workspace), renew, start editing, tests completed, ready, accept integration, release (two kinds), park | every call takes the lock, replays the ledger, decides, appends one event, maintains a pointer and returns |
| Coordination store, `coordination/store.py`, and `PathLeaseManager`, `coordination/lease_manager.py` | one JSON file per session, task, lease, conflict and artifact; `events.jsonl` | register, heartbeat, claim and release a task, reserve, renew, release and stale-mark paths, publish, report, record, hand off | writers hold the digester lock for a whole call; readers take no lock |
| Fleet queue and runner, `coordination/fleet_queue.py`, `fleet_queue_runner.py` | `queue/events.jsonl`, replayed on every access; no lock | enqueue, cancel, mark running, completed, failed or blocked; `run_once` | a runner selects, marks, awaits an executor and marks again; other tasks and processes write in between |
| Workspace service, `workspace/_service.py` | `workspaces/<id>.json`, a copy of each record in memory, a lifecycle ledger, the git worktree and its lock | request, create, bootstrap, activate, work, review, integrate, retire, remove, reset, quarantine, detach, recover, assign, release | most operations check the record on disk and then let `_transition` change the copy in memory and save it |
| Execution leases and runtime supervisor, `coordination/execution_lease.py`, `runtime/supervisor.py`, `runtime/supervisor_state_machine.py` | one file per lease, a state machine, a subprocess, its pipes, a deadline | acquire, release, expire; `execute` | an async generator between a caller that may cancel or drop it and a process that may exit, hang, stall or leave descendants |
| Disclosure corridor, `governance/disclosure_transition.py`, `disclosure_authorization.py` | `transitions.jsonl`, authorisation receipts with their use counts, disclosure receipts, the manifest of protected content, `disclosure_events.v1.jsonl`, a lock | `execute_disclosure_transition`, `recover_disclosure_transition`, consume, expiry | a call makes six durable writes to five places, each followed by an event in the transition ledger; another process takes over where one died |
| Local inference runtime, `local_inference/runtime/` | a scheduler with one slot, active streams, engine threads behind one lock, execution and stream ledgers that keep the first entry of an operation | `execute`, `stream_execute`, the agent loop, cancel, shutdown, load and unload | coroutines, threads and consumers of generators; cancellation and shutdown at any await |

What is hard in them:

* *interleaving*: check-then-append by several processes; a queue and a lease
  store without any lock; an item read before an `await` and written after it;
  agents that edit a worktree while the service decides to remove it;
* *crashes and partial failure*: between the append and the pointer file,
  between a file and its event, between `mark_running` and the result, between
  any two writes of a disclosure, between a
  saved state and its ledger entry; a roll-back that fails too; an append cut
  off before its newline, to which the next line is glued;
* *time*: claims and leases expire while they are renewed, released, used or
  asked for by others; deadline, stall and exit in one instant;
* *cancellation*: `CancelledError` at an await that already handles another end,
  `GeneratorExit` at a yield, where only `finally` runs;
* *stale copies*: the record in memory against the record on disk;
* *identity*: path spellings, lease file names and event ids that are hashes
  of text.

What makes each part correct: claims and leases exclude each other although
all of the above happens; what a caller is told is in the ledger; the ledger
says nothing that is not on disk; its numbering stays ordered; replay gives
every reader the same picture; inactive claims stay inactive; locks are
released; queue items wait for their dependencies, run once, are not left
running, and are not starved; a workspace's record, ledger and worktree stay in
step and unsaved work survives; a worktree is given back only when its process
has ended, and what is reported of the process is true; a disclosure is backed
by a use of its authorisation that backs nothing else, however often it is
retried; the model's slot comes back and nothing counts as completed without evidence.

### Not modelled

`PROJECT.json` lists every other part with the reason. The repository has about
327 000 lines in 1 200 files; most of them (desktop, renderers, protocol and
provider adapters, research scripts, analytics, set-up, data classes) are I/O,
formatting or data transformation without shared state of their own, so a
share of the lines as large as a third is out of reach of any model that is
faithful. The stateful parts still open are in the plan (section 7).

Inside the modelled parts the following is left out:

* *read errors*: `FleetClaims` has them. Elsewhere a file that cannot be read is
  not modelled: a lease (`store.py:129`, `execution_lease.py:140`) is then passed
  over and excludes nobody, a workspace record counts as absent
  (`_service.py:1552`), and the last lifecycle event as missing
  (`_evidence.py:74`), which only leaves a digest out;
* *claim store*: an error of `LOCK_UN` (`fleet_claims.py:178`);
* *store*: readers (they change nothing), torn lines, sequence numbers and event
  ids of `events.jsonl` (that ledger only reports; the one that decides is in
  `FleetClaims`);
* *workspace service*: the boundary-claim operations, which forward to the
  fleet claim store, and their events in the lifecycle ledger; several workspaces
  (they share nothing but the ledger file, where `append_elsewhere` stands for
  them); the digests that link lifecycle events; a fragment that ends within a
  character, on which `load_events` raises;
* *supervisor*: `_lease_gate.py`, the lease store's `cancel` and `fail`, which
  `execute` does not call, and the contents of chunks, digests and traces;
* *disclosure*: issuing an authorisation (the initial state), lines of the ledger
  that do not parse or have another schema version, files that disappear, the
  compilation receipt;
* *local inference*: `RiggedBatchScheduler`, the prompt cache, the model pool.

## 2. Modules

| Module | Role |
|---|---|
| `CoordinationPaths` | `normalize_path` and the prefix comparison both stores use |
| `FleetClaims` | the claim store; `FleetReplay` adds the replay as the code computes it |
| `PathLeases` | the abstract lease service: grant, end, expire |
| `CoordinationStore` | the store and the lease manager, which implement `PathLeases` |
| `FleetQueue` | the queue and its runners |
| `WorkspaceService` | the life of a managed workspace |
| `RuntimeSupervisor` | executions under the leases of one worktree |
| `DisclosureTransition` | the disclosure corridor and its authorisations |
| `LocalRuntime` | requests to the local model |
| `MC*` | instances for TLC |
| `*Proofs` | the theorems |

Definitions named `X_Something` under a comment "Mutant" are faulty variants of
`X`; they are used only to show that the properties notice such a fault.

### FleetClaims

`ledger` is the sequence of lines; a line that does not parse is `Garbled`.
`tail` says whether the file ends with a newline. A call is three steps, because
a process can fail between them: *enter and decide* (`_acquire`, replay, checks),
*append* (`_append_event`), *finish* (pointer file, return, `_release`).
`AbortBeforeAppend` is validation or I/O that raises before the write,
`AppendTorn` an append that stops halfway or just before its newline,
`CrashAfterAppend` death before the return. A refusal without an event, and a
read, change nothing and are stuttering steps.

There are two locks: `thread`, one per `FleetClaimStore` object, and `lock`, the
`flock` on the lock file. `StoreOf` says which threads share an object. Both are
released by `finally` or by the death of the process. `FlockFails` is `_acquire`
raising after it has taken the thread lock, outside the callers' `try`.

An error while the ledger is read is passed over by the code in three places, and
the call goes on: the replay decides on the lines before the error (`Replays`; an
operation takes what its replay has read as a parameter `L`), the next number is 1
(`NextSequence`), the prior digest is none (`LastEventDigest`). Each of the three
readings may fail on its own (`Faults`), at most `MaxMissed` times in a run. A
line's field `missed` is history: which readings failed for it.

A digest is represented by the sequence number it covers. Claim ids are fresh
values of a finite set (`uuid4`). `Active` states the replay declaratively: the
index of the acquiring event, no terminal event after it, and an expiry set by
its latest lease event. `FleetReplay` has the one-pass dictionary version and
`ReplayMatches` compares them in every reachable state, for every filter and for
every part of the ledger that a failing reader may have got (proved for ledgers of
any length in `FleetReplayProofs`).
The clock may advance between any two steps, also while a process is inside the
lock.

### CoordinationStore and PathLeases

A call is one step, since writers hold the digester lock throughout. Every
disjunct that writes a file and then an event has a variant in which the event
is missing (`Died`): the process died in between, at most `MaxCrashes` times.
`reserve_paths_crash` is the death inside the loop that marks expired leases,
after any part of it. `log` is a bag, since only the multiplicity and presence of
events matter here. Session and task ids are sequences of characters, because the
lease file's name concatenates them. Ids that would run into the text of the first
path are left out. Paths are sequences of segments, compared as the code compares
them: the requested ones as spelled, the stored ones normalised.

`PathLeases` knows only a set of leases in force and the time. The refinement
mapping (`Held`, `Promise`) maps the files whose status is active and whose
expiry lies ahead to that set. A claim or renewal is a `Grant`, a release or a
stale mark an `End`, a tick drops what expires; marking expired leases, all
other calls and all deaths before the lease file is written are stuttering
steps. Because of the file-name collision a `Grant` may replace a lease of
another owner on the same paths; the service allows this and nothing more.

### FleetQueue

`items` is what replay gives; `kept` is what it gives without a last line that
lacks its newline, which is what remains once another line is glued to it.
`run_once` has a step per append: `select` (which keeps the item it read),
`mark_running`, `dispatch` (to the executor, or straight to the final status),
`finish`. With `Shared` other processes may write between any two of them; without
it only while the executor is awaited. `created_at` is a rank. `Reuse` lets
callers enqueue an id again, which `enqueue_item` does not prevent; the runs use
fresh ids (an item that is enqueued again and again can starve, and a dependency
that is enqueued again is not terminal), two of the theorems cover both. The status
`superseded` is read by the code but no operation sets it. The executor is
external: it answers with any status or raises. `mishaps` is a history variable
that says whether an append was torn or a process died; three properties are
about behaviours without one of them.

### WorkspaceService

One workspace. `file` is its record on disk, `cache` each service's copy in
`_workspaces`, `tree` and `locked` what git and the file system have. `ledger` is
the end of the lifecycle ledger: the last event that can be read (`NoEvent` before
the first), the one before it if the last has no newline yet, and whether the file
ends with a whole line. An append may fail before its line, with the line in the
file (a `flush` or `fsync` that raises), or within it; a line written after a
fragment is lost with it, and other workspaces' appends (`append_elsewhere`) end
or leave such fragments. `slip`, a history field, says whether the last append
that wrote anything failed and was kept, or lost an event. A call is a record in `call`: the steps of an
operation are its writes, and `plan` lists the transitions it has still to make.
`transition_save` and `transition_append` are the two halves of `_transition`
with the three ways to fail (refused, save failed, append failed) and the
roll-back. `_VALID_TRANSITIONS` is the code's table. `Work` is the agents:
they make the worktree dirty and clean at any time. `crash` restarts a service
with what is on disk. `occupants` and `unreported` are history variables: which
sessions were told that the workspace is theirs, and whether a save stayed
without its event.

### RuntimeSupervisor

All executions want the same worktree. `pc` names the await or yield at which
`execute` is suspended; a step runs from one to the next, so `LoopTop`,
`CheckStall`, `CheckHardStall` and `CheckBudget` compose into one pass of the
supervision loop, in the code's order. `sm` is the state machine with the code's
table: an event it refuses raises, and the model follows the exception.
`cancel` arrives at awaits, `abandon` (`GeneratorExit`) at yields. The process,
its pipes, silence, the deadline and the lease's expiry go on meanwhile. Time is
reduced to what the loop compares: past the warning, past the limit, past the
deadline. `acquire` is two steps because it holds no lock; the history variable
`raced` has the pairs of which one was between check and write when the other
checked. `Live` are the executions whose
supervisor keeps running; the others may stop anywhere, with everything they
hold.

### DisclosureTransition

All calls are about one projection and its evidence. `ledger` holds the events of
the transitions, each with the whole plan, as in the code; `used` is the count in
the authorisation's receipt, `receipts` the disclosure receipts, `manifest` the
selectors marked as disclosed, `events` the disclosure events. A selector that the
manifest does not list (`Listed`) is not marked, and the corridor, which does not
look at the result of `mark_selector_disclosed`, goes on. A digest is
represented by what it covers: the manifest's by its marks, a consumed receipt's
by the use it seals. A call keeps its `DisclosureTransition` object in `t`, and
`at` says which durable write comes next: one step per write, and
`advance_transition` in between. A write may raise before or after it took
effect (`Faults`), and `abort` is a death, or an exception that `execute` turns
into an error, at any point. `execute` and `recover` share the steps; they differ
in where they begin (`prepare_transition`, `resume_transition`), in `FirstStep`
and in what a failed receipt means. What both do before they have the lock is a
step of its own, since it may be stale by the time they get it.

### LocalRuntime

`sched` is the scheduler's state of a request, `thread` its engine thread,
`item` what the thread left in the queue, `active` the registered streams,
`receipt` and `terminal` the two ledgers, in which an operation keeps its first
entry. `execute`, `stream_execute` and a turn of the agent loop share admission
(`Submit`) and the end (`finish`). Ids are used once, as in the code. `Faults`
chooses what may go wrong: evidence and engine failures, cancellation, dropped
generators, unloading, time-outs of the joins, refusal by the secret scan.

## 3. Runs

Each passing run asks one question; the properties are defined, with the
statement in words, in the module of the component.

| Run | Distinct states | What it shows |
|---|---|---|
| `fleet_claims` | 905 502 | two processes with a store each, two claims, two authorities, `src` and `src/a`, three events, both kinds of torn append, a reading of any kind that fails: exclusion, order and links, grants and pointers backed by the ledger, replay of damaged ledgers |
| `fleet_lifecycle` | 177 152 | two threads of one process, the operations of a claim's life, three events, fresh and stale bases, a replay that fails, a `flock` that raises: replay, no resurrection, and both locks are released |
| `store_leases` | 45 081 | all lease operations, two nested paths, ids that collide, two clock ticks: exclusion, stale leases are reported, refinement of `PathLeases` |
| `store_calls` | 686 024 | all calls of the store, with one death inside a call: events are backed by files, tasks are not stolen |
| `queue` | 235 707 | two items of all kinds, one runner, other writers, crashes, torn appends: dependencies first, executed once, nothing left running, nothing ready is starved |
| `workspace` | 725 260 | one service, two sessions, every operation and every fault |
| `supervisor` | 552 426 | two executions that may race for the lease, one with the faults of output and budget, one with all others; the latter ends, even if its process runs for ever and the other supervisor stops |
| `disclosure` | 1 142 807 | two processes that execute and recover, an authorisation of two uses, two selectors, one of them listed and in scope, nine ledger events, every failure and death: uses are not shared, events are marked, transitions complete once and with their event |
| `local_runtime` | 1 282 102 | two requests of any kind, two turns, every fault, shutdown |
| `local_slot` | 135 616 | two requests, cancelled, dropped or refused: the slot comes back |

*Bounds.* Two processes, sessions, executions or requests suffice for every
pairwise conflict; the theorems of section 5 remove the bound for the safety
properties that matter most. Two paths, one inside the other, give equality and
both directions of containment. A TTL of one and a clock up to two let a lease
expire, be taken over and expire again. In the claim runs the clock ends at one
and a TTL is one, or one or two: a claim expires, or outlives a renewal. Three events
allow acquire, renew or release, and a second acquire after a torn line or by a
call that could not read the first; one failing reading (`MaxMissed`) per ledger
leaves calls before and after it that read everything. The selector that is not
listed is refused in the run of the corridor, being out of scope; the theorem
covers the rest. `MaxExecs` only caps a history
counter, at a value where `ExecutedOnce` has failed. Nine ledger
events are a complete chain of six and a second one, forked, refused or under
way; two uses let a second event compete for the first one's. `MaxTurns` of two lets the
agent loop take another turn and reach its limit. The workspace's state is finite
by itself, and its run checks deadlock. In the others `CHECK_DEADLOCK` is off: the instances stop at their
bounds, when all executions have ended, or when all requests are used up.

*Symmetry* is used over processes, claims and authorities in `fleet_claims`, over
sessions in `workspace`, and over processes and transition ids in `disclosure`;
only `workspace` checks an action property as well, which names no session.

*Views.* `fleet_lifecycle` identifies states that differ in `returned` and
`pointers`, which no guard and none of its properties reads. `workspace`
identifies ledgers that differ in the event before the last (`past`), and also in
the last one while `slip` is "lost" or the state is unreported. No guard reads
either; `past` becomes the last event only when one is lost; and `LedgerAgrees`
says nothing of the ledger until the next proper append, which replaces both.
`supervisor` forgets of an execution that has ended everything but its lease,
whether its process is alive, the pipes of the live one and whether the two
invariants about its end hold; of a lease given back its expiry; and of a race
whatever it was once one of the two can have no process any more. Its types are
looked at in one state of each such class only, and proved for all.

*Fairness.*

* `FleetClaims!FairSpec`: weak fairness of what a thread does once it has both
  locks. It computes and writes local files and waits for nobody, and if it
  dies the operating system releases them.
* `FleetQueue!FairSpec`: `run_once` is called again and the executor answers or
  raises; nothing is assumed about enqueueing and cancelling. `Drains` excepts
  behaviours with a death or a torn append: the code has no recovery for an item
  left running by a dead runner, and `ExecutedOnce` shows the other side of that
  choice.
* `RuntimeSupervisor!FairSpec`: the event loop resumes the supervisor (each of its
  awaits has a time-out or waits for a killed process or closed pipes), its
  consumer asks for the next event, the deadline passes, and the pipes of a
  process that has ended close unless a descendant holds them. Nothing is assumed
  about the process: it may run for ever. Fairness is for the supervisors in
  `Live` only: what `Concludes` says of one does not depend on the others.
* `LocalRuntime!FairSpec`: generations end (they are bounded by `max_tokens`); a
  waiting thread gets the generation lock, strongly, since others may take it in
  between; the event loop resumes tasks; consumers ask for the next token, and
  the end of a generation is read in the end (strongly: tokens come first).
  Nothing is assumed about cancellation, unloading or shutdown.

### Runs that show a disagreement

| Run | What the code does | What the repository says |
|---|---|---|
| `store_renew_mode` | `renew_lease` turns an exclusive lease into a read lease | "Renew an existing lease by extending its TTL" |
| `supervisor_race` | two acquisitions check before either writes, and both are granted the worktree | "refuses if an ACTIVE (non-expired) lease already exists for the same worktree_path" |

The quotations and lines are in `PROJECT.json` under `findings`.

Other disagreements met while modelling, for which no run is kept. In the
stores and the queue:

* `store.py:439`: the conflict check compares stored, normalised paths with the
  requested ones as spelled. With `./src` in `RawPathLists` `LeaseExclusion`
  fails, where `lease_manager.py:7` says that "exclusive_write blocks both read
  and write leases on overlapping paths".
* `store.py:341`: a task claimed again by its owner is logged as renewed and keeps
  its expiry, where `docs/governance/coordination-ownership-policy.md:39` has it
  extended.
* `fleet_claims.py:276`: an append does not look whether the file ends with a
  newline: a call returns `acquired=True` although its line is glued to a torn
  one and unreadable, where `PROJECT.md:31` says that an unrecorded decision "did
  not happen". `ResultsRecorded` and `PointerRecorded` are therefore about
  undamaged ledgers.
* `fleet_claims.py:745`: a replay that ends with an `OSError` counts as a complete
  one. The call may grant paths that are claimed in the lines it did not read, or
  renew a claim that has ended there; `fleet_claims.py:213` numbers its event 1,
  and `:226` leaves its link out, where `PROJECT.md:31` makes the evidence "the
  absolute authority". `ExclusiveWrite`, `OrderedChain` and `NoResurrection` except what such
  a call itself writes.
* `fleet_claims.py:174`: a `flock` that raises leaves the thread lock taken. Every
  later call of the same `FleetClaimStore` object waits for ever; other objects and
  processes go on.
* `fleet_queue.py:329`: the same as `fleet_claims.py:276` in the queue. With `"unterminated"` in `Faults`
  `RunsAfterDependencies` fails: a dependency's terminal status that lacks only
  its newline is read by `next_runnable_item` and then lost with `mark_running`.
* `fleet_queue.py:217`: `cancel_item` cancels running and finished items, where
  the state machine of `fleet-coordination-plane.md` lets cancel leave `QUEUED`
  only; a result written later overwrites the cancellation.
* `store.py:139`: a process that dies between the stale mark and its event leaves
  a lease nobody reports (`StaleReported` makes the exception).
* `store.py:489`: with ids that concatenate to the same text two read leases
  share a file, and the second replaces the first.
* `store.py:695`: `read_state_projection` lists expired task claims, where the
  ownership policy calls them inactive in it.
* `store.py:169`: equal payloads get equal event ids, which
  `check_ledger_integrity` reports as duplicates.
* `lease_manager.py:283`: `query_active_leases` treats a lease as active at the
  very instant of its expiry, the conflict check does not.

* `fleet_claims.py:276` again: with `"unterminated"` in `Faults` `NoResurrection`
  fails. A release whose line lacks only its newline is read as long as it is the
  last one; the next append is glued to it, both are lost, and the released claim
  is active again until it expires.

In the workspace service:

* two services in two processes have two copies; the one that is behind saves its
  copy over the record and can bring a retired workspace back. The run has one
  service.
* `activate` gives a workspace to a session without a receipt, and
  `assign_session` accepts it again once the session is cleared, so two sessions
  may have been told that it is theirs; `SingleReceipt` counts receipts and
  recoveries.
* `_service.py:374`: a process that dies, or whose save fails, after git has created
  the worktree leaves one that no record names (`TreeRecorded` excepts `reserved`).
* `_evidence.py:40`: a `flush` or `fsync` that raises leaves its event in the
  ledger, and the record is rolled back: the ledger is one transition ahead until
  the next event. A fragment that an append leaves takes the next event with it,
  of whichever workspace.
* `_service.py:310`: the record of a requested workspace is saved before the first
  event; if that append fails the request is refused and the record stays, without
  any event.
* `retire` with force removes the worktree of a workspace first and makes the
  transition afterwards; if the transition is not in the table the call fails with
  the worktree gone.
* a recovery that is refused by `_transition` leaves the new session in the copy
  in memory, from where the next save writes it to disk.
* `REMOVAL_REFUSED` and `RESET_REFUSED` are the target of no valid transition, so
  refusals are never recorded; `CHECKPOINTED`, `VALIDATING` and `UNDER_REVIEW`
  workspaces cannot be quarantined; the forced branch of `reset_workspace` is dead.

In the supervisor:

* `supervisor.py:307`: "The final event is always a completion or failure event."
  An audit failure yields a warning after it, and an exception ends the generator
  without one.
* an execution cancelled while its process is being killed or drained ends with
  its lease still active, as do the refusals before the process is started and an
  abandoned generator; abandoned at the yield after the spawn, it also leaves the
  process running.
* bytes are counted when a stream ends, so the I/O budget cannot stop a process
  that keeps writing.
* a lease is never renewed; a process may outlive it and share the worktree.
* a consumer that resumes the generator late can turn a success into a time-out,
  because the deadline is looked at before the exit. `OutcomeTruthful` excepts it.

In the disclosure corridor:

* `disclosure_transition.py:1156`: a recovery that finds `RECOVERY_REQUIRED`
  consumes another use of the authorisation, skips the receipt, the manifest and
  the disclosure event, and records `COMPLETED`; `CompletedIsDisclosed` makes an
  exception for such chains. If the authorisation allowed one use, the recovery is
  refused instead.
* `disclosure_transition.py:1153`: a recovery goes on with the plan it read before
  it had the lock unless the transition has ended meanwhile. Two calls can
  continue a chain from the same event; its sequence numbers then repeat, where
  `docs/schemas/rig.relay.disclosure_transition_event.v2.schema.json:171` has a
  "Monotonic sequence number within the transition_id chain". A chain forked so
  may be refused and still complete.
* the same after `RECOVERY_REQUIRED`, with an authorisation of three uses: two
  recoveries each consume a use of their own and each record `COMPLETED` for the
  transition, the second one on a number that the first has passed. `CompletedOnce`
  makes the exception that `CompletedIsDisclosed` makes.
* `disclosure_transition.py:728`: the result of `mark_selector_disclosed` is not
  looked at. For a selector that the manifest does not list the corridor records an
  event that says `selector_disclosed`, with no mark in the manifest; the command
  line checks the selector first (`review_projection/cli.py:313`).
* `execute` continues a pending transition with the selector of its plan, while the
  authorisation is checked against the selector of the caller. Both are bound to
  the authorisation in the end, so nothing else is disclosed.

In the local runtime:

* a stream that its consumer drops keeps the only slot for good: every later
  request is refused.
* `_models.py:108`: "terminalized" is never recorded after "provisional", since the
  ledger keeps an operation's first entry; likewise a tool outcome, written under
  the operation's id, keeps the execution receipt out, and the scheduler's ledger
  has only "admitted".
* `cancel_generation` and the drain tell the scheduler and not the stream, which
  may go on to write a receipt as completed.
* `_service.py:1158`: "Returns a truthful shutdown result dict with drain_status":
  calls that are not streams are not looked at.
* a turn of the agent loop that ended with an error ends the loop as completed.

## 4. What the passing properties do not say

* `ExclusiveWrite`, `OrderedChain` and `NoResurrection` except what a call writes
  whose own reading of the ledger failed, and nothing else: calls before and after
  it keep their promise to each other. `LockReleased` is about calls that got both
  locks.
* `acquire_claim` looks only at claims of its own authority, so claims of two
  authorities may overlap if the later one was acquired that way.
  `ExclusiveWrite` claims exclusion exactly where the code checks it.
* `LeaseExclusion` and `KeepsPromise` are about paths spelled in normal form, and
  exclusion about different owners; an owner may hold overlapping leases. Paths
  with `..` and the root `.` are compared as text, as in the code.
* `ExecutedOnce` and `RunsAfterDependencies` are about one runner; the queue's
  own docstring excludes several.
* `LedgerAgrees` compares states, not recovery states: `detach_session` records
  none. It lets the ledger be one permitted transition ahead after an append that
  failed and left its line, and a requested workspace be without an event; it and
  `TreeRecorded` except a failed roll-back and a death between save and append,
  and it excepts an event lost in a damaged line, all until the next event.
  `TreeRecorded` says nothing of state `reserved`, in which git creates the
  worktree.
* `StaleReported` excepts runs with a death; `RunningIsOwned` does not say that a
  result respects a cancellation; `StreamsTracked` ends with the beginning of a
  shutdown, which does not keep streams from starting.
* `OverlapOnlyAfterExpiry` allows for acquisitions that race; that they can is the
  run `supervisor_race`.
* `UnsavedWorkKept` relies on git refusing to remove a dirty worktree without
  `--force`; the service's own check is not enough, since agents work on.
* `CompletedIsDisclosed` and `CompletedOnce` except chains that recorded
  `RECOVERY_REQUIRED`.
* `EachEventItsOwnUse` counts disclosure events; a use may also be spent for
  nothing, by a call that dies after consuming it or by the recovery above.
* `Concludes` excepts executions left by an exception and processes whose
  descendants keep the pipes open; `SlotFreed` excepts dropped streams.

## 5. Proofs

For all values of the constants (any number of processes, claims, paths,
sessions, items, executions, requests; any bounds and faults):

* `FleetClaimsProofs`: `TypeCorrect`, `ChainOrdered`, `WritersExcluded`,
  `ResultsAreRecorded`, `PointersAreRecorded`, `ClaimsStayOver`.
  The inductive invariant of exclusion is `ExclusiveInv`: besides
  `Exclusive(ledger, clock)` it says that a process that has decided to append
  an acquiring event conflicts with no active claim, now or later (claims only
  become inactive while the lock is held, and an expired claim cannot be renewed
  by anyone else), and that, if the file does not end with a newline, exclusion
  would still hold with the last line lost: that is what gluing does to it.
  All of this is about pairs of which the later line and all renewals were decided
  on a complete replay (`Informed`). `ChainOrdered` rests on `SeqMax`: an
  unreadable line has number 0, and a number that was read exceeds them all. The last two rest on `RecordedInv`: a process past its
  append has its event in the ledger, and a step that leaves all lines readable
  keeps the ones there were (`LinesKept`). `ClaimsStayOver` assumes `NoLineIsLost`
  (no append lacks only its newline), which is needed, see section 3. Its invariant
  `Over` says of one claim that it is issued, not active, and that nobody has
  decided to write an event of it: decisions are about fresh claims or active ones
  (`Decided`), and the free lock of the property excludes that one is under way;
  a renewal decided on part of the ledger ends what `Over` says of its claim.
* `FleetReplayProofs`: `ReplayComputesProjection`, that is `ReplayMatches` for
  ledgers of any length and all their prefixes. The pass is a recursive function of the number of lines;
  that it exists (`PassExists`) and what it holds after each line (`PassTracks`)
  is shown by least counterexample, since a set of naturals has a least element
  (`LeastOf`). `Tracks` says that after n lines the dictionary has exactly the
  claims with an open acquiring line among them, and that each entry `Describes`
  its line: the expiry is that of the last lease event, the state is `claimed` iff
  no stage event came since. `StepTracks` goes by the kind of the line. It needs
  that a filter keeps all lines of a claim or none and that refusals carry no
  claim's id (`LinesOK`); `LinesInv` shows this of every ledger of the store,
  since whoever has decided on an event took a fresh id or copied the fields of
  an active claim, and nobody else writes before it does.
* `CoordinationStoreProofs`: `LeasesExclude` and the refinement
  `StoreKeepsPromise`, under the assumption `Canonical` (callers spell paths
  normalised), which `./src` shows to be needed. The invariant is `LeaseTypes`
  and `LeaseExclusion`; marking, releasing and crashing only thin the leases in
  force out, and a grant checks every lease of another owner. For the refinement
  each call is shown to be a `Grant`, an `End`, a `Tick` or a stutter of the set
  `Held`; that a lease is filed under the key of its owner and paths makes sure
  that a write to a file replaces only leases on the same paths. Without
  `Canonical`: `StoreTyped`; `EventsBacked`, since no call removes a file
  (`Grown`) and each call's events are about what it wrote or found;
  `StaleAlwaysReported`, since a mark and its event are separated only by a death
  and events are never removed; `TasksKept`, an action property.
* `FleetQueueProofs`: `QueueTyped` and `NoneLeftRunning` without assumptions;
  `DependenciesFirst` for one runner, fresh ids and no append that lacks only its
  newline (the last is needed, see section 3); `NoSecondExecution` for one runner
  and fresh ids. `DependenciesHeld` adds that an item in progress is
  none of its own dependencies, so a runner's marks leave them terminal;
  `OnceInv` that an executed item is not queued and an item on its way to the
  executor was not there yet.
* `WorkspaceServiceProofs`: for any number of services `TypeCorrect`, and
  `WorkKept`, an action property: only
  `try_git_worktree_remove` makes a worktree disappear, and a dirty one only
  when forced. No step of any service, whatever its cached state, does.
  For one service (`OneService`; with two, the one that is behind breaks all three,
  see section 3) `LedgerAgreement`, `TreeStaysRecorded` and `OneReceipt`. `LedgerInv`
  says that the copy in memory is in the record's state, or one valid transition
  behind it after a failed roll-back; that between save and append the ledger still
  tells (`Tells`) the state that would be rolled back to; that the event before a
  last one without its newline is covered as well, since another workspace's append
  may take the last one (`LedgerElsewhere`); and what assignments and recoveries
  have still to do. `LedgerForms` and `DeathForms` list what appends and deaths do
  to the ledger's end. `TreeInv` adds that every record that may be saved (the file,
  the copy, the one a recovery would restore) names the worktree or is in a state in
  which it need not, and that no call goes back to the states before it; `ReceiptInv`
  that while a receipt is out each of them has a session and is past `ready`.
* `RuntimeSupervisorProofs`: `SupervisorTyped`, `ReleasedWhenStopped`,
  `ReportsTruthful` from one invariant, `SupervisorInv`, which says for every
  place of `execute` what the state machine, the process, the reason for stopping
  and the status are there; one pass of the loop (`Pass`) is a lemma, used by each
  of the steps that end in one. `LeasesExclude` says that
  of two leases in force one was being acquired while the other was, without
  any assumption; `OverlapNeedsExpiry` follows. Their invariant `RacedInv` says it
  also of executions between check and write (`Claiming`): whoever checks finds no
  lease in force, so it can only meet others that have not written theirs.
* `DisclosureTransitionProofs`: `TypeCorrect`, `OwnUse`, `EventsMarked`,
  `CompletedDisclosed`, `CompletedAtMostOnce`. `UseInv`
  says that a use of an authorisation is held for one transition: whatever names
  a use (a line of the ledger, a call, a disclosure event) names one that was
  consumed, two that name the same use have the same transition id, and
  there is one event per transition id. A fork of a chain keeps this, since it
  copies the use with the id; only `consume_disclosure_authorization` brings a new
  one, which nobody held. `MarkInv` says that whoever has the manifest step behind
  it, in the ledger or in a call, has its selector in the manifest, which only
  grows; `DiscloseInv` says the same of the disclosure event.
  For the last theorem the steps are first reduced to what they do to the ledger,
  the uses and one call (`Moves`). Then: an authorisation has its transition ids
  to itself (`ChainInv`); a call that goes on with a use has the last one consumed
  (`SpendInv`); all lines and calls of one transition and one use lead to the same
  sequence number, so they count down to one completion, and from the receipt on
  the use is the one that the receipt names (`EndInv`); and a waiting recovery whose
  use is the last one has no unfinished line of another use above its plan
  (`PlanIsTop`). If the transition was completed with that use, the last event is
  therefore a later terminal one, and the check under the lock ends the call
  (`ResumeInTime`). The check compares the last event only: `PlanIsTop` is why that
  is enough.
* `LocalRuntimeProofs`: `RuntimeTyped`, `SlotReturned`, `EvidenceKept`,
  `StreamsKnown`. `SlotInv` strengthens the first property by the places where a
  call does not hold the slot yet or any more; `TrackInv` adds that nothing is being
  drained before shutdown.

The assumptions on constants are the named `ASSUME`s of the seven component modules: types
of the bounds and sets, and that the null values are not members.

*Only model-checked*: `LockReleased`, `Drains`, `Concludes` and `SlotFreed`
(liveness under fairness is beyond the prover).

## 6. Running it

    tlc -config <run>.cfg <MC module>      # each run takes at most about four minutes
    tlapm <module>Proofs.tla               # eight modules

## 7. Plan

Done: the claim store, the lease store with its abstract service, the queue, the
workspace service, the supervisor with its leases, the disclosure corridor, the
local runtime.

Next, the most exposed first:

1. The workspace with two services, and its boundary claims composed with
   `FleetClaims`.
2. `CheckpointTransaction` and `LaneLifecycle` (`governance/`): multi-step
   transactions over git and evidence files.
3. `IntentAuthority`: one-time consumption of recovery intents.
4. `DeploymentService`, the WAL, the validation scheduler, the patch workflow.
5. The batch scheduler, the prompt cache and the model pool of local inference.

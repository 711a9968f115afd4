-------------------------- MODULE WorkspaceService --------------------------
(***************************************************************************)
(* ManagedWorkspaceService: the life of one managed workspace, a git       *)
(* worktree with a JSON record on disk, a copy of the record in the memory *)
(* of every service, and a lifecycle ledger.  Most operations look at the  *)
(* record on disk, but _transition changes the copy in memory and saves it *)
(* over the disk's.  A step is one write, to the disk, the ledger or git:  *)
(* agents edit the worktree, and a service dies, between any two.          *)
(***************************************************************************)
EXTENDS Naturals, Sequences, FiniteSets

CONSTANTS
    Services,  \* processes with a ManagedWorkspaceService for the repository
    Sessions,  \* agent session ids
    Faults     \* what may fail: "save", "append", "torn", "rollback", "git", "crash"

ASSUME WorkspaceAssumptions ==
    /\ Faults \subseteq {"save", "append", "torn", "rollback", "git", "crash"}
    /\ "none" \notin Sessions

VARIABLES
    file,       \* workspaces/<id>.json
    cache,      \* per service, its copy in _workspaces
    ledger,     \* the end of the lifecycle ledger
    tree,       \* the worktree: "never", "clean", "dirty", "gone" (its branch stays)
    locked,     \* git worktree lock
    call,       \* per service, the call in progress
    occupants,  \* history: sessions told the workspace is theirs, and by whom
    unreported  \* history: the record's state was saved and never reported

vars == <<file, cache, ledger, tree, locked, call, occupants, unreported>>

-----------------------------------------------------------------------------
(* States. *)

States == {"requested", "reserved", "worktree_created", "bootstrapping", "ready",
           "active", "validating", "under_review", "checkpointed",
           "released_for_integration", "integrated", "published", "retired"}

_TERMINAL_RECOVERY ==
    {"reservation_refused", "removal_refused", "reset_refused", "quarantined"}

_RECOVERY_REQUIRED_RECOVERY ==
    {"recovery_required", "session_detached", "stale_base", "bootstrap_failed"}

Recoveries == _TERMINAL_RECOVERY \cup _RECOVERY_REQUIRED_RECOVERY
                  \cup {"none", "recovered", "integration_conflict"}

To(state) == <<state, "none">>

_VALID_TRANSITIONS ==
    {<<To(e[1]), To(e[2])>> : e \in
        {<<"requested", "reserved">>, <<"reserved", "worktree_created">>,
         <<"worktree_created", "bootstrapping">>, <<"bootstrapping", "ready">>,
         <<"ready", "active">>, <<"active", "validating">>,
         <<"active", "checkpointed">>, <<"active", "retired">>,
         <<"active", "released_for_integration">>,
         <<"validating", "under_review">>, <<"validating", "active">>,
         <<"under_review", "checkpointed">>, <<"under_review", "active">>,
         <<"checkpointed", "released_for_integration">>, <<"checkpointed", "active">>,
         <<"released_for_integration", "integrated">>, <<"integrated", "published">>,
         <<"published", "retired">>}}
    \cup {<<To(e[1]), <<"retired", e[2]>>>> : e \in
        {<<"requested", "reservation_refused">>, <<"reserved", "bootstrap_failed">>,
         <<"reserved", "reservation_refused">>, <<"bootstrapping", "bootstrap_failed">>,
         <<"active", "quarantined">>,
         <<"released_for_integration", "integration_conflict">>}}
    \cup {<<To("active"), <<"active", r>>>> :
             r \in {"session_detached", "stale_base", "recovery_required"}}
    \cup {<<<<"active", r>>, to>> : r \in _RECOVERY_REQUIRED_RECOVERY \cup {"recovered"},
             to \in {<<"active", "recovery_required">>, <<"retired", "quarantined">>,
                     To("validating")}}
    \cup {<<<<"active", r>>, <<"active", "recovered">>>> :
             r \in _RECOVERY_REQUIRED_RECOVERY}
    \cup {<<<<"active", "recovered">>, To("active")>>,
          <<<<"active", "integration_conflict">>, To("retired")>>,
          <<<<"active", "integration_conflict">>, <<"retired", "quarantined">>>>}
    \cup {<<<<"retired", r>>, To("retired")>> : r \in _TERMINAL_RECOVERY}

-----------------------------------------------------------------------------
(* Records. *)

Absent == [state |-> "absent", rec |-> "none", session |-> "none", path |-> FALSE]

Pair(ws) == <<ws.state, ws.rec>>

WithPair(ws, pair) == [ws EXCEPT !.state = pair[1], !.rec = pair[2]]

_is_terminal(ws) == ws.state = "retired" \/ ws.rec \in _TERMINAL_RECOVERY

Exists == tree \in {"clean", "dirty"}

(* The object _transition works on. *)
Cached(v) == IF cache[v] = Absent THEN file ELSE cache[v]

Permitted(ws, target) ==
    /\ ws # Absent
    /\ _is_terminal(ws) => target[2] = "quarantined"
    /\ target # Pair(ws) => <<Pair(ws), target>> \in _VALID_TRANSITIONS

-----------------------------------------------------------------------------
(* The ledger.  last is what the last event that can be read says, past what *)
(* the one before says when last's line has no newline yet (tail "open"); at *)
(* a "torn" tail part of a line was written.  A line written after either is *)
(* one with it, which no reader can parse.  slip is history: the last append *)
(* that wrote failed and left its event ("kept"), or an event was "lost" in  *)
(* such a line, and nothing was written properly since.                      *)

NoEvent == To("absent")

(* What can still be read once the last line is run into. *)
Cut == IF ledger.tail = "open"
         THEN [ledger EXCEPT !.last = ledger.past, !.past = NoEvent, !.slip = "lost"]
         ELSE ledger

(* append writes the event's line. *)
Written(event, slip) ==
    IF ledger.tail = "whole"
      THEN [last |-> event, past |-> NoEvent, tail |-> "whole", slip |-> slip]
      ELSE [Cut EXCEPT !.tail = "whole", !.slip = "lost"]

(* It gets through part of the line, or all but its newline. *)
Torn(event) ==
    IF "torn" \notin Faults THEN {}
    ELSE {[Cut EXCEPT !.tail = "torn"]} \cup
         IF ledger.tail # "whole" THEN {}
         ELSE {[last |-> event, past |-> ledger.last, tail |-> "open", slip |-> "kept"]}

(* append raises: before it wrote, in the write, or in flush or fsync. *)
AfterFailure(event) == {ledger, Written(event, "kept")} \cup Torn(event)

-----------------------------------------------------------------------------
(* Calls.  plan holds the transitions a call has still to make, was the      *)
(* record it read, before what a transition rolls back to.                   *)

Idle == [op |-> "idle", at |-> "idle", plan |-> <<>>, session |-> "none",
         force |-> FALSE, before |-> To("absent"), was |-> Absent]

Free(v) == call[v] = Idle

Enter(v, op, at, plan, s, force) ==
    /\ Free(v)
    /\ call' = [call EXCEPT ![v] =
          [op |-> op, at |-> at, plan |-> plan, session |-> s, force |-> force,
           before |-> To("absent"), was |-> file]]

Return(v) == call' = [call EXCEPT ![v] = Idle]

Goto(v, at) == call' = [call EXCEPT ![v].at = at]

Follow(v, target) ==
    call' = [call EXCEPT ![v].at = "transition", ![v].plan = <<target>>]

SaveFails == "save" \in Faults

(* The record and the copy in memory are the same object when saved. *)
SaveBoth(v, ws) ==
    /\ file' = ws
    /\ cache' = [cache EXCEPT ![v] = ws]

RemovalRefused == <<"retired", "removal_refused">>

(* A refused removal ends the call, unless retire was forced. *)
Failed(v) ==
    CASE call[v].op = "recover" /\ Len(call[v].plan) = 1 -> Goto(v, "restore")
      [] call[v].op = "retire" /\ call[v].force /\ Head(call[v].plan) = RemovalRefused ->
             Follow(v, To("retired"))
      [] OTHER -> Return(v)

Completed(v) ==
    CASE call[v].op \in {"assign_session", "release_assignment"} -> Goto(v, "final")
      [] call[v].op = "quarantine_workspace" -> Goto(v, "lock")
      [] OTHER -> Return(v)

Occupants(v) ==
    CASE call[v].op = "activate" -> occupants \cup {<<call[v].session, "activate">>}
      [] call[v].op = "recover" -> {<<call[v].session, "recover">>}
      [] OTHER -> occupants

(* _transition, up to the save. *)
transition_save(v) ==
    LET ws     == Cached(v)
        target == Head(call[v].plan)
        moved  == WithPair(ws, target)
    IN  /\ call[v].at = "transition"
        /\ \/ ~Permitted(ws, target) /\ Failed(v) /\ UNCHANGED <<file, cache>>
           \/ /\ Permitted(ws, target)
              /\ call' = [call EXCEPT ![v].at = "append", ![v].before = Pair(ws)]
              /\ IF target = Pair(ws) THEN UNCHANGED <<file, cache>>
                                      ELSE SaveBoth(v, moved)
           \/ /\ Permitted(ws, target) /\ target # Pair(ws) /\ SaveFails
              /\ cache' = [cache EXCEPT ![v] = ws]
              /\ Failed(v)
              /\ UNCHANGED file
        /\ UNCHANGED <<ledger, tree, locked, occupants, unreported>>

Changed(v) == call[v].before # Head(call[v].plan)

(* Mutant: a ledger failure does not roll the record back. *)
transition_append_NoRollback(v) ==
    /\ call[v].at = "append"
    /\ \/ /\ ledger' = Written(Head(call[v].plan), "none")
          /\ unreported' = (unreported /\ Cached(v).state # file.state)
          /\ \/ /\ Len(call[v].plan) > 1
                /\ call' = [call EXCEPT ![v].at = "transition", ![v].plan = Tail(@)]
                /\ UNCHANGED occupants
             \/ /\ Len(call[v].plan) = 1
                /\ Completed(v)
                /\ occupants' = Occupants(v)
       \/ /\ "append" \in Faults
          /\ ledger' \in AfterFailure(Head(call[v].plan))
          /\ Failed(v)
          /\ UNCHANGED <<occupants, unreported>>
    /\ UNCHANGED <<file, cache, tree, locked>>

(* _transition, from the ledger on. *)
transition_append(v) ==
    LET event == Head(call[v].plan)
        old   == WithPair(Cached(v), call[v].before)
    IN  /\ call[v].at = "append"
        /\ \/ /\ ledger' = Written(event, "none")
              /\ unreported' = (unreported /\ Cached(v).state # file.state)
              /\ \/ /\ Len(call[v].plan) > 1
                    /\ call' = [call EXCEPT ![v].at = "transition", ![v].plan = Tail(@)]
                    /\ UNCHANGED occupants
                 \/ /\ Len(call[v].plan) = 1
                    /\ Completed(v)
                    /\ occupants' = Occupants(v)
              /\ UNCHANGED <<file, cache>>
           \/ /\ "append" \in Faults
              /\ ledger' \in AfterFailure(event)
              /\ Failed(v)
              /\ \/ ~Changed(v) /\ UNCHANGED <<file, cache, unreported>>
                 \/ Changed(v) /\ SaveBoth(v, old) /\ UNCHANGED unreported
                 \/ /\ Changed(v) /\ "rollback" \in Faults
                    /\ cache' = [cache EXCEPT ![v] = old]
                    /\ unreported' = TRUE
                    /\ UNCHANGED file
              /\ UNCHANGED occupants
        /\ UNCHANGED <<tree, locked>>

-----------------------------------------------------------------------------
(* Provisioning. *)

(* Ids are fresh; the call itself does not look for an earlier record. *)
request_workspace(v, s) ==
    LET ws == [Absent EXCEPT !.state = "requested", !.session = s]
    IN  /\ file = Absent
        /\ cache' = [cache EXCEPT ![v] = ws]
        /\ \/ /\ Enter(v, "request_workspace", "transition",
                       <<To("requested"), To("reserved")>>, s, FALSE)
              /\ file' = ws
           \/ Free(v) /\ SaveFails /\ UNCHANGED <<file, call>>
        /\ UNCHANGED <<ledger, tree, locked, occupants, unreported>>

(* git worktree add -b: fails when the branch or the directory exists; a     *)
(* timeout may leave the worktree behind.                                    *)
create_worktree(v) ==
    /\ file.state = "reserved"
    /\ \/ /\ tree = "never" /\ tree' = "clean"
          /\ Enter(v, "create_worktree", "added", <<>>, "none", FALSE)
       \/ /\ tree # "never" \/ "git" \in Faults
          /\ Enter(v, "create_worktree", "transition",
                   <<<<"retired", "reservation_refused">>>>, "none", FALSE)
          /\ UNCHANGED tree
       \/ /\ "git" \in Faults /\ Free(v)
          /\ tree' \in {tree, IF tree = "never" THEN "clean" ELSE tree}
          /\ UNCHANGED call
    /\ UNCHANGED <<file, cache, ledger, locked, occupants, unreported>>

(* Mutant: the copy in memory is not replaced. *)
record_worktree_StaleCache(v) ==
    LET ws == [call[v].was EXCEPT !.path = TRUE]
    IN  /\ call[v].at = "added"
        /\ file' = ws /\ Follow(v, To("worktree_created"))
        /\ UNCHANGED <<cache, ledger, tree, locked, occupants, unreported>>

record_worktree(v) ==
    LET ws == [call[v].was EXCEPT !.path = TRUE]
    IN  /\ call[v].at = "added"
        /\ cache' = [cache EXCEPT ![v] = ws]
        /\ \/ file' = ws /\ Follow(v, To("worktree_created"))
           \/ SaveFails /\ Return(v) /\ UNCHANGED file
        /\ UNCHANGED <<ledger, tree, locked, occupants, unreported>>

bootstrap(v) ==
    /\ file.state = "worktree_created"
    /\ Enter(v, "bootstrap", "transition", <<To("bootstrapping"), To("ready")>>,
             "none", FALSE)
    /\ UNCHANGED <<file, cache, ledger, tree, locked, occupants, unreported>>

(* The session is saved to the disk only. *)
activate(v, s) ==
    /\ file.state = "ready"
    /\ file' = [file EXCEPT !.session = s]
    /\ Enter(v, "activate", "transition", <<To("active")>>, s, FALSE)
    /\ UNCHANGED <<cache, ledger, tree, locked, occupants, unreported>>

-----------------------------------------------------------------------------
(* Work, review and integration. *)

(* record_changes and checkpoint reload the copy in memory from the disk. *)
reload_then(v, op, states, target) ==
    /\ file.state \in states
    /\ cache' = [cache EXCEPT ![v] = file]
    /\ Enter(v, op, "transition", <<target>>, "none", FALSE)
    /\ UNCHANGED <<file, ledger, tree, locked, occupants, unreported>>

record_changes(v) == reload_then(v, "record_changes", {"active"}, To("active"))

checkpoint(v) ==
    reload_then(v, "checkpoint", {"active", "under_review"}, To("checkpointed"))

(* The operations that are a check of the record and one transition. *)
Move(v, op, ok, target) ==
    /\ file # Absent /\ ok
    /\ Enter(v, op, "transition", <<target>>, "none", FALSE)
    /\ UNCHANGED <<file, cache, ledger, tree, locked, occupants, unreported>>

mark_validating(v) == Move(v, "mark", file.state = "active", To("validating"))

mark_under_review(v) == Move(v, "mark", file.state = "validating", To("under_review"))

mark_validation_required(v) == Move(v, "mark", TRUE, To("validating"))

(* Mutant: a state the lifecycle does not have. *)
release_for_integration_UnknownState(v) ==
    Move(v, "mark", file.state = "checkpointed", To("released"))

release_for_integration(v) ==
    Move(v, "mark", file.state = "checkpointed", To("released_for_integration"))

mark_integrated(v) ==
    Move(v, "mark", file.state = "released_for_integration", To("integrated"))

mark_published(v) == Move(v, "mark", file.state = "integrated", To("published"))

(* merge-base says that the base is not an ancestor of HEAD. *)
detect_stale_base(v) == Move(v, "mark", TRUE, <<"active", "stale_base">>)

detect_session_detached(v, current) ==
    Move(v, "mark", file.session \notin {"none", current}, <<"active", "session_detached">>)

-----------------------------------------------------------------------------
(* Ending. *)

UnreleasedStates == {"active", "validating", "under_review"}

(* git status reports changes, or fails. *)
MayLookDirty == file.path /\ Exists /\ (tree = "dirty" \/ "git" \in Faults)
MayLookClean == ~(file.path /\ tree = "dirty")

(* _verify_destructive_action_safe.  (A managed worktree is never primary.) *)
MayBeSafe(force)   == force \/ (MayLookClean /\ file.state \notin UnreleasedStates)
MayBeUnsafe(force) == ~force /\ (MayLookDirty \/ file.state \in UnreleasedStates)

StartRetire(v, force) ==
    /\ MayBeSafe(force)
    /\ IF file.path THEN Enter(v, "retire", "check", <<>>, "none", force)
                    ELSE Enter(v, "retire", "transition", <<To("retired")>>, "none", force)

retire(v, force) ==
    /\ file.state \notin {"absent", "retired"}
    /\ StartRetire(v, force)
    /\ UNCHANGED <<file, cache, ledger, tree, locked, occupants, unreported>>

remove_worktree(v, force) ==
    /\ file.path
    /\ Enter(v, "remove_worktree", "check", <<>>, "none", force)
    /\ UNCHANGED <<file, cache, ledger, tree, locked, occupants, unreported>>

check_removal(v) ==
    /\ call[v].at = "check"
    /\ \/ /\ MayBeSafe(call[v].force)
          /\ call' = [call EXCEPT ![v].at = "remove", ![v].was = file]
       \/ MayBeUnsafe(call[v].force) /\ Follow(v, RemovalRefused)
    /\ UNCHANGED <<file, cache, ledger, tree, locked, occupants, unreported>>

(* Mutant: git is always given --force. *)
try_git_worktree_remove_Forced(v) ==
    /\ call[v].at = "remove"
    /\ \/ Exists /\ ~locked /\ tree' = "gone" /\ Goto(v, "clear")
       \/ ~Exists /\ UNCHANGED tree /\ Goto(v, "clear")
       \/ Exists /\ locked /\ UNCHANGED tree /\ Follow(v, RemovalRefused)
    /\ UNCHANGED <<file, cache, ledger, locked, occupants, unreported>>

(* git refuses a locked worktree, and a dirty one unless forced. *)
try_git_worktree_remove(v) ==
    LET refuses == locked \/ (tree = "dirty" /\ ~call[v].force)
    IN  /\ call[v].at = "remove"
        /\ \/ Exists /\ ~refuses /\ tree' = "gone" /\ Goto(v, "clear")
           \/ ~Exists /\ UNCHANGED tree /\ Goto(v, "clear")
           \/ /\ Exists /\ (refuses \/ "git" \in Faults)
              /\ UNCHANGED tree /\ Follow(v, RemovalRefused)
        /\ UNCHANGED <<file, cache, ledger, locked, occupants, unreported>>

(* The path is cleared on the disk; the copy in memory keeps it. *)
clear_worktree_path(v) ==
    /\ call[v].at = "clear"
    /\ \/ /\ file' = [call[v].was EXCEPT !.path = FALSE]
          /\ IF call[v].op = "retire" THEN Follow(v, To("retired")) ELSE Return(v)
       \/ SaveFails /\ Return(v) /\ UNCHANGED file
    /\ UNCHANGED <<cache, ledger, tree, locked, occupants, unreported>>

(* The forced branch is dead: a forced check refuses primary worktrees only. *)
reset_workspace(v, force) ==
    /\ file.state \notin {"absent", "retired"}
    /\ \/ /\ MayBeSafe(force)
          /\ Enter(v, "reset_workspace", "transition", <<To("retired")>>, "none", force)
       \/ /\ MayBeUnsafe(force)
          /\ Enter(v, "reset_workspace", "transition", <<<<"retired", "reset_refused">>>>,
                   "none", force)
    /\ UNCHANGED <<file, cache, ledger, tree, locked, occupants, unreported>>

StartQuarantine(v, op) ==
    /\ file.rec \notin _TERMINAL_RECOVERY
    /\ Enter(v, op, "transition", <<<<"retired", "quarantined">>>>, "none", FALSE)

quarantine(v, op) ==
    /\ file # Absent
    /\ op \in {"quarantine", "quarantine_workspace"}
    /\ StartQuarantine(v, op)
    /\ UNCHANGED <<file, cache, ledger, tree, locked, occupants, unreported>>

lock_worktree(v) ==
    /\ call[v].at = "lock"
    /\ \/ call[v].was.path /\ Exists /\ locked' = TRUE
       \/ /\ ~(call[v].was.path /\ Exists) \/ "git" \in Faults
          /\ UNCHANGED locked
    /\ Return(v)
    /\ UNCHANGED <<file, cache, ledger, tree, occupants, unreported>>

safe_retire_workspace(v, force) ==
    LET unreleased == file.state \in UnreleasedStates \cup {"checkpointed"}
    IN  /\ file.state \notin {"absent", "retired"} /\ file.rec # "quarantined"
        /\ \/ /\ ~force /\ (unreleased \/ MayLookDirty)
              /\ StartQuarantine(v, "quarantine_workspace")
           \/ /\ force \/ (~unreleased /\ MayLookClean)
              /\ StartRetire(v, force)
        /\ UNCHANGED <<file, cache, ledger, tree, locked, occupants, unreported>>

-----------------------------------------------------------------------------
(* Sessions and recovery. *)

(* The lock file keeps a second recovery out.  The session is put into the   *)
(* copy in memory before the transitions that may refuse it.                 *)
recover(v, s) ==
    /\ \A u \in Services : call[u].op # "recover"
    /\ file.rec \notin {"none"} \cup _TERMINAL_RECOVERY
    /\ file.path => Exists
    /\ cache' = [cache EXCEPT ![v] = [Cached(v) EXCEPT !.session = s]]
    /\ Enter(v, "recover", "transition", <<<<"active", "recovered">>, To("active")>>, s, FALSE)
    /\ UNCHANGED <<file, ledger, tree, locked, occupants, unreported>>

(* Reactivation failed after the first transition: the record that was read  *)
(* is saved again, and recovery is asked for.                                *)
recover_restore(v) ==
    /\ call[v].at = "restore"
    /\ cache' = [cache EXCEPT ![v].session = call[v].was.session]
    /\ \/ /\ file' = call[v].was
          /\ call' = [call EXCEPT ![v].op = "mark", ![v].at = "transition",
                                  ![v].plan = <<<<"active", "recovery_required">>>>]
       \/ SaveFails /\ Return(v) /\ UNCHANGED file
    /\ UNCHANGED <<ledger, tree, locked, occupants, unreported>>

reattach_session(v, s) ==
    /\ file.rec \in {"session_detached", "recovery_required"}
    /\ recover(v, s)

(* Mutant: an active workspace is assigned whoever holds it. *)
assign_session_Taken(v, s) ==
    /\ \/ /\ file.state = "ready"
          /\ Enter(v, "assign_session", "transition", <<To("active")>>, s, FALSE)
       \/ /\ file.state = "active"
          /\ Enter(v, "assign_session", "final", <<>>, s, FALSE)
    /\ UNCHANGED <<file, cache, ledger, tree, locked, occupants, unreported>>

assign_session(v, s) ==
    /\ \/ /\ file.state = "ready"
          /\ Enter(v, "assign_session", "transition", <<To("active")>>, s, FALSE)
       \/ /\ file.state = "active" /\ file.session = "none"
          /\ Enter(v, "assign_session", "final", <<>>, s, FALSE)
    /\ UNCHANGED <<file, cache, ledger, tree, locked, occupants, unreported>>

release_assignment(v) ==
    /\ file.state = "active"
    /\ Enter(v, "release_assignment", "transition", <<To("released_for_integration")>>,
             "none", FALSE)
    /\ UNCHANGED <<file, cache, ledger, tree, locked, occupants, unreported>>

(* assign_session and release_assignment write the session last. *)
write_session(v) ==
    /\ call[v].at = "final"
    /\ Return(v)
    /\ \/ /\ SaveBoth(v, [file EXCEPT !.session = call[v].session])
          /\ occupants' = IF call[v].op = "assign_session"
                            THEN occupants \cup {<<call[v].session, "assign">>} ELSE {}
       \/ SaveFails /\ UNCHANGED <<file, cache, occupants>>
    /\ UNCHANGED <<ledger, tree, locked, unreported>>

(* A failing git status counts as no changes here. *)
detach_session(v) ==
    /\ file.state = "active"
    /\ \/ /\ file.path /\ tree = "dirty"
          /\ Enter(v, "detach_session", "transition", <<<<"active", "session_detached">>>>,
                   "none", FALSE)
          /\ UNCHANGED <<file, cache, occupants>>
       \/ /\ ~(file.path /\ tree = "dirty") \/ "git" \in Faults
          /\ Enter(v, "detach_session", "detached", <<>>, "none", FALSE)
          /\ SaveBoth(v, [file EXCEPT !.session = "none"])
          /\ occupants' = {}
    /\ UNCHANGED <<ledger, tree, locked, unreported>>

(* The event is recorded without a roll-back should it fail. *)
record_detached(v) ==
    /\ call[v].at = "detached"
    /\ \/ ledger' = Written(To("active"), "none")
       \/ "append" \in Faults /\ ledger' \in AfterFailure(To("active"))
    /\ Return(v)
    /\ UNCHANGED <<file, cache, tree, locked, occupants, unreported>>

-----------------------------------------------------------------------------
(* The environment: list_workspaces and restarts reload the copy in memory;  *)
(* agents work in the worktree.                                              *)

_load_all(v) ==
    /\ Free(v)
    /\ cache' = [cache EXCEPT ![v] = file]
    /\ UNCHANGED <<file, ledger, tree, locked, call, occupants, unreported>>

crash(v) ==
    /\ "crash" \in Faults /\ ~Free(v)
    /\ Return(v)
    /\ cache' = [cache EXCEPT ![v] = file]
    /\ unreported' = (unreported \/ (call[v].at = "append" /\ Changed(v)))
    /\ \/ UNCHANGED ledger
       \/ call[v].at = "append" /\ ledger' \in Torn(Head(call[v].plan))
       \/ call[v].at = "detached" /\ ledger' \in Torn(To("active"))
    /\ UNCHANGED <<file, tree, locked, occupants>>

Work ==
    /\ Exists
    /\ tree' \in {"clean", "dirty"}
    /\ UNCHANGED <<file, cache, ledger, locked, call, occupants, unreported>>

(* Appends for other workspaces end a torn line, or leave one. *)
append_elsewhere ==
    /\ "torn" \in Faults
    /\ \E tail \in {"whole", "torn"} : ledger' = [Cut EXCEPT !.tail = tail]
    /\ UNCHANGED <<file, cache, tree, locked, call, occupants, unreported>>

-----------------------------------------------------------------------------
Init ==
    /\ file = Absent
    /\ cache = [v \in Services |-> Absent]
    /\ ledger = [last |-> NoEvent, past |-> NoEvent, tail |-> "whole", slip |-> "none"]
    /\ tree = "never" /\ locked = FALSE
    /\ call = [v \in Services |-> Idle]
    /\ occupants = {} /\ unreported = FALSE

Begin(v) ==
    \/ create_worktree(v) \/ bootstrap(v)
    \/ record_changes(v) \/ checkpoint(v)
    \/ mark_validating(v) \/ mark_under_review(v) \/ mark_validation_required(v)
    \/ release_for_integration(v) \/ mark_integrated(v) \/ mark_published(v)
    \/ detect_stale_base(v)
    \/ detach_session(v) \/ release_assignment(v)
    \/ \E op \in {"quarantine", "quarantine_workspace"} : quarantine(v, op)
    \/ \E force \in BOOLEAN :
          \/ retire(v, force) \/ remove_worktree(v, force)
          \/ reset_workspace(v, force) \/ safe_retire_workspace(v, force)
    \/ \E s \in Sessions :
          \/ activate(v, s) \/ assign_session(v, s)
          \/ recover(v, s) \/ reattach_session(v, s)
          \/ detect_session_detached(v, s)
    \/ \E s \in Sessions \cup {"none"} : request_workspace(v, s)

Proceed(v) ==
    \/ transition_save(v) \/ transition_append(v)
    \/ record_worktree(v)
    \/ check_removal(v) \/ try_git_worktree_remove(v) \/ clear_worktree_path(v)
    \/ lock_worktree(v)
    \/ recover_restore(v)
    \/ write_session(v) \/ record_detached(v)

Next ==
    \/ Work \/ append_elsewhere
    \/ \E v \in Services : Begin(v) \/ Proceed(v) \/ _load_all(v) \/ crash(v)

Spec == Init /\ [][Next]_vars

-----------------------------------------------------------------------------
(* Properties. *)

RecordType ==
    [state : States, rec : Recoveries, session : Sessions \cup {"none"}, path : BOOLEAN]

Pairs == (States \cup {"absent"}) \X Recoveries

Plans == {<<>>} \cup {<<a>> : a \in Pairs} \cup {<<a, b>> : a, b \in Pairs}

LedgerType ==
    [last : Pairs, past : Pairs, tail : {"whole", "torn", "open"},
     slip : {"none", "kept", "lost"}]

CallType ==
    [op : {"idle", "request_workspace", "create_worktree", "bootstrap", "activate",
           "record_changes", "checkpoint", "mark", "retire", "remove_worktree",
           "reset_workspace", "quarantine", "quarantine_workspace", "recover",
           "assign_session", "release_assignment", "detach_session"},
     at : {"idle", "transition", "append", "added", "check", "remove", "clear", "lock",
           "restore", "final", "detached"},
     plan : Plans, session : Sessions \cup {"none"}, force : BOOLEAN,
     before : Pairs, was : RecordType \cup {Absent}]

(* Types; a call that makes a transition has one to make. *)
TypeOK ==
    /\ file \in RecordType \cup {Absent}
    /\ cache \in [Services -> RecordType \cup {Absent}]
    /\ ledger \in LedgerType
    /\ tree \in {"never", "clean", "dirty", "gone"} /\ locked \in BOOLEAN
    /\ call \in [Services -> CallType]
    /\ \A v \in Services : call[v].at \in {"transition", "append"} => call[v].plan # <<>>
    /\ occupants \subseteq Sessions \X {"activate", "assign", "recover"}
    /\ unreported \in BOOLEAN

(* The ledger's end tells the state of a record, or an event was lost.       *)
(* An append that failed and left its event is one permitted transition      *)
(* ahead of the record that was rolled back, and a workspace whose first     *)
(* append failed stays requested without one.                                *)
Tells(end, pair) ==
    \/ end.slip = "lost"
    \/ end.last[1] = pair[1]
    \/ end.slip = "kept" /\ <<pair, end.last>> \in _VALID_TRANSITIONS
    \/ end.last = NoEvent /\ pair[1] = "requested"

(* Between calls the ledger's last event and the record on the disk agree on *)
(* the workspace's state, whatever failed: a save that cannot be reported is *)
(* rolled back, from the copy in memory.  Only a death between save and      *)
(* report, a roll-back that fails, or an event lost in a damaged line leave  *)
(* them apart, until the next event.                                         *)
LedgerAgrees ==
    (\A v \in Services : Free(v)) /\ ~unreported /\ file # Absent =>
        Tells(ledger, Pair(file))

(* Uncommitted changes are lost only to a call that was given force=True,    *)
(* even when they are made between the service's check and git's removal.    *)
UnsavedWorkKept ==
    [][tree = "dirty" /\ tree' = "gone" =>
          \E v \in Services : call[v].at = "remove" /\ call[v].force]_vars

(* A worktree on the disk is named in the workspace's record, except before  *)
(* it is recorded and after retirement: saving the copy in memory over the   *)
(* record never loses it, unless a roll-back failed.                         *)
TreeRecorded ==
    Exists /\ ~unreported /\ file.state \notin {"reserved", "retired"} => file.path

(* At most one session holds an assignment receipt or a recovered workspace. *)
SingleReceipt ==
    Cardinality({o \in occupants : o[2] # "activate"}) <= 1

=============================================================================

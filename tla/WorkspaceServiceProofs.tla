----------------------- MODULE WorkspaceServiceProofs -----------------------
(***************************************************************************)
(* Theorems about WorkspaceService, for any sessions and faults.  Types    *)
(* and the worktree's contents are kept for any number of services; what   *)
(* the record says of the ledger, the worktree and the sessions, for one.  *)
(***************************************************************************)
EXTENDS WorkspaceService, FiniteSetTheorems, TLAPS

(* git worktree remove is the only step that takes a worktree away. *)
LEMMA BeginKeepsTree ==
    ASSUME NEW v \in Services, Begin(v)
    PROVE  UNCHANGED tree \/ tree = "never"
<1>1. CASE create_worktree(v)
      BY <1>1 DEF create_worktree
<1>2. CASE bootstrap(v) \/ record_changes(v) \/ checkpoint(v)
      BY <1>2 DEF bootstrap, record_changes, checkpoint, reload_then
<1>3. CASE \/ mark_validating(v) \/ mark_under_review(v) \/ mark_validation_required(v)
           \/ release_for_integration(v) \/ mark_integrated(v) \/ mark_published(v)
           \/ detect_stale_base(v)
      BY <1>3 DEF mark_validating, mark_under_review, mark_validation_required,
                  release_for_integration, mark_integrated, mark_published,
                  detect_stale_base, Move
<1>4. CASE detach_session(v) \/ release_assignment(v)
      BY <1>4 DEF detach_session, release_assignment
<1>5. CASE \E op \in {"quarantine", "quarantine_workspace"} : quarantine(v, op)
      BY <1>5 DEF quarantine
<1>6. CASE \E force \in BOOLEAN :
              \/ retire(v, force) \/ remove_worktree(v, force)
              \/ reset_workspace(v, force) \/ safe_retire_workspace(v, force)
      BY <1>6 DEF retire, remove_worktree, reset_workspace, safe_retire_workspace
<1>7. CASE \E s \in Sessions :
              \/ activate(v, s) \/ assign_session(v, s)
              \/ recover(v, s) \/ reattach_session(v, s)
              \/ detect_session_detached(v, s)
      BY <1>7 DEF activate, assign_session, recover, reattach_session,
                  detect_session_detached, Move
<1>8. CASE \E s \in Sessions \cup {"none"} : request_workspace(v, s)
      BY <1>8 DEF request_workspace
<1> QED
    BY <1>1, <1>2, <1>3, <1>4, <1>5, <1>6, <1>7, <1>8 DEF Begin

LEMMA ProceedKeepsTree ==
    ASSUME NEW v \in Services, Proceed(v), ~try_git_worktree_remove(v)
    PROVE  UNCHANGED tree
BY DEF Proceed, transition_save, transition_append, record_worktree, check_removal,
       clear_worktree_path, lock_worktree, recover_restore, write_session, record_detached

(* Uncommitted changes disappear only with a worktree whose removal was      *)
(* forced, for any number of services that check and remove at the same      *)
(* time as agents work.                                                      *)
THEOREM WorkKept == Spec => UnsavedWorkKept
<1>1. ASSUME [Next]_vars, tree = "dirty", tree' = "gone"
      PROVE  \E v \in Services : call[v].at = "remove" /\ call[v].force
  <2>1. tree' # tree
        BY <1>1
  <2>2. PICK v \in Services : Begin(v) \/ Proceed(v) \/ _load_all(v) \/ crash(v)
        BY <1>1, <2>1 DEF Next, Work, append_elsewhere, vars
  <2>3. try_git_worktree_remove(v)
        BY <1>1, <2>1, <2>2, BeginKeepsTree, ProceedKeepsTree DEF _load_all, crash
  <2> QED
      BY <1>1, <2>3 DEF try_git_worktree_remove
<1>2. [Next]_vars =>
         [tree = "dirty" /\ tree' = "gone" =>
             \E v \in Services : call[v].at = "remove" /\ call[v].force]_vars
      BY <1>1
<1> QED
    BY <1>2, PTL DEF Spec, UnsavedWorkKept

-----------------------------------------------------------------------------
(* Types.  A call has read a record that exists, and what it still has to do *)
(* are pairs of the lifecycle.                                               *)

Targets == States \X Recoveries

TargetPlans == {<<>>} \cup {<<a>> : a \in Targets} \cup {<<a, b>> : a, b \in Targets}

(* What a call in progress can rely on. *)
Shape(v) ==
    /\ call[v].at = "idle" => call[v] = Idle
    /\ call[v].at # "idle" => file # Absent
    /\ call[v].plan \in TargetPlans
    /\ call[v].op \in {"activate", "recover", "assign_session"} =>
          call[v].session \in Sessions
    /\ call[v].at \in {"added", "remove", "clear"} \/ call[v].op = "recover" =>
          call[v].was # Absent
    /\ call[v].op = "recover" => cache[v] # Absent
    /\ call[v].at = "restore" => call[v].op = "recover"
    /\ call[v].at = "append" => call[v].before \in Targets

TypeInv == TypeOK /\ \A v \in Services : Shape(v)

LEMMA TargetFacts ==
    /\ \A a \in Targets : a \in Pairs /\ a = <<a[1], a[2]>> /\ a[1] \in States /\ a[2] \in Recoveries
    /\ \A st \in States : To(st) \in Targets /\ st # "absent"
    /\ <<"retired", "reservation_refused">> \in Targets
    /\ <<"retired", "reset_refused">> \in Targets
    /\ <<"retired", "quarantined">> \in Targets
    /\ RemovalRefused \in Targets
    /\ <<"active", "recovered">> \in Targets /\ <<"active", "recovery_required">> \in Targets
    /\ <<"active", "stale_base">> \in Targets /\ <<"active", "session_detached">> \in Targets
BY DEF Targets, Pairs, States, Recoveries, _TERMINAL_RECOVERY, _RECOVERY_REQUIRED_RECOVERY,
       To, RemovalRefused

LEMMA OnePlan ==
    ASSUME NEW a \in Targets
    PROVE  /\ <<a>> \in TargetPlans /\ <<a>> \in Plans /\ <<a>> # <<>>
           /\ Head(<<a>>) = a /\ Len(<<a>>) = 1
BY TargetFacts DEF TargetPlans, Plans

LEMMA TwoPlan ==
    ASSUME NEW a \in Targets, NEW b \in Targets
    PROVE  /\ <<a, b>> \in TargetPlans /\ <<a, b>> \in Plans /\ <<a, b>> # <<>>
           /\ Head(<<a, b>>) = a /\ Len(<<a, b>>) = 2 /\ Tail(<<a, b>>) = <<b>>
BY TargetFacts DEF TargetPlans, Plans

LEMMA NoPlan == <<>> \in TargetPlans /\ <<>> \in Plans
BY DEF TargetPlans, Plans

LEMMA PlanFacts ==
    ASSUME NEW p \in TargetPlans
    PROVE  /\ p \in Plans /\ Len(p) \in Nat
           /\ p # <<>> => Head(p) \in Targets /\ (Len(p) = 1 \/ Len(p) > 1)
           /\ Len(p) > 1 => Tail(p) \in TargetPlans /\ Tail(p) # <<>>
<1>1. CASE p = <<>>
      BY <1>1 DEF Plans
<1>2. CASE \E a \in Targets : p = <<a>>
      BY <1>2, OnePlan
<1>3. CASE \E a, b \in Targets : p = <<a, b>>
      BY <1>3, OnePlan, TwoPlan
<1> QED
    BY <1>1, <1>2, <1>3 DEF TargetPlans

LEMMA AbsentFacts ==
    /\ Absent.state = "absent" /\ Absent.rec = "none" /\ Absent.session = "none"
    /\ Absent.path = FALSE
    /\ \A ws \in RecordType : ws # Absent /\ ws.state # "absent"
BY DEF Absent, RecordType, States

LEMMA WithPairType ==
    ASSUME NEW ws \in RecordType, NEW a \in Targets
    PROVE  /\ WithPair(ws, a) \in RecordType
           /\ WithPair(ws, a).session = ws.session /\ WithPair(ws, a).path = ws.path
           /\ WithPair(ws, a).state = a[1] /\ WithPair(ws, a).rec = a[2]
           /\ Pair(WithPair(ws, a)) = a
BY TargetFacts DEF WithPair, RecordType, Pair

LEMMA PairType ==
    ASSUME NEW ws \in RecordType
    PROVE  Pair(ws) \in Targets /\ Pair(ws)[1] = ws.state /\ Pair(ws)[2] = ws.rec
BY DEF Pair, RecordType, Targets

(* Most operations check the record and enter a call that changes nothing    *)
(* yet, except that some reload the copy in memory.                          *)
QuietOps == {"create_worktree", "bootstrap", "record_changes", "checkpoint", "mark",
             "retire", "remove_worktree", "reset_workspace", "quarantine",
             "quarantine_workspace", "release_assignment", "detach_session"}

Late(target) == target[1] # "requested" /\ target # To("worktree_created")

QuietPlan(at, plan) ==
    /\ plan \in TargetPlans
    /\ at = "transition" => plan # <<>> /\ Late(Head(plan))
    /\ Len(plan) > 1 => Late(Head(Tail(plan)))

Quiet(v) ==
    /\ file # Absent
    /\ \E op \in QuietOps, at \in {"transition", "check"}, force \in BOOLEAN :
       \E plan \in TargetPlans :
          Enter(v, op, at, plan, "none", force) /\ QuietPlan(at, plan)
    /\ cache' = cache \/ cache' = [cache EXCEPT ![v] = file]
    /\ UNCHANGED <<file, ledger, tree, locked, occupants, unreported>>

LEMMA LateFacts ==
    /\ \A st \in States \ {"requested", "worktree_created"} : Late(To(st))
    /\ \A st \in States \ {"requested"} : \A r \in Recoveries \ {"none"} : Late(<<st, r>>)
BY DEF Late, To, States, Recoveries

LEMMA QuietOne ==
    ASSUME NEW a \in Targets, Late(a), NEW at
    PROVE  QuietPlan(at, <<a>>)
BY OnePlan DEF QuietPlan

LEMMA QuietNone == QuietPlan("check", <<>>)
BY NoPlan DEF QuietPlan

LEMMA QuietMove ==
    ASSUME NEW v \in Services, NEW op \in QuietOps, NEW ok, NEW a \in Targets, Late(a),
           Move(v, op, ok, a)
    PROVE  Quiet(v)
<1>1. QuietPlan("transition", <<a>>) /\ <<a>> \in TargetPlans
      BY QuietOne, OnePlan
<1> QED
    BY <1>1 DEF Move, Quiet

LEMMA PresentFacts ==
    /\ file.state # "absent" => file # Absent
    /\ file.path => file # Absent
    /\ file.rec # "none" => file # Absent
BY AbsentFacts

LEMMA QuietRetire ==
    ASSUME NEW v \in Services, NEW force \in BOOLEAN, file # Absent, StartRetire(v, force),
           UNCHANGED <<file, cache, ledger, tree, locked, occupants, unreported>>
    PROVE  Quiet(v)
<1>1. To("retired") \in Targets /\ Late(To("retired"))
      BY TargetFacts, LateFacts DEF States
<1>2. /\ QuietPlan("transition", <<To("retired")>>) /\ <<To("retired")>> \in TargetPlans
      /\ <<>> \in TargetPlans
      BY <1>1, QuietOne, OnePlan, NoPlan
<1>3. "retire" \in QuietOps
      BY DEF QuietOps
<1> QED
    BY <1>2, <1>3, QuietNone DEF StartRetire, Quiet

LEMMA QuietQuarantine ==
    ASSUME NEW v \in Services, NEW op \in QuietOps, file # Absent, StartQuarantine(v, op),
           UNCHANGED <<file, cache, ledger, tree, locked, occupants, unreported>>
    PROVE  Quiet(v)
<1>1. <<"retired", "quarantined">> \in Targets /\ Late(<<"retired", "quarantined">>)
      BY TargetFacts, LateFacts DEF States, Recoveries, _TERMINAL_RECOVERY
<1>2. QuietPlan("transition", <<<<"retired", "quarantined">>>>) 
      BY <1>1, QuietOne
<1>3. <<<<"retired", "quarantined">>>> \in TargetPlans
      BY <1>1, OnePlan
<1> QED
    BY <1>2, <1>3 DEF StartQuarantine, Quiet

LEMMA BeginForms ==
    ASSUME NEW v \in Services, Begin(v)
    PROVE  \/ Quiet(v) \/ create_worktree(v) \/ detach_session(v)
           \/ \E s \in Sessions : activate(v, s) \/ assign_session(v, s) \/ recover(v, s)
           \/ \E s \in Sessions \cup {"none"} : request_workspace(v, s)
<1>1. CASE bootstrap(v)
  <2>1. QuietPlan("transition", <<To("bootstrapping"), To("ready")>>)
        /\ <<To("bootstrapping"), To("ready")>> \in TargetPlans
    <3>1. /\ To("bootstrapping") \in Targets /\ To("ready") \in Targets
          /\ Late(To("bootstrapping")) /\ Late(To("ready"))
          BY TargetFacts, LateFacts DEF States
    <3> QED
        BY <3>1, TwoPlan, OnePlan DEF QuietPlan
  <2> QED
      BY <1>1, <2>1, PresentFacts DEF bootstrap, Quiet, QuietOps
<1>2. CASE record_changes(v) \/ checkpoint(v)
  <2>1. PICK op \in QuietOps, a \in {To("active"), To("checkpointed")} :
           \E states \in SUBSET States : reload_then(v, op, states, a)
        BY <1>2 DEF record_changes, checkpoint, QuietOps, States
  <2>2. a \in Targets /\ Late(a)
        BY TargetFacts, LateFacts DEF States
  <2>3. file # Absent
        BY <2>1, AbsentFacts DEF reload_then, States
  <2> QED
      BY <2>1, <2>2, <2>3, OnePlan, QuietOne DEF reload_then, Quiet
<1>3. CASE \/ mark_validating(v) \/ mark_under_review(v) \/ mark_validation_required(v)
           \/ release_for_integration(v) \/ mark_integrated(v) \/ mark_published(v)
  <2>1. \A st \in States \ {"requested", "worktree_created"} :
           To(st) \in Targets /\ Late(To(st))
        BY TargetFacts, LateFacts
  <2>2. "mark" \in QuietOps
        BY DEF QuietOps
  <2>3. PICK ok \in BOOLEAN, st \in States \ {"requested", "worktree_created"} :
           Move(v, "mark", ok, To(st))
        BY <1>3 DEF mark_validating, mark_under_review, mark_validation_required,
                    release_for_integration, mark_integrated, mark_published, States, Move
  <2> QED
      BY <2>1, <2>2, <2>3, QuietMove
<1>4. CASE \/ detect_stale_base(v) \/ \E s \in Sessions : detect_session_detached(v, s)
  <2>1. /\ <<"active", "stale_base">> \in Targets /\ Late(<<"active", "stale_base">>)
        /\ <<"active", "session_detached">> \in Targets
        /\ Late(<<"active", "session_detached">>)
        BY TargetFacts, LateFacts DEF States, Recoveries, _RECOVERY_REQUIRED_RECOVERY
  <2>2. "mark" \in QuietOps
        BY DEF QuietOps
  <2> QED
      BY <1>4, <2>1, <2>2, QuietMove DEF detect_stale_base, detect_session_detached
<1>5. CASE release_assignment(v)
  <2>1. /\ QuietPlan("transition", <<To("released_for_integration")>>)
        /\ <<To("released_for_integration")>> \in TargetPlans
        BY TargetFacts, LateFacts, OnePlan, QuietOne DEF States
  <2> QED
      BY <1>5, <2>1, PresentFacts DEF release_assignment, Quiet, QuietOps
<1>6. CASE \E op \in {"quarantine", "quarantine_workspace"} : quarantine(v, op)
      BY <1>6, QuietQuarantine DEF quarantine, QuietOps
<1>7. CASE \E force \in BOOLEAN : retire(v, force) \/ safe_retire_workspace(v, force)
      BY <1>7, QuietRetire, QuietQuarantine, PresentFacts
         DEF retire, safe_retire_workspace, QuietOps
<1>8. CASE \E force \in BOOLEAN : remove_worktree(v, force)
      BY <1>8, PresentFacts, QuietNone, NoPlan DEF remove_worktree, Quiet, QuietOps
<1>9. CASE \E force \in BOOLEAN : reset_workspace(v, force)
  <2>1. /\ QuietPlan("transition", <<To("retired")>>) /\ <<To("retired")>> \in TargetPlans
        BY TargetFacts, LateFacts, OnePlan, QuietOne DEF States
  <2>2. <<"retired", "reset_refused">> \in Targets /\ Late(<<"retired", "reset_refused">>)
        BY TargetFacts, LateFacts DEF States, Recoveries, _TERMINAL_RECOVERY
  <2>3. /\ QuietPlan("transition", <<<<"retired", "reset_refused">>>>)
        /\ <<<<"retired", "reset_refused">>>> \in TargetPlans
        BY <2>2, OnePlan, QuietOne
  <2> QED
      BY <1>9, <2>1, <2>3, PresentFacts DEF reset_workspace, Quiet, QuietOps
<1>10. CASE \E s \in Sessions : reattach_session(v, s)
      BY <1>10 DEF reattach_session
<1> QED
    BY <1>1, <1>2, <1>3, <1>4, <1>5, <1>6, <1>7, <1>8, <1>9, <1>10 DEF Begin

(* Where Cached is taken, the record exists. *)
LEMMA CachedType ==
    ASSUME TypeInv, NEW v \in Services, file # Absent
    PROVE  /\ file \in RecordType /\ Cached(v) \in RecordType
           /\ cache[v] # Absent => cache[v] \in RecordType
BY DEF TypeInv, TypeOK, Cached

LEMMA AbsentPair == To("absent") \in Pairs
BY DEF To, Pairs, Recoveries

LEMMA TypeQuiet ==
    ASSUME TypeInv, NEW v \in Services, Quiet(v)
    PROVE  TypeInv'
<1>1. PICK op \in QuietOps, at \in {"transition", "check"}, force \in BOOLEAN :
         \E plan \in TargetPlans :
            Enter(v, op, at, plan, "none", force) /\ QuietPlan(at, plan)
      BY DEF Quiet
<1>2. PICK plan \in TargetPlans :
         Enter(v, op, at, plan, "none", force) /\ QuietPlan(at, plan)
      BY <1>1
<1> DEFINE c == [op |-> op, at |-> at, plan |-> plan, session |-> "none",
                 force |-> force, before |-> To("absent"), was |-> file]
<1>3. c \in CallType
      BY PlanFacts, AbsentPair DEF CallType, QuietOps, TypeInv, TypeOK
<1>4. /\ call' \in [Services -> CallType] /\ call'[v] = c
      /\ \A u \in Services \ {v} : call'[u] = call[u]
      BY <1>2, <1>3 DEF Enter, TypeInv, TypeOK
<1>5. cache' \in [Services -> RecordType \cup {Absent}] /\ UNCHANGED file
      /\ \A u \in Services \ {v} : cache'[u] = cache[u]
      BY DEF Quiet, TypeInv, TypeOK
<1>6. TypeOK'
      BY <1>2, <1>4, <1>5 DEF Quiet, TypeInv, TypeOK, QuietPlan
<1>7. Shape(v)'
      BY <1>2, <1>4, <1>5 DEF Quiet, Shape, QuietOps
<1>8. \A u \in Services \ {v} : Shape(u)'
      BY <1>4, <1>5 DEF TypeInv, Shape
<1> QED
    BY <1>6, <1>7, <1>8 DEF TypeInv

LEMMA TypeCreate ==
    ASSUME TypeInv, NEW v \in Services, create_worktree(v)
    PROVE  TypeInv'
<1>1. file # Absent
      BY PresentFacts DEF create_worktree
<1>2. tree' \in {"never", "clean", "dirty", "gone"}
      BY DEF create_worktree, TypeInv, TypeOK
<1>3. CASE UNCHANGED call
      BY <1>2, <1>3 DEF create_worktree, TypeInv, TypeOK, Shape
<1>4. CASE \E at \in {"added", "transition"} : \E plan \in TargetPlans :
              /\ Enter(v, "create_worktree", at, plan, "none", FALSE)
              /\ at = "transition" => plan # <<>>
  <2>1. PICK at \in {"added", "transition"}, plan \in TargetPlans :
              /\ Enter(v, "create_worktree", at, plan, "none", FALSE)
              /\ at = "transition" => plan # <<>>
        BY <1>4
  <2> DEFINE c == [op |-> "create_worktree", at |-> at, plan |-> plan, session |-> "none",
                   force |-> FALSE, before |-> To("absent"), was |-> file]
  <2>2. c \in CallType
        BY PlanFacts, AbsentPair DEF CallType, TypeInv, TypeOK
  <2>3. /\ call' \in [Services -> CallType] /\ call'[v] = c
        /\ \A u \in Services \ {v} : call'[u] = call[u]
        BY <2>1, <2>2 DEF Enter, TypeInv, TypeOK
  <2>4. TypeOK'
        BY <1>2, <2>1, <2>3 DEF create_worktree, TypeInv, TypeOK
  <2>5. Shape(v)'
        BY <1>1, <2>1, <2>3 DEF create_worktree, Shape
  <2>6. \A u \in Services \ {v} : Shape(u)'
        BY <2>3 DEF create_worktree, TypeInv, Shape
  <2> QED
      BY <2>4, <2>5, <2>6 DEF TypeInv
<1>5. <<<<"retired", "reservation_refused">>>> \in TargetPlans
      /\ <<<<"retired", "reservation_refused">>>> # <<>> /\ <<>> \in TargetPlans
      BY TargetFacts, OnePlan, NoPlan
<1> QED
    BY <1>3, <1>4, <1>5 DEF create_worktree

LEMMA TypeDetach ==
    ASSUME TypeInv, NEW v \in Services, detach_session(v)
    PROVE  TypeInv'
<1>1. file # Absent /\ file \in RecordType
      BY PresentFacts, CachedType DEF detach_session
<1>2. PICK at \in {"detached", "transition"}, plan \in TargetPlans :
          /\ Enter(v, "detach_session", at, plan, "none", FALSE)
          /\ at = "transition" => plan # <<>>
  <2>1. <<<<"active", "session_detached">>>> \in TargetPlans
        /\ <<<<"active", "session_detached">>>> # <<>> /\ <<>> \in TargetPlans
        BY TargetFacts, OnePlan, NoPlan
  <2> QED
      BY <2>1 DEF detach_session
<1> DEFINE c == [op |-> "detach_session", at |-> at, plan |-> plan, session |-> "none",
                 force |-> FALSE, before |-> To("absent"), was |-> file]
<1>3. c \in CallType
      BY PlanFacts, AbsentPair DEF CallType, TypeInv, TypeOK
<1>4. /\ call' \in [Services -> CallType] /\ call'[v] = c
      /\ \A u \in Services \ {v} : call'[u] = call[u]
      BY <1>2, <1>3 DEF Enter, TypeInv, TypeOK
<1>5. /\ file' \in RecordType /\ cache' \in [Services -> RecordType \cup {Absent}]
      /\ \A u \in Services \ {v} : cache'[u] = cache[u]
  <2>1. [file EXCEPT !.session = "none"] \in RecordType
        BY <1>1 DEF RecordType
  <2> QED
      BY <1>1, <2>1 DEF detach_session, SaveBoth, TypeInv, TypeOK
<1>10. /\ occupants' = occupants \/ occupants' = {}
       /\ UNCHANGED <<ledger, tree, locked, unreported>>
      BY DEF detach_session
<1>6. file' # Absent
      BY <1>5, AbsentFacts
<1>7. TypeOK'
      BY <1>2, <1>4, <1>5, <1>10 DEF TypeInv, TypeOK
<1>8. Shape(v)'
      BY <1>2, <1>4, <1>6 DEF Shape
<1>9. \A u \in Services \ {v} : Shape(u)'
      BY <1>4, <1>5, <1>6 DEF TypeInv, Shape
<1> QED
    BY <1>7, <1>8, <1>9 DEF TypeInv

LEMMA TypeActivate ==
    ASSUME TypeInv, NEW v \in Services, NEW s \in Sessions,
           activate(v, s) \/ assign_session(v, s)
    PROVE  TypeInv'
<1>1. file # Absent /\ file \in RecordType
      BY PresentFacts, CachedType DEF activate, assign_session
<1>2. PICK op \in {"activate", "assign_session"}, at \in {"transition", "final"},
           plan \in TargetPlans :
          /\ Enter(v, op, at, plan, s, FALSE)
          /\ at = "transition" => plan # <<>>
  <2>1. <<To("active")>> \in TargetPlans /\ <<To("active")>> # <<>> /\ <<>> \in TargetPlans
        BY TargetFacts, OnePlan, NoPlan DEF States
  <2> QED
      BY <2>1 DEF activate, assign_session
<1> DEFINE c == [op |-> op, at |-> at, plan |-> plan, session |-> s,
                 force |-> FALSE, before |-> To("absent"), was |-> file]
<1>3. c \in CallType
      BY PlanFacts, AbsentPair DEF CallType, TypeInv, TypeOK
<1>4. /\ call' \in [Services -> CallType] /\ call'[v] = c
      /\ \A u \in Services \ {v} : call'[u] = call[u]
      BY <1>2, <1>3 DEF Enter, TypeInv, TypeOK
<1>5. file' \in RecordType /\ UNCHANGED cache
      BY <1>1 DEF activate, assign_session, RecordType
<1>6. file' # Absent
      BY <1>5, AbsentFacts
<1>10. UNCHANGED <<ledger, tree, locked, occupants, unreported>>
      BY DEF activate, assign_session
<1>7. TypeOK'
      BY <1>2, <1>4, <1>5, <1>10 DEF TypeInv, TypeOK
<1>8. Shape(v)'
      BY <1>2, <1>4, <1>6 DEF Shape
<1>9. \A u \in Services \ {v} : Shape(u)'
      BY <1>4, <1>5, <1>6 DEF TypeInv, Shape
<1> QED
    BY <1>7, <1>8, <1>9 DEF TypeInv

LEMMA TypeRecover ==
    ASSUME TypeInv, NEW v \in Services, NEW s \in Sessions, recover(v, s)
    PROVE  TypeInv'
<1>1. file # Absent /\ file \in RecordType /\ Cached(v) \in RecordType
      BY PresentFacts, CachedType DEF recover
<1> DEFINE p == <<<<"active", "recovered">>, To("active")>>
           c == [op |-> "recover", at |-> "transition", plan |-> p, session |-> s,
                 force |-> FALSE, before |-> To("absent"), was |-> file]
<1>2. p \in TargetPlans /\ p # <<>> /\ p \in Plans
      BY TargetFacts, TwoPlan DEF States
<1>3. c \in CallType
      BY <1>2, AbsentPair DEF CallType, TypeInv, TypeOK
<1>4. /\ call' \in [Services -> CallType] /\ call'[v] = c
      /\ \A u \in Services \ {v} : call'[u] = call[u]
      BY <1>3 DEF recover, Enter, TypeInv, TypeOK
<1>5. [Cached(v) EXCEPT !.session = s] \in RecordType
      BY <1>1 DEF RecordType
<1>6. /\ cache' \in [Services -> RecordType \cup {Absent}] /\ cache'[v] \in RecordType
      /\ \A u \in Services \ {v} : cache'[u] = cache[u]
      /\ UNCHANGED file
      BY <1>5 DEF recover, TypeInv, TypeOK
<1>10. UNCHANGED <<ledger, tree, locked, occupants, unreported>>
      BY DEF recover
<1>7. TypeOK'
      BY <1>2, <1>4, <1>6, <1>10 DEF TypeInv, TypeOK
<1>8. Shape(v)'
      BY <1>1, <1>2, <1>4, <1>6, AbsentFacts DEF Shape
<1>9. \A u \in Services \ {v} : Shape(u)'
      BY <1>4, <1>6 DEF TypeInv, Shape
<1> QED
    BY <1>7, <1>8, <1>9 DEF TypeInv

LEMMA TypeRequest ==
    ASSUME TypeInv, NEW v \in Services, NEW s \in Sessions \cup {"none"},
           request_workspace(v, s)
    PROVE  TypeInv'
<1> DEFINE p == <<To("requested"), To("reserved")>>
           ws == [Absent EXCEPT !.state = "requested", !.session = s]
           c == [op |-> "request_workspace", at |-> "transition", plan |-> p,
                 session |-> s, force |-> FALSE, before |-> To("absent"), was |-> file]
<1>1. p \in TargetPlans /\ p # <<>> /\ p \in Plans
      BY TargetFacts, TwoPlan DEF States
<1>2. ws \in RecordType /\ ws # Absent
      BY DEF Absent, RecordType, States, Recoveries
<1>3. c \in CallType
      BY <1>1, AbsentPair DEF CallType, TypeInv, TypeOK
<1>4. /\ cache' \in [Services -> RecordType \cup {Absent}] /\ cache'[v] # Absent
      /\ \A u \in Services \ {v} : cache'[u] = cache[u]
      BY <1>2 DEF request_workspace, TypeInv, TypeOK
<1>5. CASE Enter(v, "request_workspace", "transition", p, s, FALSE) /\ file' = ws
  <2>1. /\ call' \in [Services -> CallType] /\ call'[v] = c
        /\ \A u \in Services \ {v} : call'[u] = call[u]
        BY <1>3, <1>5 DEF Enter, TypeInv, TypeOK
  <2>2. TypeOK'
        BY <1>1, <1>2, <1>4, <1>5, <2>1 DEF request_workspace, TypeInv, TypeOK
  <2>3. Shape(v)'
        BY <1>1, <1>2, <1>4, <1>5, <2>1 DEF Shape
  <2>4. \A u \in Services \ {v} : Shape(u)'
        BY <1>2, <1>4, <1>5, <2>1 DEF TypeInv, Shape
  <2> QED
      BY <2>2, <2>3, <2>4 DEF TypeInv
<1>6. CASE UNCHANGED <<file, call>>
  <2>1. TypeOK'
        BY <1>4, <1>6 DEF request_workspace, TypeInv, TypeOK
  <2>2. \A u \in Services : Shape(u)'
        BY <1>4, <1>6 DEF TypeInv, Shape
  <2> QED
      BY <2>1, <2>2 DEF TypeInv
<1> QED
    BY <1>5, <1>6 DEF request_workspace

(* The ways a failed or completed transition leaves the call. *)
LEMMA FailedForms ==
    ASSUME TypeInv, NEW v \in Services, Failed(v)
    PROVE  /\ \A u \in Services \ {v} : call'[u] = call[u]
           /\ call' \in [Services -> CallType]
           /\ \/ call'[v] = Idle
              \/ /\ call[v].op = "recover" /\ Len(call[v].plan) = 1
                 /\ call'[v] = [call[v] EXCEPT !.at = "restore"]
              \/ /\ call[v].op = "retire"
                 /\ call'[v] = [call[v] EXCEPT !.at = "transition",
                                               !.plan = <<To("retired")>>]
<1>1. call[v] \in CallType /\ call \in [Services -> CallType]
      BY DEF TypeInv, TypeOK
<1>2. Idle \in CallType
      BY AbsentPair, NoPlan DEF Idle, CallType
<1>3. [call[v] EXCEPT !.at = "restore"] \in CallType
      BY <1>1 DEF CallType
<1>4. <<To("retired")>> \in Plans
      BY TargetFacts, OnePlan DEF States
<1>5. [call[v] EXCEPT !.at = "transition", !.plan = <<To("retired")>>] \in CallType
      BY <1>1, <1>4 DEF CallType
<1>6. CASE call' = [call EXCEPT ![v] = Idle]
      BY <1>1, <1>2, <1>6
<1>7. CASE /\ call[v].op = "recover" /\ Len(call[v].plan) = 1
           /\ call' = [call EXCEPT ![v].at = "restore"]
      BY <1>1, <1>3, <1>7
<1>8. CASE /\ call[v].op = "retire"
           /\ call' = [call EXCEPT ![v].at = "transition", ![v].plan = <<To("retired")>>]
      BY <1>1, <1>5, <1>8
<1> QED
    BY <1>6, <1>7, <1>8 DEF Failed, Goto, Follow, Return

LEMMA CompletedForms ==
    ASSUME TypeInv, NEW v \in Services, Completed(v)
    PROVE  /\ \A u \in Services \ {v} : call'[u] = call[u]
           /\ call' \in [Services -> CallType]
           /\ \/ /\ call'[v] = Idle
                 /\ call[v].op \notin {"assign_session", "release_assignment"}
              \/ /\ call[v].op \in {"assign_session", "release_assignment"}
                 /\ call'[v] = [call[v] EXCEPT !.at = "final"]
              \/ /\ call[v].op = "quarantine_workspace"
                 /\ call'[v] = [call[v] EXCEPT !.at = "lock"]
<1>1. call[v] \in CallType /\ call \in [Services -> CallType]
      BY DEF TypeInv, TypeOK
<1>2. Idle \in CallType
      BY AbsentPair, NoPlan DEF Idle, CallType
<1>3. /\ [call[v] EXCEPT !.at = "final"] \in CallType
      /\ [call[v] EXCEPT !.at = "lock"] \in CallType
      BY <1>1 DEF CallType
<1> QED
    BY <1>1, <1>2, <1>3 DEF Completed, Goto, Return

(* A step of v that keeps the record, and a call in order, keeps the types. *)
LEMMA TypeStep ==
    ASSUME TypeInv, NEW v \in Services,
           call' \in [Services -> CallType],
           \A u \in Services \ {v} : call'[u] = call[u] /\ cache'[u] = cache[u],
           call'[v].at \in {"transition", "append"} => call'[v].plan # <<>>,
           Shape(v)',
           file' \in RecordType \cup {Absent}, file # Absent => file' # Absent,
           cache' \in [Services -> RecordType \cup {Absent}],
           ledger' \in LedgerType, tree' \in {"never", "clean", "dirty", "gone"},
           locked' \in BOOLEAN, unreported' \in BOOLEAN,
           occupants' \subseteq Sessions \X {"activate", "assign", "recover"}
    PROVE  TypeInv'
<1>1. TypeOK'
      BY DEF TypeInv, TypeOK
<1>2. \A u \in Services \ {v} : Shape(u)'
      BY DEF TypeInv, Shape
<1> QED
    BY <1>1, <1>2 DEF TypeInv

(* A call that has failed is in order. *)
LEMMA FailedShape ==
    ASSUME TypeInv, NEW v \in Services, Failed(v), file' # Absent,
           call[v].at \in {"transition", "append"},
           call[v].op = "recover" => cache'[v] # Absent
    PROVE  /\ Shape(v)'
           /\ call'[v].at \in {"transition", "append"} => call'[v].plan # <<>>
           /\ call' \in [Services -> CallType]
           /\ \A u \in Services \ {v} : call'[u] = call[u]
<1>1. /\ call' \in [Services -> CallType]
      /\ \A u \in Services \ {v} : call'[u] = call[u]
      BY FailedForms
<1>2. CASE call'[v] = Idle
      BY <1>1, <1>2, NoPlan DEF Shape, Idle
<1>3. CASE /\ call[v].op = "recover" /\ Len(call[v].plan) = 1
           /\ call'[v] = [call[v] EXCEPT !.at = "restore"]
  <2>1. call[v] \in CallType /\ Shape(v)
        BY DEF TypeInv, TypeOK
  <2> QED
      BY <1>1, <1>3, <2>1 DEF Shape, CallType
<1>4. CASE /\ call[v].op = "retire"
           /\ call'[v] = [call[v] EXCEPT !.at = "transition", !.plan = <<To("retired")>>]
  <2>1. call[v] \in CallType /\ Shape(v)
        BY DEF TypeInv, TypeOK
  <2>2. <<To("retired")>> \in TargetPlans /\ <<To("retired")>> # <<>>
        BY TargetFacts, OnePlan DEF States
  <2> QED
      BY <1>1, <1>4, <2>1, <2>2 DEF Shape, CallType
<1> QED
    BY <1>1, <1>2, <1>3, <1>4, FailedForms

(* What transition_save and transition_append know of their call. *)
LEMMA Transition ==
    ASSUME TypeInv, NEW v \in Services, call[v].at \in {"transition", "append"}
    PROVE  /\ file # Absent /\ Cached(v) \in RecordType /\ Cached(v) # Absent
           /\ Head(call[v].plan) \in Targets
           /\ WithPair(Cached(v), Head(call[v].plan)) \in RecordType
           /\ Len(call[v].plan) = 1 \/ Len(call[v].plan) > 1
           /\ Len(call[v].plan) > 1 => /\ Tail(call[v].plan) \in TargetPlans
                                       /\ Tail(call[v].plan) # <<>>
           /\ call[v].at = "append" => WithPair(Cached(v), call[v].before) \in RecordType
<1>1. /\ call[v].at # "idle" /\ call[v].plan # <<>> /\ call[v].plan \in TargetPlans
      /\ call[v].at = "append" => call[v].before \in Targets
      BY DEF TypeInv, TypeOK, Shape
<1>2. file # Absent
      BY <1>1 DEF TypeInv, Shape
<1>3. Cached(v) \in RecordType
      BY <1>2, CachedType
<1> QED
    BY <1>1, <1>2, <1>3, PlanFacts, WithPairType, AbsentFacts

LEMMA TypeSave ==
    ASSUME TypeInv, NEW v \in Services, transition_save(v)
    PROVE  TypeInv'
<1> DEFINE ws == Cached(v)
           target == Head(call[v].plan)
           moved == WithPair(ws, target)
<1>1. /\ file # Absent /\ ws \in RecordType /\ target \in Targets /\ moved \in RecordType
      /\ call[v].at = "transition"
      BY Transition DEF transition_save
<1>2. UNCHANGED <<ledger, tree, locked, occupants, unreported>>
      BY DEF transition_save
<1>3. /\ cache \in [Services -> RecordType \cup {Absent}] /\ file \in RecordType
      /\ call[v] \in CallType /\ call \in [Services -> CallType]
      /\ Shape(v) /\ call[v].plan # <<>>
      BY <1>1 DEF TypeInv, TypeOK
<1>4. CASE Failed(v) /\ UNCHANGED file /\ (UNCHANGED cache \/ cache' = [cache EXCEPT ![v] = ws])
  <2>1. /\ cache' \in [Services -> RecordType \cup {Absent}]
        /\ \A u \in Services \ {v} : cache'[u] = cache[u]
        /\ call[v].op = "recover" => cache'[v] # Absent
        BY <1>1, <1>3, <1>4, AbsentFacts DEF Shape
  <2>2. /\ Shape(v)'
        /\ call'[v].at \in {"transition", "append"} => call'[v].plan # <<>>
        /\ call' \in [Services -> CallType]
        /\ \A u \in Services \ {v} : call'[u] = call[u]
        BY <1>1, <1>4, <2>1, FailedShape
  <2> QED
      BY <1>1, <1>2, <1>3, <1>4, <2>1, <2>2, TypeStep DEF TypeInv, TypeOK
<1>5. CASE /\ call' = [call EXCEPT ![v].at = "append", ![v].before = Pair(ws)]
           /\ UNCHANGED <<file, cache>> \/ SaveBoth(v, moved)
  <2> DEFINE c == [call[v] EXCEPT !.at = "append", !.before = Pair(ws)]
  <2>1. Pair(ws) \in Targets /\ Pair(ws) \in Pairs
        BY <1>1, PairType, TargetFacts
  <2>2. c \in CallType
        BY <1>3, <2>1 DEF CallType
  <2>3. /\ call' \in [Services -> CallType] /\ call'[v] = c
        /\ \A u \in Services \ {v} : call'[u] = call[u]
        BY <1>3, <1>5, <2>2
  <2>4. /\ cache' \in [Services -> RecordType \cup {Absent}] /\ file' \in RecordType
        /\ \A u \in Services \ {v} : cache'[u] = cache[u]
        /\ call[v].op = "recover" => cache'[v] # Absent
        BY <1>1, <1>3, <1>5, AbsentFacts DEF Shape, SaveBoth
  <2>5. file' # Absent
        BY <2>4, AbsentFacts
  <2>6. Shape(v)' /\ call'[v].plan # <<>>
        BY <1>1, <1>3, <2>1, <2>3, <2>4, <2>5 DEF Shape, CallType
  <2> QED
      BY <1>1, <1>2, <1>3, <1>5, <2>3, <2>4, <2>5, <2>6, TypeStep DEF TypeInv, TypeOK
<1> QED
    BY <1>4, <1>5 DEF transition_save

(* What a write leaves at the ledger's end. *)
LEMMA LedgerForms ==
    ASSUME ledger \in LedgerType, NEW event \in Pairs
    PROVE  /\ Written(event, "none") \in LedgerType
           /\ \/ Written(event, "none").slip = "lost"
              \/ Written(event, "none").last = event
           /\ Torn(event) \subseteq AfterFailure(event)
           /\ \A end \in AfterFailure(event) :
                 /\ end \in LedgerType
                 /\ \/ end.slip = "lost"
                    \/ end.last = ledger.last /\ end.slip = ledger.slip
                    \/ end.last = event /\ end.slip = "kept"
<1>1. NoEvent \in Pairs
      BY AbsentPair DEF NoEvent
<1>2. /\ Cut \in LedgerType
      /\ Cut.slip = "lost" \/ (Cut.last = ledger.last /\ Cut.slip = ledger.slip)
      BY <1>1 DEF Cut, LedgerType
<1>3. ASSUME NEW slip \in {"none", "kept"}
      PROVE  /\ Written(event, slip) \in LedgerType
             /\ \/ Written(event, slip).slip = "lost"
                \/ Written(event, slip).last = event /\ Written(event, slip).slip = slip
      BY <1>1, <1>2 DEF Written, LedgerType
<1>4. ASSUME NEW end \in Torn(event)
      PROVE  /\ end \in LedgerType
             /\ \/ end.slip = "lost"
                \/ end.last = ledger.last /\ end.slip = ledger.slip
                \/ end.last = event /\ end.slip = "kept"
  <2>1. CASE end = [Cut EXCEPT !.tail = "torn"]
        BY <1>2, <2>1 DEF LedgerType
  <2>2. CASE end = [last |-> event, past |-> ledger.last, tail |-> "open", slip |-> "kept"]
        BY <2>2 DEF LedgerType
  <2> QED
      BY <2>1, <2>2 DEF Torn
<1> QED
    BY <1>3, <1>4 DEF AfterFailure

LEMMA DeathForms ==
    ASSUME TypeInv, NEW v \in Services, crash(v)
    PROVE  /\ ledger' \in LedgerType
           /\ \/ UNCHANGED ledger
              \/ call[v].at = "append" /\ ledger' \in AfterFailure(Head(call[v].plan))
              \/ call[v].at = "detached" /\ ledger' \in AfterFailure(To("active"))
<1>1. ledger \in LedgerType /\ To("active") \in Pairs
      BY TargetFacts DEF TypeInv, TypeOK, States
<1>2. call[v].at = "append" => Head(call[v].plan) \in Pairs
      BY Transition, TargetFacts
<1> QED
    BY <1>1, <1>2, LedgerForms DEF crash

LEMMA TypeElsewhere ==
    ASSUME TypeInv, append_elsewhere
    PROVE  /\ TypeInv'
           /\ \/ ledger'.slip = "lost"
              \/ ledger'.slip = ledger.slip /\ ledger'.last = ledger.last
<1>1. ledger \in LedgerType /\ NoEvent \in Pairs
      BY AbsentPair DEF TypeInv, TypeOK, NoEvent
<1>2. /\ ledger' \in LedgerType
      /\ \/ ledger'.slip = "lost"
         \/ ledger'.slip = ledger.slip /\ ledger'.last = ledger.last
      BY <1>1 DEF append_elsewhere, Cut, LedgerType
<1> QED
    BY <1>2 DEF append_elsewhere, TypeInv, TypeOK, Shape

LEMMA TypeAppend ==
    ASSUME TypeInv, NEW v \in Services, transition_append(v)
    PROVE  TypeInv'
<1> DEFINE old == WithPair(Cached(v), call[v].before)
<1>1. /\ file # Absent /\ old \in RecordType /\ Head(call[v].plan) \in Targets
      /\ Head(call[v].plan) \in Pairs /\ call[v].at = "append"
      BY Transition, TargetFacts DEF transition_append
<1>2. UNCHANGED <<tree, locked>> /\ unreported' \in BOOLEAN /\ ledger' \in LedgerType
  <2>1. ledger \in LedgerType
        BY DEF TypeInv, TypeOK
  <2>2. ledger' \in LedgerType
        BY <1>1, <2>1, LedgerForms DEF transition_append
  <2> QED
      BY <1>1, <2>2 DEF transition_append, TypeInv, TypeOK
<1>3. /\ cache \in [Services -> RecordType \cup {Absent}] /\ file \in RecordType
      /\ call[v] \in CallType /\ call \in [Services -> CallType]
      /\ Shape(v) /\ occupants \subseteq Sessions \X {"activate", "assign", "recover"}
      BY <1>1 DEF TypeInv, TypeOK
<1>4. CASE /\ Len(call[v].plan) > 1
           /\ call' = [call EXCEPT ![v].at = "transition", ![v].plan = Tail(@)]
           /\ UNCHANGED <<file, cache, occupants>>
  <2> DEFINE c == [call[v] EXCEPT !.at = "transition", !.plan = Tail(@)]
  <2>1. Tail(call[v].plan) \in TargetPlans /\ Tail(call[v].plan) # <<>>
        BY <1>1, <1>4, Transition
  <2>2. Tail(call[v].plan) \in Plans
        BY <2>1, PlanFacts
  <2>3. c \in CallType
        BY <1>3, <2>2 DEF CallType
  <2>4. /\ call' \in [Services -> CallType] /\ call'[v] = c
        /\ \A u \in Services \ {v} : call'[u] = call[u]
        BY <1>3, <1>4, <2>3
  <2>5. Shape(v)' /\ call'[v].plan # <<>>
        BY <1>1, <1>3, <1>4, <2>1, <2>4 DEF Shape, CallType
  <2> QED
      BY <1>1, <1>2, <1>3, <1>4, <2>4, <2>5, TypeStep DEF TypeInv, TypeOK
<1>5. CASE Completed(v) /\ occupants' = Occupants(v) /\ UNCHANGED <<file, cache>>
  <2>1. /\ \A u \in Services \ {v} : call'[u] = call[u]
        /\ call' \in [Services -> CallType]
        BY <1>5, CompletedForms
  <2>2. occupants' \subseteq Sessions \X {"activate", "assign", "recover"}
        BY <1>3, <1>5 DEF Occupants, Shape
  <2>3. CASE call'[v] = Idle
    <3>1. Shape(v)' /\ call'[v].at \notin {"transition", "append"}
          BY <2>3, NoPlan DEF Shape, Idle
    <3> QED
        BY <1>1, <1>2, <1>3, <1>5, <2>1, <2>2, <3>1, TypeStep DEF TypeInv, TypeOK
  <2>4. CASE \E at \in {"final", "lock"} : call'[v] = [call[v] EXCEPT !.at = at]
    <3>1. Shape(v)' /\ call'[v].at \notin {"transition", "append"}
          BY <1>1, <1>3, <1>5, <2>4 DEF Shape, CallType
    <3> QED
        BY <1>1, <1>2, <1>3, <1>5, <2>1, <2>2, <3>1, TypeStep DEF TypeInv, TypeOK
  <2> QED
      BY <1>5, <2>3, <2>4, CompletedForms
<1>6. CASE /\ Failed(v) /\ UNCHANGED occupants
           /\ \/ UNCHANGED <<file, cache>>
              \/ SaveBoth(v, old)
              \/ cache' = [cache EXCEPT ![v] = old] /\ UNCHANGED file
  <2>1. /\ cache' \in [Services -> RecordType \cup {Absent}] /\ file' \in RecordType
        /\ \A u \in Services \ {v} : cache'[u] = cache[u]
        /\ call[v].op = "recover" => cache'[v] # Absent
        BY <1>1, <1>3, <1>6, AbsentFacts DEF Shape, SaveBoth
  <2>2. file' # Absent
        BY <2>1, AbsentFacts
  <2>3. /\ Shape(v)'
        /\ call'[v].at \in {"transition", "append"} => call'[v].plan # <<>>
        /\ call' \in [Services -> CallType]
        /\ \A u \in Services \ {v} : call'[u] = call[u]
        BY <1>1, <1>6, <2>1, <2>2, FailedShape
  <2> QED
      BY <1>1, <1>2, <1>3, <1>6, <2>1, <2>2, <2>3, TypeStep DEF TypeInv, TypeOK
<1> QED
    BY <1>4, <1>5, <1>6 DEF transition_append

(* The other steps: a write of the record that was read, a step of the       *)
(* removal, a return.                                                        *)
LEMMA TypeOthers ==
    ASSUME TypeInv, NEW v \in Services,
           \/ record_worktree(v) \/ check_removal(v) \/ try_git_worktree_remove(v)
           \/ clear_worktree_path(v) \/ lock_worktree(v) \/ recover_restore(v)
           \/ write_session(v) \/ record_detached(v)
    PROVE  TypeInv'
<1>1. /\ cache \in [Services -> RecordType \cup {Absent}]
      /\ call[v] \in CallType /\ call \in [Services -> CallType] /\ Shape(v)
      /\ occupants \subseteq Sessions \X {"activate", "assign", "recover"}
      BY DEF TypeInv, TypeOK
<1>2. call[v].at # "idle"
      BY DEF record_worktree, check_removal, try_git_worktree_remove, clear_worktree_path,
             lock_worktree, recover_restore, write_session, record_detached
<1>3. file # Absent /\ file \in RecordType
      BY <1>1, <1>2, CachedType DEF Shape
<1>4. call[v].was \in RecordType \cup {Absent}
      BY <1>1 DEF CallType
<1>5. Idle \in CallType
      BY AbsentPair, NoPlan DEF Idle, CallType
<1>6. /\ To("worktree_created") \in Targets /\ To("retired") \in Targets
      /\ RemovalRefused \in Targets /\ <<"active", "recovery_required">> \in Targets
      BY TargetFacts DEF States
<1>7. /\ file' \in RecordType
      /\ cache' \in [Services -> RecordType \cup {Absent}]
      /\ \A u \in Services \ {v} : cache'[u] = cache[u]
      /\ call[v].op = "recover" => cache'[v] # Absent
  <2>1. \A ws \in RecordType : /\ [ws EXCEPT !.path = TRUE] \in RecordType
                               /\ [ws EXCEPT !.path = FALSE] \in RecordType
        BY DEF RecordType
  <2>2. \A ws \in RecordType : \A s \in Sessions \cup {"none"} :
           [ws EXCEPT !.session = s] \in RecordType
        BY DEF RecordType
  <2>3. CASE record_worktree(v)
        BY <1>1, <1>3, <1>4, <2>1, <2>3, AbsentFacts DEF record_worktree, Shape
  <2>4. CASE clear_worktree_path(v)
        BY <1>1, <1>3, <1>4, <2>1, <2>4, AbsentFacts DEF clear_worktree_path, Shape
  <2>5. CASE recover_restore(v)
    <3>1. /\ call[v].was \in RecordType /\ cache[v] \in RecordType
          /\ call[v].was.session \in Sessions \cup {"none"}
          BY <1>1, <1>4, <2>5 DEF recover_restore, Shape, RecordType
    <3>2. [cache[v] EXCEPT !.session = call[v].was.session] \in RecordType
          BY <2>2, <3>1
    <3> QED
        BY <1>1, <1>3, <2>5, <3>1, <3>2, AbsentFacts DEF recover_restore
  <2>6. CASE write_session(v)
    <3>1. [file EXCEPT !.session = call[v].session] \in RecordType
          BY <1>1, <1>3, <2>2 DEF CallType
    <3> QED
        BY <1>1, <1>3, <2>6, <3>1, AbsentFacts DEF write_session, SaveBoth, Shape
  <2>7. CASE \/ check_removal(v) \/ try_git_worktree_remove(v) \/ lock_worktree(v)
             \/ record_detached(v)
        BY <1>1, <1>3, <2>7 DEF check_removal, try_git_worktree_remove, lock_worktree,
                                record_detached, Shape
  <2> QED
      BY <2>3, <2>4, <2>5, <2>6, <2>7
<1>8. file' # Absent
      BY <1>7, AbsentFacts
<1>9. /\ ledger' \in LedgerType /\ tree' \in {"never", "clean", "dirty", "gone"}
      /\ locked' \in BOOLEAN /\ unreported' \in BOOLEAN
  <2>1. To("active") \in Pairs /\ ledger \in LedgerType
        BY TargetFacts DEF States, TypeInv, TypeOK
  <2>2. ledger' \in LedgerType
        BY <2>1, LedgerForms DEF record_worktree, check_removal, try_git_worktree_remove,
             clear_worktree_path, lock_worktree, recover_restore, write_session,
             record_detached
  <2> QED
      BY <2>2 DEF record_worktree, check_removal, try_git_worktree_remove,
             clear_worktree_path, lock_worktree, recover_restore, write_session,
             record_detached, TypeInv, TypeOK
<1>10. occupants' \subseteq Sessions \X {"activate", "assign", "recover"}
  <2>1. CASE write_session(v)
        BY <1>1, <2>1 DEF write_session, Shape
  <2>2. CASE UNCHANGED occupants
        BY <1>1, <2>2
  <2> QED
      BY <2>1, <2>2 DEF record_worktree, check_removal, try_git_worktree_remove,
             clear_worktree_path, lock_worktree, recover_restore, record_detached
<1>11. CASE call' = [call EXCEPT ![v] = Idle]
  <2>1. /\ call' \in [Services -> CallType] /\ call'[v] = Idle
        /\ \A u \in Services \ {v} : call'[u] = call[u]
        BY <1>1, <1>5, <1>11
  <2>2. Shape(v)' /\ call'[v].at \notin {"transition", "append"}
        BY <2>1, NoPlan DEF Shape, Idle
  <2> QED
      BY <1>7, <1>8, <1>9, <1>10, <2>1, <2>2, TypeStep
<1>12. CASE \E a \in Targets : \E op \in {"mark", call[v].op} :
              /\ call[v].at = "restore" => op = "mark"
              /\ call' = [call EXCEPT ![v] =
                            [call[v] EXCEPT !.op = op, !.at = "transition", !.plan = <<a>>]]
  <2>1. PICK a \in Targets, op \in {"mark", call[v].op} :
              /\ call[v].at = "restore" => op = "mark"
              /\ call' = [call EXCEPT ![v] =
                            [call[v] EXCEPT !.op = op, !.at = "transition", !.plan = <<a>>]]
        BY <1>12
  <2> DEFINE c == [call[v] EXCEPT !.op = op, !.at = "transition", !.plan = <<a>>]
  <2>2. <<a>> \in TargetPlans /\ <<a>> \in Plans /\ <<a>> # <<>>
        BY OnePlan
  <2>3. c \in CallType
        BY <1>1, <2>2 DEF CallType
  <2>4. /\ call' \in [Services -> CallType] /\ call'[v] = c
        /\ \A u \in Services \ {v} : call'[u] = call[u]
        BY <1>1, <2>1, <2>3
  <2>5. Shape(v)' /\ call'[v].plan # <<>>
        BY <1>1, <1>2, <1>7, <1>8, <2>2, <2>4 DEF Shape, CallType
  <2> QED
      BY <1>7, <1>8, <1>9, <1>10, <2>4, <2>5, TypeStep
<1>13. CASE \E was \in RecordType \cup {Absent} :
              /\ was # Absent
              /\ \E at \in {"remove", "clear"} :
                    call' = [call EXCEPT ![v] = [call[v] EXCEPT !.at = at, !.was = was]]
  <2>1. PICK was \in RecordType \cup {Absent}, at \in {"remove", "clear"} :
              /\ was # Absent
              /\ call' = [call EXCEPT ![v] = [call[v] EXCEPT !.at = at, !.was = was]]
        BY <1>13
  <2> DEFINE c == [call[v] EXCEPT !.at = at, !.was = was]
  <2>2. c \in CallType
        BY <1>1 DEF CallType
  <2>3. /\ call' \in [Services -> CallType] /\ call'[v] = c
        /\ \A u \in Services \ {v} : call'[u] = call[u]
        BY <1>1, <2>1, <2>2
  <2>4. Shape(v)' /\ call'[v].at \notin {"transition", "append"}
        BY <1>1, <1>2, <1>7, <1>8, <2>1, <2>3 DEF Shape, CallType
  <2> QED
      BY <1>7, <1>8, <1>9, <1>10, <2>3, <2>4, TypeStep
<1>14. ASSUME NEW a \in Targets, Follow(v, a), call[v].at # "restore"
       PROVE  \E b \in Targets : \E op \in {"mark", call[v].op} :
              /\ call[v].at = "restore" => op = "mark"
              /\ call' = [call EXCEPT ![v] =
                            [call[v] EXCEPT !.op = op, !.at = "transition", !.plan = <<b>>]]
  <2>1. [call[v] EXCEPT !.op = call[v].op, !.at = "transition", !.plan = <<a>>]
           = [call[v] EXCEPT !.at = "transition", !.plan = <<a>>]
        BY <1>1 DEF CallType
  <2> QED
      BY <1>1, <1>14, <2>1 DEF Follow
<1>15. CASE record_worktree(v)
       BY <1>6, <1>11, <1>12, <1>14, <1>15 DEF record_worktree, Return
<1>16. CASE check_removal(v)
       BY <1>3, <1>6, <1>12, <1>13, <1>14, <1>16 DEF check_removal
<1>17. CASE try_git_worktree_remove(v)
  <2>1. CASE Goto(v, "clear")
    <3>1. [call[v] EXCEPT !.at = "clear", !.was = call[v].was]
             = [call[v] EXCEPT !.at = "clear"]
          BY <1>1 DEF CallType
    <3>2. call[v].was # Absent
          BY <1>1, <1>17 DEF try_git_worktree_remove, Shape
    <3> QED
        BY <1>1, <1>4, <1>13, <2>1, <3>1, <3>2 DEF Goto
  <2> QED
      BY <1>6, <1>12, <1>14, <1>17, <2>1 DEF try_git_worktree_remove
<1>18. CASE clear_worktree_path(v)
       BY <1>6, <1>11, <1>12, <1>14, <1>18 DEF clear_worktree_path, Return
<1>19. CASE recover_restore(v)
       BY <1>1, <1>6, <1>11, <1>12, <1>19 DEF recover_restore, Return
<1> QED
    BY <1>11, <1>15, <1>16, <1>17, <1>18, <1>19
       DEF lock_worktree, write_session, record_detached, Return

LEMMA TypeEnvironment ==
    ASSUME TypeInv, NEW v \in Services, _load_all(v) \/ crash(v)
    PROVE  TypeInv'
<1>1. /\ cache \in [Services -> RecordType \cup {Absent}]
      /\ file \in RecordType \cup {Absent} /\ call \in [Services -> CallType] /\ Shape(v)
      BY DEF TypeInv, TypeOK
<1>2. Idle \in CallType
      BY AbsentPair, NoPlan DEF Idle, CallType
<1>3. /\ cache' \in [Services -> RecordType \cup {Absent}]
      /\ \A u \in Services \ {v} : cache'[u] = cache[u] /\ call'[u] = call[u]
      /\ call' \in [Services -> CallType] /\ call'[v] = Idle
      BY <1>1, <1>2 DEF _load_all, crash, Return, Free
<1>4. Shape(v)' /\ call'[v].at \notin {"transition", "append"}
      BY <1>3, NoPlan DEF Shape, Idle
<1>5. /\ UNCHANGED <<file, tree, locked, occupants>> /\ unreported' \in BOOLEAN
      /\ ledger' \in LedgerType
      BY DeathForms DEF _load_all, crash, TypeInv, TypeOK
<1> QED
    BY <1>1, <1>3, <1>4, <1>5, TypeStep DEF TypeInv, TypeOK

LEMMA TypeKept ==
    ASSUME TypeInv, [Next]_vars
    PROVE  TypeInv'
<1>1. CASE Work \/ append_elsewhere
      BY <1>1, TypeElsewhere DEF Work, TypeInv, TypeOK, Shape
<1>2. CASE UNCHANGED vars
      BY <1>2 DEF vars, TypeInv, TypeOK, Shape
<1>3. ASSUME NEW v \in Services, Begin(v)
      PROVE  TypeInv'
      BY <1>3, BeginForms, TypeQuiet, TypeCreate, TypeDetach, TypeActivate, TypeRecover,
         TypeRequest
<1>4. ASSUME NEW v \in Services, Proceed(v)
      PROVE  TypeInv'
      BY <1>4, TypeSave, TypeAppend, TypeOthers DEF Proceed
<1>5. ASSUME NEW v \in Services, _load_all(v) \/ crash(v)
      PROVE  TypeInv'
      BY <1>5, TypeEnvironment
<1> QED
    BY <1>1, <1>2, <1>3, <1>4, <1>5 DEF Next

LEMMA TypeInit == Init => TypeInv
<1> SUFFICES ASSUME Init PROVE TypeInv
    OBVIOUS
<1>1. Idle \in CallType
      BY AbsentPair, NoPlan DEF Idle, CallType
<1>2. [last |-> NoEvent, past |-> NoEvent, tail |-> "whole", slip |-> "none"] \in LedgerType
      BY AbsentPair DEF NoEvent, LedgerType
<1>3. \A v \in Services : Shape(v) /\ call[v].at \notin {"transition", "append"}
      BY NoPlan DEF Init, Shape, Idle
<1> QED
    BY <1>1, <1>2, <1>3 DEF Init, TypeInv, TypeOK

(* Types, for any number of services: in particular no interleaving of their *)
(* saves makes the record disappear, or puts the empty record that           *)
(* request_workspace starts from over it.                                    *)
THEOREM TypeCorrect == Spec => []TypeOK
<1>1. TypeInv => TypeOK
      BY DEF TypeInv
<1> QED
    BY <1>1, TypeInit, TypeKept, PTL DEF Spec

-----------------------------------------------------------------------------
(* One service.  With two, a stale copy of one is saved over the record that *)
(* the other has moved on, and none of what follows holds.                   *)

OneService == \E v : Services = {v}

Unnamed == {"requested", "reserved", "retired"}

PreActive == {"requested", "reserved", "worktree_created", "bootstrapping", "ready"}

(* What the lifecycle's table allows. *)
LEMMA TableFacts ==
    ASSUME NEW a, NEW b, <<a, b>> \in _VALID_TRANSITIONS
    PROVE  /\ a[1] \in Unnamed => b[1] \in Unnamed \/ b = To("worktree_created")
           /\ a[1] \notin PreActive => b[1] \notin PreActive
           /\ b[1] # "requested"
           /\ b[1] = "reserved" => a[1] = "requested"
           /\ b = <<"active", "recovered">> =>
                 a[1] = "active" /\ a[2] \in _RECOVERY_REQUIRED_RECOVERY
           /\ /\ a[1] = "active" /\ a[2] \in _RECOVERY_REQUIRED_RECOVERY \cup {"recovered"}
              /\ b[2] \notin {"none"} \cup _TERMINAL_RECOVERY
              => b[1] = "active"
BY DEF _VALID_TRANSITIONS, To, Unnamed, PreActive, _TERMINAL_RECOVERY,
       _RECOVERY_REQUIRED_RECOVERY

(* Nothing has happened before the record exists. *)
Untouched ==
    file = Absent =>
        /\ ledger.slip = "lost" \/ ledger.last = NoEvent
        /\ ~unreported /\ tree = "never" /\ occupants = {}

(* The copy in memory is in the record's state, or a roll-back failed, and   *)
(* it is one transition behind.                                              *)
CopyTracks(v) ==
    file # Absent /\ cache[v] # Absent =>
        \/ cache[v].state = file.state
        \/ unreported /\ <<Pair(cache[v]), Pair(file)>> \in _VALID_TRANSITIONS

(* Between save and report the ledger has what would be rolled back to. *)
AppendTracks(v) ==
    call[v].at = "append" =>
        /\ Head(call[v].plan) = Pair(Cached(v))
        /\ Changed(v) => /\ cache[v] = file
                         /\ <<call[v].before, Head(call[v].plan)>> \in _VALID_TRANSITIONS
        /\ ~unreported => /\ Tells(ledger, call[v].before)
                          /\ ~Changed(v) => Tells(ledger, Pair(file))

LedgerTracks(v) ==
    call[v].at # "append" /\ file # Absent /\ ~unreported =>
        Tells(ledger, Pair(file)) /\ Tells(ledger, Pair(Cached(v)))

CallTracks(v) ==
    /\ call[v].at \in {"added", "remove", "clear"} => call[v].was = file
    /\ call[v].at = "detached" => file.state = "active"
    /\ call[v].op = "assign_session" =>
          /\ file.state = IF call[v].at = "transition" THEN "ready" ELSE "active"
          /\ call[v].at \in {"transition", "append", "final"}
          /\ call[v].at # "final" => call[v].plan = <<To("active")>>

(* A recovery that has made its first transition works on an active record. *)
Recovering(v) ==
    call[v].op = "recover" =>
        /\ cache[v].session = call[v].session
        /\ \/ /\ call[v].plan = <<<<"active", "recovered">>, To("active")>>
              /\ call[v].at = "transition" /\ call[v].was = file
              /\ file.rec \notin {"none"} \cup _TERMINAL_RECOVERY
           \/ /\ call[v].plan = <<<<"active", "recovered">>, To("active")>>
              /\ call[v].at = "append" /\ call[v].before[1] = "active"
              /\ file.state = "active" /\ call[v].was.state = "active"
           \/ /\ call[v].plan = <<To("active")>>
              /\ ledger.slip = "lost" \/ ledger.last[1] = "active"
              /\ call[v].at \in {"transition", "append", "restore"}
              /\ call[v].at = "transition" => Pair(cache[v]) = <<"active", "recovered">>
              /\ call[v].at = "append" => call[v].before = <<"active", "recovered">>
              /\ cache[v].state = "active"
              /\ file.state = "active" /\ call[v].was.state = "active"

LedgerInv(v) ==
    /\ Untouched
    /\ CopyTracks(v)
    /\ AppendTracks(v)
    /\ LedgerTracks(v)
    /\ CallTracks(v)
    /\ Recovering(v)

LEMMA QuietForm ==
    ASSUME TypeInv, NEW v \in Services, Quiet(v)
    PROVE  /\ call[v].at = "idle" /\ file # Absent
           /\ call'[v].op \in QuietOps /\ call'[v].at \in {"transition", "check"}
           /\ call'[v].was = file /\ QuietPlan(call'[v].at, call'[v].plan)
           /\ cache'[v] = cache[v] \/ cache'[v] = file
           /\ UNCHANGED <<file, ledger, tree, locked, occupants, unreported>>
BY DEF Quiet, Enter, Free, Idle, TypeInv, TypeOK

LEMMA LedgerQuiet ==
    ASSUME TypeInv, NEW v \in Services, LedgerInv(v), Quiet(v)
    PROVE  LedgerInv(v)'
<1>1. /\ call[v].at = "idle" /\ file # Absent
      /\ call'[v].op \notin {"recover", "assign_session"}
      /\ call'[v].at \in {"transition", "check"}
      /\ cache'[v] = cache[v] \/ cache'[v] = file
      /\ UNCHANGED <<file, ledger, tree, locked, occupants, unreported>>
      BY QuietForm DEF QuietOps
<1>2. Cached(v)' \in {Cached(v), file}
      BY <1>1 DEF Cached
<1>3. LedgerTracks(v)' /\ AppendTracks(v)'
      BY <1>1, <1>2 DEF LedgerInv, LedgerTracks, AppendTracks
<1> QED
    BY <1>1, <1>3 DEF LedgerInv, Untouched, CopyTracks, CallTracks, Recovering

LEMMA LedgerCreate ==
    ASSUME TypeInv, NEW v \in Services, LedgerInv(v), create_worktree(v)
    PROVE  LedgerInv(v)'
<1>1. /\ file # Absent
      /\ UNCHANGED <<file, cache, ledger, occupants, unreported>>
      BY PresentFacts DEF create_worktree
<1>2. \/ UNCHANGED call
      \/ /\ call[v].at = "idle" /\ call'[v].op = "create_worktree"
         /\ call'[v].at \in {"added", "transition"} /\ call'[v].was = file
      BY DEF create_worktree, Enter, Free, Idle, TypeInv, TypeOK
<1> QED
    BY <1>1, <1>2 DEF LedgerInv, Untouched, CopyTracks, AppendTracks, LedgerTracks,
                CallTracks, Recovering, Cached, Changed

LEMMA LedgerDetach ==
    ASSUME TypeInv, NEW v \in Services, LedgerInv(v), detach_session(v)
    PROVE  LedgerInv(v)'
<1>1. file # Absent /\ file.state = "active" /\ file \in RecordType
      BY PresentFacts, CachedType DEF detach_session
<1>2. /\ call[v].at = "idle" /\ call'[v].op = "detach_session"
      /\ call'[v].at \in {"detached", "transition"}
      /\ UNCHANGED <<ledger, unreported>>
      BY DEF detach_session, Enter, Free, Idle, TypeInv, TypeOK
<1>3. /\ file'.state = "active" /\ file' # Absent
      /\ \/ UNCHANGED <<file, cache>>
         \/ cache'[v] = file'
  <2>1. CASE UNCHANGED <<file, cache>>
        BY <1>1, <2>1
  <2>2. CASE SaveBoth(v, [file EXCEPT !.session = "none"])
        BY <1>1, <2>2, AbsentFacts DEF SaveBoth, RecordType, TypeInv, TypeOK
  <2> QED
      BY <2>1, <2>2 DEF detach_session
<1>4. Pair(file') = Pair(file)
      BY <1>1 DEF detach_session, SaveBoth, RecordType, Pair
<1>5. Cached(v)' = Cached(v) \/ Cached(v)' = file'
      BY <1>3 DEF Cached
<1>6. LedgerTracks(v)' /\ AppendTracks(v)'
      BY <1>1, <1>2, <1>4, <1>5 DEF LedgerInv, LedgerTracks, AppendTracks
<1> QED
    BY <1>1, <1>2, <1>3, <1>6 DEF LedgerInv, Untouched, CopyTracks, CallTracks, Recovering

LEMMA LedgerActivate ==
    ASSUME TypeInv, NEW v \in Services, NEW s \in Sessions, LedgerInv(v), activate(v, s)
    PROVE  LedgerInv(v)'
<1>1. file # Absent /\ file \in RecordType
      BY PresentFacts, CachedType DEF activate
<1>2. /\ call[v].at = "idle" /\ call'[v].op = "activate" /\ call'[v].at = "transition"
      /\ UNCHANGED <<cache, ledger, unreported>>
      BY DEF activate, Enter, Free, Idle, TypeInv, TypeOK
<1>3. file'.state = file.state /\ Pair(file') = Pair(file) /\ file' # Absent
      BY <1>1, AbsentFacts DEF activate, RecordType, Pair
<1>4. Pair(Cached(v)') = Pair(Cached(v))
      BY <1>2, <1>3 DEF Cached
<1>5. LedgerTracks(v)' /\ AppendTracks(v)'
      BY <1>1, <1>2, <1>3, <1>4 DEF LedgerInv, LedgerTracks, AppendTracks
<1> QED
    BY <1>1, <1>2, <1>3, <1>5 DEF LedgerInv, Untouched, CopyTracks, CallTracks, Recovering

LEMMA LedgerAssign ==
    ASSUME TypeInv, NEW v \in Services, NEW s \in Sessions, LedgerInv(v),
           assign_session(v, s)
    PROVE  LedgerInv(v)'
<1>1. file # Absent
      BY PresentFacts DEF assign_session
<1>2. /\ call[v].at = "idle" /\ call'[v].op = "assign_session"
      /\ \/ /\ call'[v].at = "transition" /\ call'[v].plan = <<To("active")>>
            /\ file.state = "ready"
         \/ call'[v].at = "final" /\ file.state = "active"
      /\ UNCHANGED <<file, cache, ledger, tree, occupants, unreported>>
      BY DEF assign_session, Enter, Free, Idle, TypeInv, TypeOK
<1> QED
    BY <1>1, <1>2 DEF LedgerInv, Untouched, CopyTracks, AppendTracks, LedgerTracks,
                CallTracks, Recovering, Cached

LEMMA LedgerRecover ==
    ASSUME TypeInv, NEW v \in Services, NEW s \in Sessions, LedgerInv(v), recover(v, s)
    PROVE  LedgerInv(v)'
<1>1. file # Absent /\ file \in RecordType /\ Cached(v) \in RecordType
      BY PresentFacts, CachedType DEF recover
<1>2. /\ call[v].at = "idle" /\ call'[v].op = "recover" /\ call'[v].at = "transition"
      /\ call'[v].plan = <<<<"active", "recovered">>, To("active")>>
      /\ call'[v].session = s /\ call'[v].was = file
      /\ UNCHANGED <<file, ledger, tree, occupants, unreported>>
      /\ file.rec \notin {"none"} \cup _TERMINAL_RECOVERY
      BY DEF recover, Enter, Free, Idle, TypeInv, TypeOK
<1>3. /\ cache'[v] = [Cached(v) EXCEPT !.session = s]
      BY DEF recover, TypeInv, TypeOK
<1>4. /\ cache'[v].session = s /\ cache'[v].state = Cached(v).state
      /\ Pair(cache'[v]) = Pair(Cached(v))
      BY <1>1, <1>3 DEF RecordType, Pair
<1>5. CopyTracks(v)'
      BY <1>1, <1>2, <1>4 DEF LedgerInv, CopyTracks, Cached
<1>6. cache'[v] # Absent
      BY <1>1, <1>4, AbsentFacts
<1>7. Cached(v)' = cache'[v]
      BY <1>6 DEF Cached
<1>8. LedgerTracks(v)' /\ AppendTracks(v)'
      BY <1>1, <1>2, <1>4, <1>7 DEF LedgerInv, LedgerTracks, AppendTracks
<1> QED
    BY <1>1, <1>2, <1>4, <1>5, <1>8 DEF LedgerInv, Untouched, CallTracks, Recovering

LEMMA LedgerRequest ==
    ASSUME TypeInv, NEW v \in Services, NEW s \in Sessions \cup {"none"}, LedgerInv(v),
           request_workspace(v, s)
    PROVE  LedgerInv(v)'
<1> DEFINE ws == [Absent EXCEPT !.state = "requested", !.session = s]
<1>1. ws.state = "requested" /\ ws # Absent
      BY DEF Absent
<1>2. /\ file = Absent /\ cache'[v] = ws /\ UNCHANGED <<ledger, tree, occupants, unreported>>
      /\ call[v] = Idle
      /\ \/ UNCHANGED <<file, call>>
         \/ /\ file' = ws /\ call'[v].op = "request_workspace"
            /\ call'[v].at = "transition"
      BY DEF request_workspace, Enter, Free, TypeInv, TypeOK
<1>3. Tells(ledger, Pair(ws)) /\ Pair(ws)[1] = "requested"
      BY <1>1, <1>2 DEF LedgerInv, Untouched, Tells, Pair
<1>4. /\ call[v].at = "idle" /\ call[v].op = "idle"
      /\ call'[v].at \in {"idle", "transition"}
      /\ call'[v].op \in {"idle", "request_workspace"}
      BY <1>2 DEF Idle
<1>5. Untouched' /\ CopyTracks(v)' /\ AppendTracks(v)' /\ LedgerTracks(v)'
      BY <1>1, <1>2, <1>3, <1>4 DEF Cached, LedgerInv, Untouched, CopyTracks, AppendTracks, LedgerTracks
<1>6. CallTracks(v)' /\ Recovering(v)'
      BY <1>4 DEF CallTracks, Recovering
<1> QED
    BY <1>5, <1>6 DEF LedgerInv

(* What _transition and its failure know when there is one service. *)
LEMMA RecoverCached ==
    ASSUME TypeInv, NEW v \in Services, call[v].op = "recover"
    PROVE  /\ Cached(v) = cache[v] /\ cache[v] # Absent /\ cache[v] \in RecordType
           /\ call[v].was \in RecordType
BY DEF TypeInv, TypeOK, Shape, Cached, CallType

LEMMA LedgerSaveFails ==
    ASSUME TypeInv, NEW v \in Services, LedgerInv(v), call[v].at = "transition", Failed(v),
           UNCHANGED cache \/ cache' = [cache EXCEPT ![v] = Cached(v)],
           UNCHANGED <<file, ledger, tree, occupants, unreported>>
    PROVE  LedgerInv(v)'
<1>1. file # Absent
      BY Transition
<1>2. cache'[v] = cache[v] \/ cache'[v] = Cached(v)
      BY DEF TypeInv, TypeOK
<1>3. Cached(v)' = Cached(v)
      BY <1>2 DEF Cached
<1>4. call'[v].at # "append" => AppendTracks(v)' /\ LedgerTracks(v)'
      BY <1>1, <1>3 DEF LedgerInv, AppendTracks, LedgerTracks
<1>5. Untouched' /\ CopyTracks(v)'
      BY <1>1, <1>2 DEF LedgerInv, Untouched, CopyTracks, Cached
<1>6. CASE call'[v] = Idle
      BY <1>5, <1>6, <1>4 DEF LedgerInv, CallTracks, Recovering, Idle
<1>7. CASE /\ call[v].op = "recover" /\ Len(call[v].plan) = 1
           /\ call'[v] = [call[v] EXCEPT !.at = "restore"]
  <2>1. /\ call'[v].at = "restore" /\ call'[v].op = "recover"
        /\ call'[v].plan = call[v].plan /\ call'[v].was = call[v].was
        /\ call'[v].session = call[v].session
        BY <1>7 DEF TypeInv, TypeOK, CallType
  <2>2. cache'[v] = cache[v]
        BY <1>2, <1>7, RecoverCached
  <2>3. call[v].plan # <<<<"active", "recovered">>, To("active")>>
        BY <1>7
  <2>4. Recovering(v)'
        BY <1>7, <2>1, <2>2, <2>3 DEF LedgerInv, Recovering
  <2> QED
      BY <1>5, <1>4, <2>1, <2>4 DEF LedgerInv, CallTracks
<1>8. CASE /\ call[v].op = "retire"
           /\ call'[v] = [call[v] EXCEPT !.at = "transition", !.plan = <<To("retired")>>]
  <2>1. call'[v].at = "transition" /\ call'[v].op = "retire"
        BY <1>8 DEF TypeInv, TypeOK, CallType
  <2> QED
      BY <1>5, <1>4, <2>1 DEF LedgerInv, CallTracks, Recovering
<1> QED
    BY <1>6, <1>7, <1>8, FailedForms

(* A recovery that is let through found an active record. *)
LEMMA RecoverPermitted ==
    ASSUME TypeInv, NEW v \in Services, LedgerInv(v), call[v].op = "recover",
           call[v].at = "transition", Permitted(Cached(v), Head(call[v].plan))
    PROVE  /\ cache[v].state = "active" /\ file.state = "active"
           /\ call[v].was.state = "active" /\ Head(call[v].plan)[1] = "active"
<1>1. cache[v] \in RecordType /\ Cached(v) = cache[v] /\ file # Absent /\ cache[v] # Absent
      /\ file \in RecordType
      BY RecoverCached, Transition, CachedType
<1>2. CASE call[v].plan = <<To("active")>>
      BY <1>2 DEF LedgerInv, Recovering, To
<1>3. CASE /\ call[v].plan = <<<<"active", "recovered">>, To("active")>>
           /\ call[v].was = file
           /\ file.rec \notin {"none"} \cup _TERMINAL_RECOVERY
  <2>1. Head(call[v].plan) = <<"active", "recovered">>
        BY <1>3
  <2>2. /\ cache[v].state = "active"
        /\ cache[v].rec \in _RECOVERY_REQUIRED_RECOVERY \cup {"recovered"}
    <3>1. CASE Pair(cache[v]) = <<"active", "recovered">>
          BY <3>1 DEF Pair
    <3>2. CASE <<Pair(cache[v]), <<"active", "recovered">>>> \in _VALID_TRANSITIONS
          BY <1>1, <3>2, TableFacts, PairType
    <3> QED
        BY <1>1, <2>1, <3>1, <3>2 DEF Permitted
  <2>3. file.state = "active"
    <3>1. CASE cache[v].state = file.state
          BY <2>2, <3>1
    <3>2. CASE <<Pair(cache[v]), Pair(file)>> \in _VALID_TRANSITIONS
          BY <1>1, <1>3, <2>2, <3>2, TableFacts, PairType
    <3> QED
        BY <1>1, <3>1, <3>2 DEF LedgerInv, CopyTracks
  <2> QED
      BY <1>3, <2>1, <2>2, <2>3
<1> QED
    BY <1>2, <1>3 DEF LedgerInv, Recovering

LEMMA LedgerSaved ==
    ASSUME TypeInv, NEW v \in Services, LedgerInv(v), call[v].at = "transition",
           Permitted(Cached(v), Head(call[v].plan)),
           call' = [call EXCEPT ![v].at = "append", ![v].before = Pair(Cached(v))],
           IF Head(call[v].plan) = Pair(Cached(v))
             THEN UNCHANGED <<file, cache>>
             ELSE SaveBoth(v, WithPair(Cached(v), Head(call[v].plan))),
           UNCHANGED <<ledger, tree, occupants, unreported>>
    PROVE  LedgerInv(v)'
<1> DEFINE ws == Cached(v)
           target == Head(call[v].plan)
           moved == WithPair(ws, target)
<1>1. /\ file # Absent /\ file \in RecordType /\ ws \in RecordType /\ target \in Targets
      /\ moved \in RecordType
      BY Transition, CachedType
<1>2. /\ call'[v].at = "append" /\ call'[v].before = Pair(ws)
      /\ call'[v].op = call[v].op /\ call'[v].plan = call[v].plan
      /\ call'[v].was = call[v].was /\ call'[v].session = call[v].session
      BY DEF TypeInv, TypeOK, CallType
<1>3. /\ Pair(moved) = target /\ moved.session = ws.session /\ moved.state = target[1]
      /\ moved # Absent /\ Pair(ws)[1] = ws.state
      BY <1>1, WithPairType, AbsentFacts, PairType
<1>4. \/ target = Pair(ws) /\ UNCHANGED <<file, cache>>
      \/ /\ <<Pair(ws), target>> \in _VALID_TRANSITIONS
         /\ target # Pair(ws) /\ file' = moved /\ cache'[v] = moved
      BY DEF Permitted, SaveBoth, TypeInv, TypeOK
<1>5. Untouched' /\ CopyTracks(v)' /\ LedgerTracks(v)'
      BY <1>1, <1>2, <1>3, <1>4 DEF LedgerInv, Untouched, CopyTracks, LedgerTracks
<1>6. AppendTracks(v)'
  <2>1. ~unreported => Tells(ledger, Pair(ws)) /\ Tells(ledger, Pair(file))
        BY <1>1 DEF LedgerInv, LedgerTracks
  <2>2. CASE target = Pair(ws) /\ UNCHANGED <<file, cache>>
        BY <1>2, <2>1, <2>2 DEF AppendTracks, Changed, Cached
  <2>3. CASE /\ <<Pair(ws), target>> \in _VALID_TRANSITIONS
             /\ target # Pair(ws) /\ file' = moved /\ cache'[v] = moved
    <3>1. Cached(v)' = moved
          BY <1>3, <2>3 DEF Cached
    <3> QED
        BY <1>2, <1>3, <2>1, <2>3, <3>1 DEF AppendTracks, Changed
  <2> QED
      BY <1>4, <2>2, <2>3
<1>7. CallTracks(v)'
  <2>1. ASSUME call[v].op = "assign_session" PROVE file'.state = "active"
    <3>1. target = To("active") /\ target[1] = "active" /\ file.state = "ready"
          BY <2>1 DEF LedgerInv, CallTracks, To
    <3>2. CASE target = Pair(ws)
      <4>1. ws.state = "active" /\ ws # file /\ cache[v] # Absent /\ ws = cache[v]
            BY <1>3, <3>1, <3>2 DEF Cached
      <4>2. <<Pair(ws), Pair(file)>> \in _VALID_TRANSITIONS
            BY <1>1, <3>1, <4>1 DEF LedgerInv, CopyTracks
      <4>3. Pair(ws)[1] \notin PreActive /\ Pair(file)[1] \in PreActive
            BY <1>1, <3>1, <4>1, PairType DEF PreActive
      <4> QED
          BY <4>2, <4>3, TableFacts
    <3>3. CASE file' = moved
          BY <1>3, <3>1, <3>3
    <3> QED
        BY <1>4, <3>2, <3>3
  <2> QED
      BY <1>2, <2>1 DEF LedgerInv, CallTracks
<1>8. Recovering(v)'
  <2> SUFFICES ASSUME call[v].op = "recover" PROVE Recovering(v)'
      BY <1>2 DEF Recovering
  <2>1. /\ cache[v].state = "active" /\ file.state = "active"
        /\ call[v].was.state = "active" /\ target[1] = "active"
        BY RecoverPermitted
  <2>2. ws = cache[v]
        BY RecoverCached
  <2>3. /\ cache'[v].state = "active" /\ file'.state = "active"
        /\ cache'[v].session = cache[v].session
        BY <1>3, <1>4, <2>1, <2>2
  <2>4. call[v].plan = <<To("active")>> => Pair(ws) = <<"active", "recovered">>
        BY <2>2 DEF LedgerInv, Recovering
  <2>5. Pair(ws)[1] = "active"
        BY <1>3, <2>1, <2>2
  <2> QED
      BY <1>2, <2>1, <2>3, <2>4, <2>5 DEF LedgerInv, Recovering
<1> QED
    BY <1>5, <1>6, <1>7, <1>8 DEF LedgerInv

LEMMA LedgerSave ==
    ASSUME TypeInv, NEW v \in Services, LedgerInv(v), transition_save(v)
    PROVE  LedgerInv(v)'
BY LedgerSaved, LedgerSaveFails DEF transition_save

LEMMA AssignOnce ==
    ASSUME NEW v \in Services, LedgerInv(v), call[v].at = "append",
           call[v].op = "assign_session"
    PROVE  ~(Len(call[v].plan) > 1)
<1>1. call[v].plan = <<To("active")>>
      BY DEF LedgerInv, CallTracks
<1> QED
    BY <1>1 DEF To

LEMMA LedgerReported ==
    ASSUME TypeInv, NEW v \in Services, LedgerInv(v), call[v].at = "append",
           ledger' = Written(Head(call[v].plan), "none"),
           unreported' = (unreported /\ Cached(v).state # file.state),
           \/ /\ Len(call[v].plan) > 1
              /\ call' = [call EXCEPT ![v].at = "transition", ![v].plan = Tail(@)]
           \/ Len(call[v].plan) = 1 /\ Completed(v),
           UNCHANGED <<file, cache>>
    PROVE  LedgerInv(v)'
<1>1. /\ file # Absent /\ file \in RecordType /\ Cached(v) \in RecordType
      BY Transition, CachedType
<1>2. Untouched' /\ CopyTracks(v)'
      BY <1>1 DEF LedgerInv, Untouched, CopyTracks, Cached
<1>3. /\ ledger'.slip = "lost" \/ ledger'.last = Pair(Cached(v))
      /\ ~unreported' => Tells(ledger', Pair(file')) /\ Tells(ledger', Pair(Cached(v)))
  <2>1. ledger \in LedgerType /\ Head(call[v].plan) \in Pairs
        BY <1>1, Transition, TargetFacts DEF TypeInv, TypeOK
  <2>2. Head(call[v].plan) = Pair(Cached(v)) /\ Pair(Cached(v))[1] = Cached(v).state
        BY <1>1, PairType DEF LedgerInv, AppendTracks
  <2>3. ledger'.slip = "lost" \/ ledger'.last = Pair(Cached(v))
        BY <2>1, <2>2, LedgerForms
  <2>4. ~unreported => Cached(v).state = file.state
        BY <1>1 DEF LedgerInv, CopyTracks, Cached
  <2>5. Pair(file)[1] = file.state
        BY <1>1, PairType
  <2> QED
      BY <2>2, <2>3, <2>4, <2>5 DEF Tells
<1>6. Cached(v)' = Cached(v)
      BY DEF Cached
<1>4. CASE /\ Len(call[v].plan) > 1
           /\ call' = [call EXCEPT ![v].at = "transition", ![v].plan = Tail(@)]
  <2>1. /\ call'[v].at = "transition" /\ call'[v].plan = Tail(call[v].plan)
        /\ call'[v].op = call[v].op /\ call'[v].was = call[v].was
        /\ call'[v].session = call[v].session
        BY <1>4 DEF TypeInv, TypeOK, CallType
  <2>2. AppendTracks(v)' /\ LedgerTracks(v)'
        BY <1>3, <1>6, <2>1 DEF AppendTracks, LedgerTracks
  <2>3. call[v].op # "assign_session"
        BY <1>4, AssignOnce
  <2>4. ASSUME call[v].op = "recover" PROVE Recovering(v)'
    <3>1. call[v].plan = <<<<"active", "recovered">>, To("active")>>
          BY <1>4, <2>4 DEF LedgerInv, Recovering
    <3>2. Pair(cache[v]) = <<"active", "recovered">> /\ cache[v] \in RecordType
          BY <2>4, <3>1, RecoverCached DEF LedgerInv, AppendTracks
    <3>3. cache[v].state = "active"
          BY <3>2 DEF Pair
    <3>4. call'[v].plan = <<To("active")>>
          BY <2>1, <3>1
    <3> QED
        BY <1>3, <2>1, <2>4, <3>1, <3>2, <3>3, <3>4, RecoverCached DEF LedgerInv, Recovering
  <2>5. Recovering(v)'
        BY <2>1, <2>4 DEF Recovering
  <2> QED
      BY <1>2, <2>1, <2>2, <2>3, <2>5 DEF LedgerInv, CallTracks
<1>5. CASE Completed(v)
  <2>1. \/ call'[v] = Idle
        \/ /\ call[v].op \in {"assign_session", "release_assignment"}
           /\ call'[v].op = call[v].op /\ call'[v].at = "final"
        \/ /\ call'[v].op = "quarantine_workspace" /\ call'[v].at = "lock"
    <3>1. call[v] \in CallType
          BY DEF TypeInv, TypeOK
    <3>2. \A at \in {"final", "lock"} : /\ [call[v] EXCEPT !.at = at].op = call[v].op
                                       /\ [call[v] EXCEPT !.at = at].at = at
          BY <3>1 DEF CallType
    <3> QED
        BY <1>5, <3>2, CompletedForms
  <2>2. AppendTracks(v)' /\ LedgerTracks(v)' /\ Recovering(v)'
        BY <1>3, <1>6, <2>1 DEF AppendTracks, LedgerTracks, Recovering, Idle
  <2>3. CallTracks(v)'
        BY <2>1 DEF LedgerInv, CallTracks, Idle
  <2> QED
      BY <1>2, <2>2, <2>3 DEF LedgerInv
<1> QED
    BY <1>4, <1>5

LEMMA LedgerUnreported ==
    ASSUME TypeInv, NEW v \in Services, LedgerInv(v), call[v].at = "append", Failed(v),
           \/ ~Changed(v) /\ UNCHANGED <<file, cache, unreported>>
           \/ /\ Changed(v) /\ SaveBoth(v, WithPair(Cached(v), call[v].before))
              /\ UNCHANGED unreported
           \/ /\ Changed(v) /\ unreported' = TRUE /\ UNCHANGED file
              /\ cache' = [cache EXCEPT ![v] = WithPair(Cached(v), call[v].before)],
           ledger' \in AfterFailure(Head(call[v].plan))
    PROVE  LedgerInv(v)'
<1> DEFINE ws == Cached(v)
           old == WithPair(ws, call[v].before)
<1>1. /\ file # Absent /\ file \in RecordType /\ ws \in RecordType /\ old \in RecordType
      /\ call[v].before \in Targets
      BY Transition, CachedType DEF TypeInv, Shape
<1>2. /\ Pair(old) = call[v].before /\ old.session = ws.session
      /\ old.state = call[v].before[1] /\ old # Absent
      BY <1>1, WithPairType, AbsentFacts
<1>3. /\ Head(call[v].plan) = Pair(ws) /\ Pair(ws)[1] = ws.state
      /\ ~unreported => /\ Tells(ledger, call[v].before)
                        /\ ~Changed(v) => Tells(ledger, Pair(file))
      BY <1>1, PairType DEF LedgerInv, AppendTracks
<1>4. \/ ~Changed(v) /\ UNCHANGED <<file, cache, unreported>>
      \/ Changed(v) /\ file' = old /\ cache'[v] = old /\ UNCHANGED unreported
      \/ Changed(v) /\ unreported' = TRUE /\ UNCHANGED file /\ cache'[v] = old
      BY DEF SaveBoth, TypeInv, TypeOK
<1>5. Changed(v) => /\ ws = file /\ cache[v] = file
                    /\ <<call[v].before, Pair(file)>> \in _VALID_TRANSITIONS
      BY <1>1, <1>3 DEF LedgerInv, AppendTracks, Cached
<1>6. file' # Absent
      BY <1>1, <1>2, <1>4
<1>7. Untouched' /\ CopyTracks(v)'
      BY <1>2, <1>4, <1>5, <1>6 DEF LedgerInv, Untouched, CopyTracks
<1>8. ~unreported' => Tells(ledger', Pair(file')) /\ Tells(ledger', Pair(Cached(v)'))
  <2>1. ledger \in LedgerType /\ Head(call[v].plan) \in Pairs
        BY Transition, TargetFacts DEF TypeInv, TypeOK
  <2>2. \/ ledger'.slip = "lost"
        \/ ledger'.last = ledger.last /\ ledger'.slip = ledger.slip
        \/ ledger'.last = Pair(ws) /\ ledger'.slip = "kept"
        BY <1>3, <2>1, LedgerForms
  <2>3. CASE ~Changed(v) /\ UNCHANGED <<file, cache, unreported>>
    <3>1. ~unreported => ws.state = file.state
          BY <1>1 DEF LedgerInv, CopyTracks, Cached
    <3>2. Cached(v)' = ws /\ Pair(file)[1] = file.state /\ call[v].before = Pair(ws)
          BY <1>1, <1>3, <2>3, PairType DEF Cached, Changed
    <3> QED
        BY <1>3, <2>2, <2>3, <3>1, <3>2 DEF Tells
  <2>4. CASE Changed(v) /\ file' = old /\ cache'[v] = old /\ UNCHANGED unreported
    <3>1. Cached(v)' = old /\ <<call[v].before, Pair(ws)>> \in _VALID_TRANSITIONS
          BY <1>2, <1>5, <2>4 DEF Cached
    <3> QED
        BY <1>2, <1>3, <2>2, <2>4, <3>1 DEF Tells
  <2> QED
      BY <1>4, <2>3, <2>4
<1>9. CASE call'[v] = Idle
      BY <1>7, <1>8, <1>9 DEF LedgerInv, AppendTracks, LedgerTracks, CallTracks, Recovering,
                         Idle
<1>10. CASE /\ call[v].op = "recover" /\ Len(call[v].plan) = 1
            /\ call'[v] = [call[v] EXCEPT !.at = "restore"]
  <2>1. /\ call'[v].at = "restore" /\ call'[v].op = "recover"
        /\ call'[v].plan = call[v].plan /\ call'[v].was = call[v].was
        /\ call'[v].session = call[v].session
        BY <1>10 DEF TypeInv, TypeOK, CallType
  <2>2. /\ call[v].plan = <<To("active")>> /\ call[v].before = <<"active", "recovered">>
        /\ cache[v].session = call[v].session /\ cache[v].state = "active"
        /\ file.state = "active" /\ call[v].was.state = "active"
        /\ ledger.slip = "lost" \/ ledger.last[1] = "active"
        BY <1>10 DEF LedgerInv, Recovering
  <2>3. ws = cache[v]
        BY <1>10, RecoverCached
  <2>4. /\ file'.state = "active" /\ cache'[v].state = "active"
        /\ cache'[v].session = call[v].session
        BY <1>2, <1>4, <2>2, <2>3
  <2>5. ledger'.slip = "lost" \/ ledger'.last[1] = "active"
    <3>1. ledger \in LedgerType /\ To("active") \in Pairs /\ Head(call[v].plan) = To("active")
          BY <2>2, TargetFacts DEF TypeInv, TypeOK, States
    <3>2. \/ ledger'.slip = "lost"
          \/ ledger'.last = ledger.last /\ ledger'.slip = ledger.slip
          \/ ledger'.last = To("active")
          BY <3>1, LedgerForms
    <3>3. AfterFailure(Head(call[v].plan)) = AfterFailure(To("active"))
          BY <3>1
    <3>4. ledger.slip = "lost" => ledger'.slip = "lost" \/ ledger'.last = To("active")
          BY <3>2
    <3> QED
        BY <2>2, <3>2, <3>4 DEF To
  <2>6. Recovering(v)'
        BY <2>1, <2>2, <2>4, <2>5 DEF Recovering
  <2> QED
      BY <1>7, <1>8, <2>1, <2>6 DEF LedgerInv, AppendTracks, LedgerTracks, CallTracks
<1>11. CASE /\ call[v].op = "retire"
            /\ call'[v] = [call[v] EXCEPT !.at = "transition", !.plan = <<To("retired")>>]
  <2>1. call'[v].at = "transition" /\ call'[v].op = "retire"
        BY <1>11 DEF TypeInv, TypeOK, CallType
  <2> QED
      BY <1>7, <1>8, <2>1 DEF LedgerInv, AppendTracks, LedgerTracks, CallTracks, Recovering
<1> QED
    BY <1>9, <1>10, <1>11, FailedForms

LEMMA LedgerAppend ==
    ASSUME TypeInv, NEW v \in Services, LedgerInv(v), transition_append(v)
    PROVE  LedgerInv(v)'
<1>1. CASE /\ ledger' = Written(Head(call[v].plan), "none")
           /\ unreported' = (unreported /\ Cached(v).state # file.state)
           /\ \/ /\ Len(call[v].plan) > 1
                 /\ call' = [call EXCEPT ![v].at = "transition", ![v].plan = Tail(@)]
              \/ Len(call[v].plan) = 1 /\ Completed(v)
           /\ UNCHANGED <<file, cache>>
      BY <1>1, LedgerReported DEF transition_append
<1>2. CASE /\ Failed(v) /\ ledger' \in AfterFailure(Head(call[v].plan))
           /\ \/ ~Changed(v) /\ UNCHANGED <<file, cache, unreported>>
              \/ /\ Changed(v) /\ SaveBoth(v, WithPair(Cached(v), call[v].before))
                 /\ UNCHANGED unreported
              \/ /\ Changed(v) /\ unreported' = TRUE /\ UNCHANGED file
                 /\ cache' = [cache EXCEPT ![v] = WithPair(Cached(v), call[v].before)]
      BY <1>2, LedgerUnreported DEF transition_append
<1> QED
    BY <1>1, <1>2 DEF transition_append

(* A step that ends the call, or goes on to one transition. *)
LEMMA FollowForm ==
    ASSUME TypeInv, NEW v \in Services, NEW a, Follow(v, a)
    PROVE  /\ call'[v].at = "transition" /\ call'[v].plan = <<a>>
           /\ call'[v].op = call[v].op /\ call'[v].was = call[v].was
BY DEF Follow, TypeInv, TypeOK, CallType

LEMMA GotoForm ==
    ASSUME TypeInv, NEW v \in Services, NEW at, Goto(v, at)
    PROVE  /\ call'[v].at = at /\ call'[v].plan = call[v].plan
           /\ call'[v].op = call[v].op /\ call'[v].was = call[v].was
BY DEF Goto, TypeInv, TypeOK, CallType

LEMMA ReturnForm ==
    ASSUME TypeInv, NEW v \in Services, Return(v)
    PROVE  /\ call'[v] = Idle /\ call'[v].at = "idle" /\ call'[v].op = "idle"
BY DEF Return, TypeInv, TypeOK, Idle

(* Where a step leaves the call of a recovery, or of an assignment. *)
LEMMA Elsewhere ==
    ASSUME NEW v \in Services, LedgerInv(v),
           call[v].at \notin {"idle", "transition", "append", "restore", "final"}
    PROVE  call[v].op \notin {"recover", "assign_session"}
BY DEF LedgerInv, Recovering, CallTracks

(* When nothing is reported and the copy follows the record, the ledger part *)
(* is kept by a step that leaves a call of the plain kind.                   *)
LEMMA LedgerPlain ==
    ASSUME TypeInv, NEW v \in Services, LedgerInv(v), call[v].at # "append",
           call'[v].at \in {"idle", "transition", "check", "lock", "added", "remove", "clear"},
           call'[v].at \in {"added", "remove", "clear"} => call'[v].was = file',
           call'[v].op \notin {"recover", "assign_session"},
           file # Absent, file' # Absent, file'.state = file.state,
           \/ cache'[v] = cache[v] /\ Pair(file') = Pair(file)
           \/ cache'[v].state = file'.state,
           UNCHANGED unreported,
           \/ /\ ledger'.last = ledger.last /\ ledger'.slip = ledger.slip
              /\ Pair(file') = Pair(file)
              /\ Pair(Cached(v)') \in {Pair(Cached(v)), Pair(file)}
           \/ ledger'.slip = "lost"
           \/ ledger'.last[1] = file.state
    PROVE  LedgerInv(v)'
<1>1. CopyTracks(v)'
      BY DEF LedgerInv, CopyTracks
<1>2. LedgerTracks(v)'
  <2> SUFFICES ASSUME ~unreported
               PROVE  Tells(ledger', Pair(file')) /\ Tells(ledger', Pair(Cached(v)'))
      BY DEF LedgerTracks
  <2>1. Tells(ledger, Pair(file)) /\ Tells(ledger, Pair(Cached(v)))
        BY DEF LedgerInv, LedgerTracks
  <2>2. Cached(v)'.state = file'.state
        BY <1>1 DEF CopyTracks, Cached
  <2> QED
      BY <2>1, <2>2 DEF Tells, Pair
<1> QED
    BY <1>1, <1>2 DEF LedgerInv, Untouched, AppendTracks, CallTracks, Recovering

LEMMA LedgerRemoval ==
    ASSUME TypeInv, NEW v \in Services, LedgerInv(v),
           \/ record_worktree(v) \/ check_removal(v) \/ try_git_worktree_remove(v)
           \/ clear_worktree_path(v) \/ lock_worktree(v)
    PROVE  LedgerInv(v)'
<1>1. /\ call[v].at \in {"added", "check", "remove", "clear", "lock"}
      /\ UNCHANGED <<ledger, unreported>>
      BY DEF record_worktree, check_removal, try_git_worktree_remove, clear_worktree_path,
             lock_worktree
<1>2. file # Absent /\ file \in RecordType /\ call[v].op \notin {"recover", "assign_session"}
      BY <1>1, CachedType, Elsewhere DEF TypeInv, Shape
<1>3. call[v].at \in {"added", "remove", "clear"} => call[v].was = file
      BY DEF LedgerInv, CallTracks
<1>4. ASSUME NEW b \in BOOLEAN
      PROVE  /\ [file EXCEPT !.path = b] # Absent
             /\ [file EXCEPT !.path = b].state = file.state
             /\ Pair([file EXCEPT !.path = b]) = Pair(file)
      BY <1>2, AbsentFacts DEF RecordType, Pair
<1>5. CASE record_worktree(v)
  <2>1. /\ cache'[v] = [file EXCEPT !.path = TRUE]
        /\ UNCHANGED file \/ file' = [file EXCEPT !.path = TRUE]
        BY <1>1, <1>3, <1>5 DEF record_worktree, TypeInv, TypeOK
  <2>2. /\ call'[v].at \in {"idle", "transition"}
        /\ call'[v].op \notin {"recover", "assign_session"}
        BY <1>2, <1>5, FollowForm, ReturnForm DEF record_worktree
  <2>3. /\ file' # Absent /\ file'.state = file.state /\ cache'[v].state = file'.state
        BY <1>2, <1>4, <2>1
  <2> QED
      BY <1>1, <1>2, <1>4, <2>1, <2>2, <2>3, LedgerPlain DEF Cached
<1>6. CASE check_removal(v)
  <2>1. /\ call'[v].at \in {"remove", "transition"} /\ call'[v].op = call[v].op
        /\ call'[v].at = "remove" => call'[v].was = file
    <3>1. CASE Follow(v, RemovalRefused)
          BY <3>1, FollowForm
    <3>2. CASE call' = [call EXCEPT ![v].at = "remove", ![v].was = file]
          BY <3>2 DEF TypeInv, TypeOK, CallType
    <3> QED
        BY <1>6, <3>1, <3>2 DEF check_removal
  <2>2. UNCHANGED <<file, cache>>
        BY <1>6 DEF check_removal
  <2> QED
      BY <1>1, <1>2, <2>1, <2>2, LedgerPlain DEF Cached
<1>7. CASE try_git_worktree_remove(v)
  <2>1. /\ call'[v].at \in {"clear", "transition"} /\ call'[v].op = call[v].op
        /\ call'[v].was = call[v].was
        BY <1>7, FollowForm, GotoForm DEF try_git_worktree_remove
  <2>2. UNCHANGED <<file, cache>> /\ call[v].was = file
        BY <1>3, <1>7 DEF try_git_worktree_remove
  <2> QED
      BY <1>1, <1>2, <2>1, <2>2, LedgerPlain DEF Cached
<1>8. CASE clear_worktree_path(v)
  <2>1. /\ UNCHANGED cache
        /\ UNCHANGED file \/ file' = [file EXCEPT !.path = FALSE]
        BY <1>1, <1>3, <1>8 DEF clear_worktree_path
  <2>2. /\ call'[v].at \in {"idle", "transition"}
        /\ call'[v].op \notin {"recover", "assign_session"}
        BY <1>2, <1>8, FollowForm, ReturnForm DEF clear_worktree_path
  <2>3. /\ file' # Absent /\ file'.state = file.state /\ Pair(file') = Pair(file)
        BY <1>2, <1>4, <2>1
  <2> QED
      BY <1>1, <1>2, <2>1, <2>2, <2>3, LedgerPlain DEF Cached
<1>9. CASE lock_worktree(v)
  <2>1. call'[v].at = "idle" /\ call'[v].op = "idle" /\ UNCHANGED <<file, cache>>
        BY <1>9, ReturnForm DEF lock_worktree
  <2> QED
      BY <1>1, <1>2, <2>1, LedgerPlain DEF Cached
<1> QED
    BY <1>5, <1>6, <1>7, <1>8, <1>9

LEMMA LedgerSession ==
    ASSUME TypeInv, NEW v \in Services, LedgerInv(v), write_session(v) \/ record_detached(v)
    PROVE  LedgerInv(v)'
<1>1. call[v].at \in {"final", "detached"} /\ UNCHANGED unreported /\ Return(v)
      BY DEF write_session, record_detached
<1>2. file # Absent /\ file \in RecordType
      BY <1>1, CachedType DEF TypeInv, Shape
<1>3. call'[v].at = "idle" /\ call'[v].op = "idle"
      BY <1>1, ReturnForm
<1>4. CASE write_session(v)
  <2> DEFINE ws == [file EXCEPT !.session = call[v].session]
  <2>1. /\ ws \in RecordType /\ ws.state = file.state /\ ws # Absent
        /\ Pair(ws) = Pair(file)
        BY <1>2, AbsentFacts DEF RecordType, TypeInv, TypeOK, CallType, Pair
  <2>2. \/ file' = ws /\ cache'[v] = ws
        \/ UNCHANGED <<file, cache>>
        BY <1>4 DEF write_session, SaveBoth, TypeInv, TypeOK
  <2>3. UNCHANGED ledger
        BY <1>4 DEF write_session
  <2> QED
      BY <1>1, <1>2, <1>3, <2>1, <2>2, <2>3, LedgerPlain DEF Cached
<1>5. CASE record_detached(v)
  <2>1. UNCHANGED <<file, cache>> /\ file.state = "active"
        BY <1>5 DEF record_detached, LedgerInv, CallTracks
  <2>2. ledger \in LedgerType /\ To("active") \in Pairs
        BY TargetFacts DEF TypeInv, TypeOK, States
  <2>3. \/ ledger'.slip = "lost"
        \/ ledger'.last = ledger.last /\ ledger'.slip = ledger.slip
        \/ ledger'.last[1] = "active"
        BY <1>5, <2>2, LedgerForms DEF record_detached, To
  <2> QED
      BY <1>1, <1>2, <1>3, <2>1, <2>3, LedgerPlain DEF Cached
<1> QED
    BY <1>4, <1>5

LEMMA LedgerRestore ==
    ASSUME TypeInv, NEW v \in Services, LedgerInv(v), recover_restore(v)
    PROVE  LedgerInv(v)'
<1>1. call[v].at = "restore" /\ call[v].op = "recover" /\ UNCHANGED <<ledger, unreported>>
      BY DEF recover_restore, TypeInv, Shape
<1>2. /\ file # Absent /\ file \in RecordType /\ call[v].was \in RecordType
      /\ cache[v] \in RecordType /\ cache[v] # Absent
      BY <1>1, CachedType, RecoverCached DEF TypeInv, Shape
<1>3. /\ file.state = "active" /\ call[v].was.state = "active" /\ cache[v].state = "active"
      /\ ledger.slip = "lost" \/ ledger.last[1] = "active"
      BY <1>1 DEF LedgerInv, Recovering
<1>4. cache'[v].state = "active"
      BY <1>2, <1>3 DEF recover_restore, TypeInv, TypeOK, RecordType
<1>5. file' = file \/ file' = call[v].was
      BY DEF recover_restore
<1>6. file' # Absent /\ file'.state = "active"
      BY <1>2, <1>3, <1>5, AbsentFacts
<1>7. \/ call'[v].at = "idle" /\ call'[v].op = "idle"
      \/ call'[v].at = "transition" /\ call'[v].op = "mark"
  <2>1. CASE Return(v)
        BY <2>1, ReturnForm
  <2>2. CASE call' = [call EXCEPT ![v].op = "mark", ![v].at = "transition",
                                  ![v].plan = <<<<"active", "recovery_required">>>>]
        BY <2>2 DEF TypeInv, TypeOK, CallType
  <2> QED
      BY <2>1, <2>2 DEF recover_restore
<1> QED
    BY <1>1, <1>2, <1>3, <1>4, <1>6, <1>7, LedgerPlain

LEMMA LedgerLoad ==
    ASSUME TypeInv, NEW v \in Services, LedgerInv(v), _load_all(v)
    PROVE  LedgerInv(v)'
<1>1. /\ cache'[v] = file /\ call'[v] = Idle /\ call[v].at = "idle"
      /\ call'[v].at = "idle" /\ call'[v].op = "idle"
      /\ UNCHANGED <<file, ledger, tree, occupants, unreported>>
      BY DEF _load_all, Free, Idle, TypeInv, TypeOK
<1> QED
    BY <1>1 DEF LedgerInv, Untouched, CopyTracks, AppendTracks, LedgerTracks, CallTracks,
                Recovering, Cached

LEMMA LedgerCrash ==
    ASSUME TypeInv, NEW v \in Services, LedgerInv(v), crash(v)
    PROVE  LedgerInv(v)'
<1>1. call[v].at # "idle"
      BY DEF crash, Free, TypeInv, Shape
<1>2. file # Absent /\ file \in RecordType
      BY <1>1, CachedType DEF TypeInv, Shape
<1>3. /\ cache'[v] = file /\ UNCHANGED file /\ Cached(v)' = file
      /\ unreported' = (unreported \/ (call[v].at = "append" /\ Changed(v)))
      /\ call'[v].at = "idle" /\ call'[v].op = "idle"
      BY ReturnForm DEF crash, TypeInv, TypeOK, Cached
<1>4. ASSUME ~unreported' PROVE Tells(ledger', Pair(file))
  <2>1. CASE UNCHANGED ledger
        BY <1>2, <1>3, <1>4, <2>1 DEF LedgerInv, AppendTracks, LedgerTracks
  <2>2. CASE call[v].at = "append" /\ ledger' \in AfterFailure(Head(call[v].plan))
    <3>1. ~Changed(v) /\ ~unreported
          BY <1>3, <1>4, <2>2
    <3>2. /\ Tells(ledger, Pair(file)) /\ Head(call[v].plan) = Pair(Cached(v))
          BY <2>2, <3>1 DEF LedgerInv, AppendTracks
    <3>3. Cached(v).state = file.state
          BY <1>2, <3>1 DEF LedgerInv, CopyTracks, Cached
    <3>4. ledger \in LedgerType /\ Head(call[v].plan) \in Pairs
          BY <2>2, Transition, TargetFacts DEF TypeInv, TypeOK
    <3>5. \/ ledger'.slip = "lost"
          \/ ledger'.last = ledger.last /\ ledger'.slip = ledger.slip
          \/ ledger'.last = Pair(Cached(v))
          BY <2>2, <3>2, <3>4, LedgerForms
    <3> QED
        BY <3>2, <3>3, <3>5 DEF Tells, Pair
  <2>3. CASE call[v].at = "detached" /\ ledger' \in AfterFailure(To("active"))
    <3>1. Tells(ledger, Pair(file)) /\ file.state = "active"
          BY <1>2, <1>3, <1>4, <2>3 DEF LedgerInv, LedgerTracks, CallTracks
    <3>2. ledger \in LedgerType /\ To("active") \in Pairs
          BY TargetFacts DEF TypeInv, TypeOK, States
    <3>3. \/ ledger'.slip = "lost"
          \/ ledger'.last = ledger.last /\ ledger'.slip = ledger.slip
          \/ ledger'.last = To("active")
          BY <2>3, <3>2, LedgerForms
    <3> QED
        BY <3>1, <3>3 DEF Tells, Pair, To
  <2> QED
      BY <2>1, <2>2, <2>3, DeathForms
<1> QED
    BY <1>2, <1>3, <1>4 DEF LedgerInv, Untouched, CopyTracks, AppendTracks, LedgerTracks,
                       CallTracks, Recovering

(* Appends for other workspaces. *)
LEMMA LedgerElsewhere ==
    ASSUME TypeInv, NEW v \in Services, LedgerInv(v), append_elsewhere
    PROVE  LedgerInv(v)'
<1>1. /\ UNCHANGED <<file, cache, tree, call, occupants, unreported>>
      /\ \/ ledger'.slip = "lost"
         \/ ledger'.slip = ledger.slip /\ ledger'.last = ledger.last
      BY TypeElsewhere DEF append_elsewhere
<1>2. \A pair : Tells(ledger, pair) => Tells(ledger', pair)
      BY <1>1 DEF Tells
<1>3. ledger.slip = "lost" => ledger'.slip = "lost"
      BY <1>1
<1>4. Cached(v)' = Cached(v) /\ Changed(v)' = Changed(v)
      BY <1>1 DEF Cached, Changed
<1>5. AppendTracks(v)' /\ LedgerTracks(v)'
      BY <1>1, <1>2, <1>4 DEF LedgerInv, AppendTracks, LedgerTracks
<1> QED
    BY <1>1, <1>3, <1>5 DEF LedgerInv, Untouched, CopyTracks, CallTracks, Recovering

LEMMA LedgerKept ==
    ASSUME NEW v, Services = {v}, TypeInv, LedgerInv(v), [Next]_vars
    PROVE  LedgerInv(v)'
<1>1. CASE Work
      BY <1>1 DEF Work, Exists, LedgerInv, Untouched, CopyTracks, AppendTracks, LedgerTracks,
                  CallTracks, Recovering, Changed, Cached
<1>2. CASE UNCHANGED vars
      BY <1>2 DEF vars, LedgerInv, Untouched, CopyTracks, AppendTracks, LedgerTracks,
                  CallTracks, Recovering, Changed, Cached
<1>3. CASE Begin(v)
      BY <1>3, BeginForms, LedgerQuiet, LedgerCreate, LedgerDetach, LedgerActivate,
         LedgerAssign, LedgerRecover, LedgerRequest
<1>4. CASE Proceed(v)
      BY <1>4, LedgerSave, LedgerAppend, LedgerRemoval, LedgerSession, LedgerRestore
         DEF Proceed
<1>5. CASE _load_all(v) \/ crash(v)
      BY <1>5, LedgerLoad, LedgerCrash
<1>6. CASE append_elsewhere
      BY <1>6, LedgerElsewhere
<1> QED
    BY <1>1, <1>2, <1>3, <1>4, <1>5, <1>6 DEF Next

LEMMA LedgerInit ==
    ASSUME NEW v \in Services, Init
    PROVE  LedgerInv(v)
BY DEF Init, Idle, LedgerInv, Untouched, CopyTracks, AppendTracks, LedgerTracks, CallTracks,
       Recovering

LEMMA LedgerImplies ==
    ASSUME NEW v, Services = {v}, LedgerInv(v)
    PROVE  LedgerAgrees
BY DEF LedgerInv, LedgerTracks, LedgerAgrees, Free, Idle

(* With one service the ledger's last event tells the record's state between *)
(* calls, whatever fails or dies, wherever an append stops and whatever      *)
(* others leave at the ledger's end, until a change that could be neither    *)
(* reported nor rolled back, or an event lost in a damaged line.             *)
THEOREM LedgerAgreement == OneService => (Spec => []LedgerAgrees)
<1> SUFFICES ASSUME OneService PROVE Spec => []LedgerAgrees
    OBVIOUS
<1>1. PICK v : Services = {v}
      BY DEF OneService
<1>2. Init => TypeInv /\ LedgerInv(v)
      BY <1>1, TypeInit, LedgerInit
<1>3. TypeInv /\ LedgerInv(v) /\ [Next]_vars => TypeInv' /\ LedgerInv(v)'
      BY <1>1, TypeKept, LedgerKept
<1>4. TypeInv /\ LedgerInv(v) => LedgerAgrees
      BY <1>1, LedgerImplies
<1> QED
    BY <1>2, <1>3, <1>4, PTL DEF Spec

-----------------------------------------------------------------------------
(* The worktree. *)

Named(ws) == ws.path \/ ws.state \in Unnamed

(* No call goes back to the states before the worktree, and the one that     *)
(* goes on to it has put the path into the copy in memory.                   *)
PlanLate(v) ==
    /\ call[v].at \in {"transition", "append"} =>
          /\ call[v].op # "request_workspace" => Head(call[v].plan)[1] # "requested"
          /\ Len(call[v].plan) > 1 => Late(Head(Tail(call[v].plan)))
    /\ call[v].at = "transition" /\ Head(call[v].plan) = To("worktree_created") =>
          cache[v] # Absent /\ cache[v].path

(* Every record that may be saved names the worktree, or is in a state in    *)
(* which it need not.                                                        *)
TreeNamed(v) ==
    /\ Named(file) /\ (file.state = "requested" => unreported)
    /\ cache[v] # Absent => Named(cache[v])
    /\ call[v].op = "recover" => Named(call[v].was)
    /\ call[v].at = "append" =>
          /\ Cached(v).path \/ call[v].before[1] \in Unnamed
          /\ call[v].before[1] = "requested" => unreported
    /\ call[v].at # "clear" /\ call[v].op # "request_workspace"

TreeInv(v) == PlanLate(v) /\ (Exists => TreeNamed(v))

LEMMA OneHead ==
    ASSUME NEW a
    PROVE  Head(<<a>>) = a /\ ~(Len(<<a>>) > 1)
OBVIOUS

LEMMA TreeQuiet ==
    ASSUME TypeInv, NEW v \in Services, TreeInv(v), Quiet(v)
    PROVE  TreeInv(v)'
<1>1. /\ call'[v].op \notin {"recover", "request_workspace"}
      /\ call'[v].at \in {"transition", "check"}
      /\ QuietPlan(call'[v].at, call'[v].plan)
      /\ cache'[v] = cache[v] \/ cache'[v] = file
      /\ UNCHANGED <<file, tree, unreported>>
      BY QuietForm DEF QuietOps
<1>2. PlanLate(v)'
      BY <1>1 DEF PlanLate, QuietPlan, Late
<1>3. Exists' => TreeNamed(v)'
      BY <1>1 DEF TreeInv, TreeNamed, Exists
<1> QED
    BY <1>2, <1>3 DEF TreeInv

LEMMA TreeCreate ==
    ASSUME TypeInv, NEW v \in Services, LedgerInv(v), TreeInv(v), create_worktree(v)
    PROVE  TreeInv(v)'
<1>1. /\ file # Absent /\ file \in RecordType /\ file.state = "reserved"
      /\ UNCHANGED <<file, cache, unreported>>
      /\ cache[v] # Absent => cache[v] \in RecordType
      BY PresentFacts, CachedType DEF create_worktree
<1>2. /\ call[v] = Idle
      /\ \/ UNCHANGED call
         \/ call'[v].op = "create_worktree" /\ call'[v].at = "added"
         \/ /\ call'[v].op = "create_worktree" /\ call'[v].at = "transition"
            /\ call'[v].plan = <<<<"retired", "reservation_refused">>>>
      BY DEF create_worktree, Enter, Free, TypeInv, TypeOK
<1>3. call[v].at = "idle" /\ call[v].op = "idle"
      BY <1>2 DEF Idle
<1>4. PlanLate(v)'
      BY <1>2, <1>3, OneHead DEF PlanLate, Late, To
<1>5. cache[v] # Absent => Named(cache[v])
  <2>1. ASSUME cache[v] # Absent, <<Pair(cache[v]), Pair(file)>> \in _VALID_TRANSITIONS
        PROVE  cache[v].state = "requested"
        BY <1>1, <2>1, TableFacts, PairType
  <2> QED
      BY <1>1, <2>1 DEF LedgerInv, CopyTracks, Named, Unnamed
<1>6. TreeNamed(v)'
      BY <1>1, <1>2, <1>3, <1>5 DEF TreeNamed, Named, Unnamed
<1> QED
    BY <1>4, <1>6 DEF TreeInv

LEMMA TreeDetach ==
    ASSUME TypeInv, NEW v \in Services, LedgerInv(v), TreeInv(v), detach_session(v)
    PROVE  TreeInv(v)'
<1>1. file # Absent /\ file.state = "active" /\ file \in RecordType
      BY PresentFacts, CachedType DEF detach_session
<1>2. /\ call[v] = Idle /\ call'[v].op = "detach_session"
      /\ \/ call'[v].at = "detached"
         \/ /\ call'[v].at = "transition"
            /\ call'[v].plan = <<<<"active", "session_detached">>>>
      /\ UNCHANGED <<tree, unreported>>
      BY DEF detach_session, Enter, Free, TypeInv, TypeOK
<1>3. /\ file'.state = "active" /\ file'.path = file.path
      /\ \/ UNCHANGED cache
         \/ cache'[v] = file'
  <2>1. CASE UNCHANGED <<file, cache>>
        BY <1>1, <2>1
  <2>2. CASE SaveBoth(v, [file EXCEPT !.session = "none"])
        BY <1>1, <2>2 DEF SaveBoth, RecordType, TypeInv, TypeOK
  <2> QED
      BY <2>1, <2>2 DEF detach_session
<1>4. PlanLate(v)'
      BY <1>2, OneHead DEF PlanLate, Late, To
<1>5. Exists' => TreeNamed(v)'
      BY <1>1, <1>2, <1>3 DEF TreeInv, TreeNamed, Named, Exists
<1> QED
    BY <1>4, <1>5 DEF TreeInv

LEMMA TreeActivate ==
    ASSUME TypeInv, NEW v \in Services, NEW s \in Sessions, TreeInv(v),
           activate(v, s) \/ assign_session(v, s)
    PROVE  TreeInv(v)'
<1>1. file # Absent /\ file \in RecordType
      BY PresentFacts, CachedType DEF activate, assign_session
<1>2. /\ call'[v].op \in {"activate", "assign_session"}
      /\ \/ call'[v].at = "final"
         \/ call'[v].at = "transition" /\ call'[v].plan = <<To("active")>>
      /\ UNCHANGED <<cache, tree, unreported>>
      BY DEF activate, assign_session, Enter, TypeInv, TypeOK
<1>3. file'.state = file.state /\ file'.path = file.path
      BY <1>1 DEF activate, assign_session, RecordType
<1>4. PlanLate(v)'
      BY <1>2, OneHead DEF PlanLate, Late, To
<1>5. Exists' => TreeNamed(v)'
      BY <1>1, <1>2, <1>3 DEF TreeInv, TreeNamed, Named, Exists
<1> QED
    BY <1>4, <1>5 DEF TreeInv

LEMMA TreeRecover ==
    ASSUME TypeInv, NEW v \in Services, NEW s \in Sessions, TreeInv(v), recover(v, s)
    PROVE  TreeInv(v)'
<1>1. file # Absent /\ file \in RecordType /\ Cached(v) \in RecordType
      BY PresentFacts, CachedType DEF recover
<1>2. /\ call'[v].op = "recover" /\ call'[v].at = "transition"
      /\ call'[v].plan = <<<<"active", "recovered">>, To("active")>>
      /\ call'[v].was = file
      /\ UNCHANGED <<file, tree, unreported>>
      BY DEF recover, Enter, TypeInv, TypeOK
<1>3. cache'[v] = [Cached(v) EXCEPT !.session = s]
      BY DEF recover, TypeInv, TypeOK
<1>4. cache'[v].state = Cached(v).state /\ cache'[v].path = Cached(v).path
      BY <1>1, <1>3 DEF RecordType
<1>5. PlanLate(v)'
      BY <1>2, OneHead DEF PlanLate, Late, To
<1>6. Exists' => TreeNamed(v)'
      BY <1>1, <1>2, <1>4 DEF TreeInv, TreeNamed, Named, Exists, Cached
<1> QED
    BY <1>5, <1>6 DEF TreeInv

LEMMA TreeRequest ==
    ASSUME TypeInv, NEW v \in Services, NEW s \in Sessions \cup {"none"}, LedgerInv(v),
           TreeInv(v), request_workspace(v, s)
    PROVE  TreeInv(v)'
<1>1. /\ file = Absent /\ UNCHANGED tree /\ call[v] = Idle
      /\ \/ UNCHANGED call
         \/ /\ call'[v].op = "request_workspace" /\ call'[v].at = "transition"
            /\ call'[v].plan = <<To("requested"), To("reserved")>>
      BY DEF request_workspace, Enter, Free, TypeInv, TypeOK
<1>2. ~Exists'
      BY <1>1 DEF LedgerInv, Untouched, Exists
<1>3. PlanLate(v)'
      BY <1>1, OneHead DEF PlanLate, Late, To, Idle
<1> QED
    BY <1>2, <1>3 DEF TreeInv

(* A failure leaves no call that goes back. *)
LEMMA FailedLate ==
    ASSUME TypeInv, NEW v \in Services, Failed(v),
           call[v].at \in {"transition", "append"}
    PROVE  /\ PlanLate(v)'
           /\ call'[v].at \in {"idle", "restore", "transition"}
           /\ call'[v].op = "recover" => call[v].op = "recover" /\ call'[v].was = call[v].was
           /\ call'[v].op \notin {"request_workspace", "assign_session"}
<1>1. CASE call'[v] = Idle
      BY <1>1 DEF PlanLate, Idle
<1>2. CASE /\ call[v].op = "recover" /\ Len(call[v].plan) = 1
           /\ call'[v] = [call[v] EXCEPT !.at = "restore"]
  <2>1. call'[v].at = "restore" /\ call'[v].op = "recover" /\ call'[v].was = call[v].was
        BY <1>2 DEF TypeInv, TypeOK, CallType
  <2> QED
      BY <1>2, <2>1 DEF PlanLate
<1>3. CASE /\ call[v].op = "retire"
           /\ call'[v] = [call[v] EXCEPT !.at = "transition", !.plan = <<To("retired")>>]
  <2>1. /\ call'[v].at = "transition" /\ call'[v].op = "retire"
        /\ call'[v].plan = <<To("retired")>>
        BY <1>3 DEF TypeInv, TypeOK, CallType
  <2> QED
      BY <2>1, OneHead DEF PlanLate, To
<1> QED
    BY <1>1, <1>2, <1>3, FailedForms

LEMMA TreeSaveFails ==
    ASSUME TypeInv, NEW v \in Services, TreeInv(v), call[v].at = "transition", Failed(v),
           UNCHANGED cache \/ cache' = [cache EXCEPT ![v] = Cached(v)],
           UNCHANGED <<file, tree, unreported>>
    PROVE  TreeInv(v)'
<1>1. cache'[v] = cache[v] \/ cache'[v] = Cached(v)
      BY DEF TypeInv, TypeOK
<1>2. Exists' => TreeNamed(v)'
      BY <1>1, FailedLate DEF TreeInv, TreeNamed, Exists, Cached
<1> QED
    BY <1>2, FailedLate DEF TreeInv

LEMMA TreeSaved ==
    ASSUME TypeInv, NEW v \in Services, LedgerInv(v), TreeInv(v),
           call[v].at = "transition", Permitted(Cached(v), Head(call[v].plan)),
           call' = [call EXCEPT ![v].at = "append", ![v].before = Pair(Cached(v))],
           IF Head(call[v].plan) = Pair(Cached(v))
             THEN UNCHANGED <<file, cache>>
             ELSE SaveBoth(v, WithPair(Cached(v), Head(call[v].plan))),
           UNCHANGED <<tree, unreported>>
    PROVE  TreeInv(v)'
<1> DEFINE ws == Cached(v)
           target == Head(call[v].plan)
           moved == WithPair(ws, target)
<1>1. /\ file # Absent /\ file \in RecordType /\ ws \in RecordType /\ target \in Targets
      /\ moved \in RecordType
      BY Transition, CachedType
<1>2. /\ call'[v].at = "append" /\ call'[v].before = Pair(ws)
      /\ call'[v].op = call[v].op /\ call'[v].plan = call[v].plan
      /\ call'[v].was = call[v].was
      BY DEF TypeInv, TypeOK, CallType
<1>3. /\ moved.path = ws.path /\ moved.state = target[1]
      /\ moved # Absent /\ Pair(ws)[1] = ws.state
      BY <1>1, WithPairType, AbsentFacts, PairType
<1>4. \/ target = Pair(ws) /\ UNCHANGED <<file, cache>>
      \/ /\ <<Pair(ws), target>> \in _VALID_TRANSITIONS
         /\ file' = moved /\ cache'[v] = moved
      BY DEF Permitted, SaveBoth, TypeInv, TypeOK
<1>5. PlanLate(v)'
      BY <1>2 DEF TreeInv, PlanLate
<1>6. ASSUME Exists PROVE TreeNamed(v)'
  <2>1. TreeNamed(v) /\ Named(ws)
        BY <1>6 DEF TreeInv, TreeNamed, Cached
  <2>2. ws.state = "requested" => unreported
        BY <1>1, <2>1 DEF TreeNamed, LedgerInv, CopyTracks, Cached
  <2>3. CASE target = Pair(ws) /\ UNCHANGED <<file, cache>>
        BY <1>2, <1>3, <2>1, <2>2, <2>3 DEF TreeNamed, Named, Cached
  <2>4. CASE /\ <<Pair(ws), target>> \in _VALID_TRANSITIONS
             /\ file' = moved /\ cache'[v] = moved
    <3>1. ws.path \/ target[1] \in Unnamed
      <4>1. CASE target = To("worktree_created")
            BY <4>1 DEF TreeInv, PlanLate, Cached
      <4>2. CASE target # To("worktree_created")
            BY <1>3, <2>1, <2>4, <4>2, TableFacts DEF Named
      <4> QED
          BY <4>1, <4>2
    <3>2. target[1] # "requested"
          BY <2>4, TableFacts
    <3>3. Cached(v)' = moved
          BY <1>3, <2>4 DEF Cached
    <3> QED
        BY <1>2, <1>3, <2>1, <2>2, <2>4, <3>1, <3>2, <3>3 DEF TreeNamed, Named
  <2> QED
      BY <1>4, <2>3, <2>4
<1> QED
    BY <1>5, <1>6 DEF TreeInv, Exists

LEMMA TreeSave ==
    ASSUME TypeInv, NEW v \in Services, LedgerInv(v), TreeInv(v), transition_save(v)
    PROVE  TreeInv(v)'
BY TreeSaved, TreeSaveFails DEF transition_save

LEMMA LongPlan ==
    ASSUME NEW p \in TargetPlans, Len(p) > 1
    PROVE  ~(Len(Tail(p)) > 1)
<1>1. CASE \E a, b \in Targets : p = <<a, b>>
      BY <1>1
<1>2. CASE \E a \in Targets : p = <<a>>
      BY <1>2, OneHead
<1>3. CASE p = <<>>
      BY <1>3
<1> QED
    BY <1>1, <1>2, <1>3 DEF TargetPlans

LEMMA TreeReported ==
    ASSUME TypeInv, NEW v \in Services, LedgerInv(v), TreeInv(v), call[v].at = "append",
           unreported' = (unreported /\ Cached(v).state # file.state),
           \/ /\ Len(call[v].plan) > 1
              /\ call' = [call EXCEPT ![v].at = "transition", ![v].plan = Tail(@)]
           \/ Len(call[v].plan) = 1 /\ Completed(v),
           UNCHANGED <<file, cache, tree>>
    PROVE  TreeInv(v)'
<1>1. /\ file # Absent /\ file \in RecordType /\ Cached(v) \in RecordType
      BY Transition, CachedType
<1>2. /\ call'[v].at # "append" /\ call'[v].at # "clear"
      /\ \/ call'[v].at = "transition" /\ call'[v].plan = Tail(call[v].plan)
                 /\ Len(call[v].plan) > 1
         \/ call'[v].at \in {"idle", "final", "lock"}
      /\ \/ call'[v] = Idle
         \/ call'[v].op = call[v].op /\ call'[v].was = call[v].was
  <2>1. CASE /\ Len(call[v].plan) > 1
             /\ call' = [call EXCEPT ![v].at = "transition", ![v].plan = Tail(@)]
        BY <2>1 DEF TypeInv, TypeOK, CallType
  <2>2. CASE Completed(v)
    <3>1. call[v] \in CallType
          BY DEF TypeInv, TypeOK
    <3>2. \A at \in {"final", "lock"} : /\ [call[v] EXCEPT !.at = at].op = call[v].op
                                       /\ [call[v] EXCEPT !.at = at].at = at
                                       /\ [call[v] EXCEPT !.at = at].was = call[v].was
          BY <3>1 DEF CallType
    <3>3. Idle.at = "idle"
          BY DEF Idle
    <3> QED
        BY <2>2, <3>2, <3>3, CompletedForms
  <2> QED
      BY <2>1, <2>2
<1>3. PlanLate(v)'
  <2>1. CASE /\ call'[v].at = "transition" /\ call'[v].plan = Tail(call[v].plan)
             /\ Len(call[v].plan) > 1
    <3>1. Late(Head(call'[v].plan))
          BY <2>1 DEF TreeInv, PlanLate
    <3>2. ~(Len(call'[v].plan) > 1)
      <4>1. call[v].plan \in TargetPlans
            BY DEF TypeInv, Shape
      <4> QED
          BY <2>1, <4>1, LongPlan
    <3> QED
        BY <2>1, <3>1, <3>2 DEF PlanLate, Late
  <2> QED
      BY <1>2, <2>1 DEF PlanLate
<1>4. ASSUME Exists PROVE TreeNamed(v)'
  <2>1. TreeNamed(v) /\ Head(call[v].plan)[1] # "requested"
        BY <1>4 DEF TreeInv, TreeNamed, PlanLate
  <2>2. Cached(v).state # "requested"
        BY <1>1, <2>1, PairType DEF LedgerInv, AppendTracks
  <2>3. call'[v].op # "request_workspace"
        BY <1>2, <2>1 DEF TreeNamed, Idle
  <2>4. call'[v].op = "recover" => call[v].op = "recover" /\ call'[v].was = call[v].was
        BY <1>2 DEF Idle
  <2> QED
      BY <1>2, <2>1, <2>2, <2>3, <2>4 DEF TreeNamed
<1> QED
    BY <1>3, <1>4 DEF TreeInv, Exists

LEMMA TreeUnreported ==
    ASSUME TypeInv, NEW v \in Services, LedgerInv(v), TreeInv(v), call[v].at = "append",
           Failed(v),
           \/ ~Changed(v) /\ UNCHANGED <<file, cache, unreported>>
           \/ /\ Changed(v) /\ SaveBoth(v, WithPair(Cached(v), call[v].before))
              /\ UNCHANGED unreported
           \/ /\ Changed(v) /\ unreported' = TRUE /\ UNCHANGED file
              /\ cache' = [cache EXCEPT ![v] = WithPair(Cached(v), call[v].before)],
           UNCHANGED tree
    PROVE  TreeInv(v)'
<1> DEFINE ws == Cached(v)
           old == WithPair(ws, call[v].before)
<1>1. /\ file # Absent /\ ws \in RecordType /\ call[v].before \in Targets
      BY Transition, CachedType DEF TypeInv, Shape
<1>2. old.path = ws.path /\ old.state = call[v].before[1]
      BY <1>1, WithPairType
<1>3. \/ UNCHANGED <<file, cache, unreported>>
      \/ file' = old /\ cache'[v] = old /\ UNCHANGED unreported
      \/ unreported' = TRUE /\ UNCHANGED file /\ cache'[v] = old
      BY DEF SaveBoth, TypeInv, TypeOK
<1>4. ASSUME Exists PROVE TreeNamed(v)'
  <2>1. /\ TreeNamed(v) /\ Named(old)
        /\ old.state = "requested" => unreported
        BY <1>2, <1>4 DEF TreeInv, TreeNamed, Named
  <2> QED
      BY <1>3, <2>1, FailedLate DEF TreeNamed
<1> QED
    BY <1>4, FailedLate DEF TreeInv, Exists

LEMMA TreeAppend ==
    ASSUME TypeInv, NEW v \in Services, LedgerInv(v), TreeInv(v), transition_append(v)
    PROVE  TreeInv(v)'
<1>1. CASE /\ unreported' = (unreported /\ Cached(v).state # file.state)
           /\ \/ /\ Len(call[v].plan) > 1
                 /\ call' = [call EXCEPT ![v].at = "transition", ![v].plan = Tail(@)]
              \/ Len(call[v].plan) = 1 /\ Completed(v)
           /\ UNCHANGED <<file, cache>>
      BY <1>1, TreeReported DEF transition_append
<1>2. CASE /\ Failed(v)
           /\ \/ ~Changed(v) /\ UNCHANGED <<file, cache, unreported>>
              \/ /\ Changed(v) /\ SaveBoth(v, WithPair(Cached(v), call[v].before))
                 /\ UNCHANGED unreported
              \/ /\ Changed(v) /\ unreported' = TRUE /\ UNCHANGED file
                 /\ cache' = [cache EXCEPT ![v] = WithPair(Cached(v), call[v].before)]
      BY <1>2, TreeUnreported DEF transition_append
<1> QED
    BY <1>1, <1>2 DEF transition_append

LEMMA TreeRemoval ==
    ASSUME TypeInv, NEW v \in Services, LedgerInv(v), TreeInv(v),
           \/ record_worktree(v) \/ check_removal(v) \/ try_git_worktree_remove(v)
           \/ clear_worktree_path(v) \/ lock_worktree(v)
    PROVE  TreeInv(v)'
<1>1. /\ call[v].at \in {"added", "check", "remove", "clear", "lock"}
      /\ UNCHANGED unreported
      BY DEF record_worktree, check_removal, try_git_worktree_remove, clear_worktree_path,
             lock_worktree
<1>2. file # Absent /\ file \in RecordType /\ call[v].op \notin {"recover", "assign_session"}
      BY <1>1, CachedType, Elsewhere DEF TypeInv, Shape
<1>3. call[v].at \in {"added", "remove", "clear"} => call[v].was = file
      BY DEF LedgerInv, CallTracks
<1>4. CASE record_worktree(v)
  <2> DEFINE ws == [file EXCEPT !.path = TRUE]
  <2>1. ws.path /\ ws.state = file.state /\ ws # Absent
        BY <1>2, AbsentFacts DEF RecordType
  <2>2. /\ cache'[v] = ws /\ UNCHANGED tree
        /\ UNCHANGED file \/ file' = ws
        BY <1>1, <1>3, <1>4 DEF record_worktree, TypeInv, TypeOK
  <2>3. \/ call'[v].at = "idle" /\ call'[v].op = "idle"
        \/ /\ call'[v].at = "transition" /\ call'[v].op = call[v].op
           /\ call'[v].plan = <<To("worktree_created")>>
        BY <1>4, FollowForm, ReturnForm DEF record_worktree
  <2>4. PlanLate(v)'
        BY <2>1, <2>2, <2>3, OneHead DEF PlanLate, To
  <2>5. Exists' => TreeNamed(v)'
        BY <1>1, <1>2, <2>1, <2>2, <2>3 DEF TreeInv, TreeNamed, Named, Exists
  <2> QED
      BY <2>4, <2>5 DEF TreeInv
<1>5. CASE check_removal(v)
  <2>1. /\ call'[v].op = call[v].op
        /\ \/ call'[v].at = "remove"
           \/ call'[v].at = "transition" /\ call'[v].plan = <<RemovalRefused>>
    <3>1. CASE Follow(v, RemovalRefused)
          BY <3>1, FollowForm
    <3>2. CASE call' = [call EXCEPT ![v].at = "remove", ![v].was = file]
          BY <3>2 DEF TypeInv, TypeOK, CallType
    <3> QED
        BY <1>5, <3>1, <3>2 DEF check_removal
  <2>2. UNCHANGED <<file, cache, tree>>
        BY <1>5 DEF check_removal
  <2>3. PlanLate(v)'
        BY <2>1, OneHead DEF PlanLate, To, RemovalRefused
  <2>4. Exists' => TreeNamed(v)'
        BY <1>1, <1>2, <2>1, <2>2 DEF TreeInv, TreeNamed, Exists
  <2> QED
      BY <2>3, <2>4 DEF TreeInv
<1>6. CASE try_git_worktree_remove(v)
  <2>1. /\ call'[v].op = call[v].op /\ UNCHANGED <<file, cache>>
        /\ \/ call'[v].at = "clear" /\ ~Exists'
           \/ /\ call'[v].at = "transition" /\ call'[v].plan = <<RemovalRefused>>
              /\ UNCHANGED tree
        BY <1>6, FollowForm, GotoForm DEF try_git_worktree_remove, Exists
  <2>2. PlanLate(v)'
        BY <2>1, OneHead DEF PlanLate, To, RemovalRefused
  <2>3. Exists' => TreeNamed(v)'
        BY <1>1, <1>2, <2>1 DEF TreeInv, TreeNamed, Exists
  <2> QED
      BY <2>2, <2>3 DEF TreeInv
<1>7. CASE clear_worktree_path(v)
  <2>1. /\ UNCHANGED tree
        /\ \/ call'[v].at = "idle"
           \/ call'[v].at = "transition" /\ call'[v].plan = <<To("retired")>>
        BY <1>7, FollowForm, ReturnForm DEF clear_worktree_path
  <2>2. ~Exists
        BY <1>7 DEF clear_worktree_path, TreeInv, TreeNamed
  <2>3. PlanLate(v)'
        BY <2>1, OneHead DEF PlanLate, To
  <2> QED
      BY <2>1, <2>2, <2>3 DEF TreeInv, Exists
<1>8. CASE lock_worktree(v)
  <2>1. call'[v].at = "idle" /\ call'[v].op = "idle" /\ UNCHANGED <<file, cache, tree>>
        BY <1>8, ReturnForm DEF lock_worktree
  <2> QED
      BY <1>1, <1>2, <2>1 DEF TreeInv, TreeNamed, PlanLate, Exists
<1> QED
    BY <1>4, <1>5, <1>6, <1>7, <1>8

LEMMA TreeSession ==
    ASSUME TypeInv, NEW v \in Services, TreeInv(v), write_session(v) \/ record_detached(v)
    PROVE  TreeInv(v)'
<1>1. /\ call[v].at \in {"final", "detached"} /\ UNCHANGED <<tree, unreported>> /\ Return(v)
      BY DEF write_session, record_detached
<1>2. file # Absent /\ file \in RecordType
      BY <1>1, CachedType DEF TypeInv, Shape
<1>3. call'[v].at = "idle" /\ call'[v].op = "idle"
      BY <1>1, ReturnForm
<1>4. /\ file'.state = file.state /\ file'.path = file.path
      /\ cache'[v] = file' \/ cache'[v] = cache[v]
  <2> DEFINE ws == [file EXCEPT !.session = call[v].session]
  <2>1. ws.state = file.state /\ ws.path = file.path
        BY <1>2 DEF RecordType
  <2>2. \/ file' = ws /\ cache'[v] = ws
        \/ UNCHANGED <<file, cache>>
        BY DEF write_session, record_detached, SaveBoth, TypeInv, TypeOK
  <2> QED
      BY <2>1, <2>2
<1> QED
    BY <1>1, <1>3, <1>4 DEF TreeInv, TreeNamed, Named, PlanLate, Exists

LEMMA TreeRestore ==
    ASSUME TypeInv, NEW v \in Services, LedgerInv(v), TreeInv(v), recover_restore(v)
    PROVE  TreeInv(v)'
<1>1. /\ call[v].at = "restore" /\ call[v].op = "recover" /\ UNCHANGED <<tree, unreported>>
      BY DEF recover_restore, TypeInv, Shape
<1>2. cache[v] \in RecordType /\ cache[v] # Absent /\ call[v].was.state = "active"
      BY <1>1, RecoverCached DEF LedgerInv, Recovering
<1>3. cache'[v].state = cache[v].state /\ cache'[v].path = cache[v].path
      BY <1>2 DEF recover_restore, TypeInv, TypeOK, RecordType
<1>4. file' = file \/ file' = call[v].was
      BY DEF recover_restore
<1>5. \/ call'[v].at = "idle" /\ call'[v].op = "idle"
      \/ /\ call'[v].at = "transition" /\ call'[v].op = "mark"
         /\ call'[v].plan = <<<<"active", "recovery_required">>>>
  <2>1. CASE Return(v)
        BY <2>1, ReturnForm
  <2>2. CASE call' = [call EXCEPT ![v].op = "mark", ![v].at = "transition",
                                  ![v].plan = <<<<"active", "recovery_required">>>>]
        BY <2>2 DEF TypeInv, TypeOK, CallType
  <2> QED
      BY <2>1, <2>2 DEF recover_restore
<1>6. PlanLate(v)'
      BY <1>5, OneHead DEF PlanLate, To
<1>7. Exists' => TreeNamed(v)'
      BY <1>1, <1>2, <1>3, <1>4, <1>5 DEF TreeInv, TreeNamed, Named, Exists
<1> QED
    BY <1>6, <1>7 DEF TreeInv

LEMMA TreeLoad ==
    ASSUME TypeInv, NEW v \in Services, TreeInv(v), _load_all(v) \/ crash(v)
    PROVE  TreeInv(v)'
<1>1. /\ cache'[v] = file /\ call'[v].at = "idle" /\ call'[v].op = "idle"
      /\ UNCHANGED <<file, tree>> /\ (unreported => unreported')
      BY ReturnForm DEF _load_all, crash, Free, Idle, TypeInv, TypeOK
<1> QED
    BY <1>1 DEF TreeInv, TreeNamed, PlanLate, Exists

LEMMA TreeKept ==
    ASSUME NEW v, Services = {v}, TypeInv, LedgerInv(v), TreeInv(v), [Next]_vars
    PROVE  TreeInv(v)'
<1>1. CASE Work \/ append_elsewhere
      BY <1>1 DEF Work, append_elsewhere, Exists, TreeInv, TreeNamed, PlanLate, Cached
<1>2. CASE UNCHANGED vars
      BY <1>2 DEF vars, Exists, TreeInv, TreeNamed, PlanLate, Cached
<1>3. CASE Begin(v)
      BY <1>3, BeginForms, TreeQuiet, TreeCreate, TreeDetach, TreeActivate, TreeRecover,
         TreeRequest
<1>4. CASE Proceed(v)
      BY <1>4, TreeSave, TreeAppend, TreeRemoval, TreeSession, TreeRestore DEF Proceed
<1>5. CASE _load_all(v) \/ crash(v)
      BY <1>5, TreeLoad
<1> QED
    BY <1>1, <1>2, <1>3, <1>4, <1>5 DEF Next

(* With one service, saving the copy in memory over the record, in a         *)
(* transition or its roll-back, never loses the path of a worktree that is   *)
(* on the disk.                                                              *)
THEOREM TreeStaysRecorded == OneService => (Spec => []TreeRecorded)
<1> SUFFICES ASSUME OneService PROVE Spec => []TreeRecorded
    OBVIOUS
<1>1. PICK v : Services = {v}
      BY DEF OneService
<1>2. Init => TypeInv /\ LedgerInv(v) /\ TreeInv(v)
  <2>1. Init => TreeInv(v)
        BY <1>1 DEF Init, TreeInv, PlanLate, Exists, Idle
  <2> QED
      BY <1>1, <2>1, TypeInit, LedgerInit
<1>3. TypeInv /\ LedgerInv(v) /\ TreeInv(v) /\ [Next]_vars
         => (TypeInv /\ LedgerInv(v) /\ TreeInv(v))'
      BY <1>1, TypeKept, LedgerKept, TreeKept
<1>4. TypeInv /\ LedgerInv(v) /\ TreeInv(v) => TreeRecorded
      BY DEF TreeInv, TreeNamed, Named, Unnamed, TreeRecorded
<1> QED
    BY <1>2, <1>3, <1>4, PTL DEF Spec

-----------------------------------------------------------------------------
(* Receipts. *)

Receipts == {o \in occupants : o[2] # "activate"}

Occupied(ws) == ws.session # "none" /\ ws.state \notin PreActive

(* While a receipt is out, every record that may be saved has a session and  *)
(* is past ready, so that no assignment is let in.                           *)
ReceiptInv(v) ==
    /\ \A o, p \in Receipts : o = p
    /\ Receipts # {} =>
          /\ Occupied(file)
          /\ cache[v] # Absent => Occupied(cache[v])
          /\ call[v].op = "recover" => Occupied(call[v].was)
          /\ call[v].at = "append" => call[v].before[1] \notin PreActive
          /\ call[v].op # "assign_session"

LEMMA ReceiptQuiet ==
    ASSUME TypeInv, NEW v \in Services, ReceiptInv(v), Quiet(v)
    PROVE  ReceiptInv(v)'
<1>1. /\ call'[v].op \notin {"recover", "assign_session"}
      /\ call'[v].at \in {"transition", "check"}
      /\ cache'[v] = cache[v] \/ cache'[v] = file
      /\ UNCHANGED <<file, occupants>>
      BY QuietForm DEF QuietOps
<1> QED
    BY <1>1 DEF ReceiptInv, Receipts

(* The operations that ask for a state before active find no receipt. *)
LEMMA ReceiptEarly ==
    ASSUME TypeInv, NEW v \in Services, ReceiptInv(v),
           \/ create_worktree(v)
           \/ \E s \in Sessions : activate(v, s) \/ assign_session(v, s)
    PROVE  ReceiptInv(v)'
<1>1. Receipts = {}
      BY DEF create_worktree, activate, assign_session, ReceiptInv, Occupied, PreActive
<1>2. UNCHANGED occupants
      BY DEF create_worktree, activate, assign_session
<1> QED
    BY <1>1, <1>2 DEF ReceiptInv, Receipts

LEMMA ReceiptDetach ==
    ASSUME TypeInv, NEW v \in Services, ReceiptInv(v), detach_session(v)
    PROVE  ReceiptInv(v)'
<1>1. /\ call'[v].op = "detach_session" /\ call'[v].at \in {"detached", "transition"}
      /\ \/ UNCHANGED <<file, cache, occupants>>
         \/ occupants' = {}
      BY DEF detach_session, Enter, TypeInv, TypeOK
<1> QED
    BY <1>1 DEF ReceiptInv, Receipts

LEMMA ReceiptRecover ==
    ASSUME TypeInv, NEW v \in Services, NEW s \in Sessions, ReceiptInv(v), recover(v, s)
    PROVE  ReceiptInv(v)'
<1>1. file # Absent /\ Cached(v) \in RecordType
      BY PresentFacts, CachedType DEF recover
<1>2. /\ call'[v].op = "recover" /\ call'[v].at = "transition" /\ call'[v].was = file
      /\ UNCHANGED <<file, occupants>>
      BY DEF recover, Enter, TypeInv, TypeOK
<1>3. cache'[v] = [Cached(v) EXCEPT !.session = s]
      BY DEF recover, TypeInv, TypeOK
<1>4. cache'[v].state = Cached(v).state /\ cache'[v].session # "none"
      BY <1>1, <1>3, WorkspaceAssumptions DEF RecordType
<1> QED
    BY <1>1, <1>2, <1>4 DEF ReceiptInv, Receipts, Occupied, Cached

LEMMA ReceiptRequest ==
    ASSUME TypeInv, NEW v \in Services, NEW s \in Sessions \cup {"none"}, LedgerInv(v),
           request_workspace(v, s)
    PROVE  ReceiptInv(v)'
<1>1. occupants' = {}
      BY DEF request_workspace, LedgerInv, Untouched
<1> QED
    BY <1>1 DEF ReceiptInv, Receipts

LEMMA ReceiptSaveFails ==
    ASSUME TypeInv, NEW v \in Services, ReceiptInv(v), call[v].at = "transition", Failed(v),
           UNCHANGED cache \/ cache' = [cache EXCEPT ![v] = Cached(v)],
           UNCHANGED <<file, occupants>>
    PROVE  ReceiptInv(v)'
<1>1. cache'[v] = cache[v] \/ cache'[v] = Cached(v)
      BY DEF TypeInv, TypeOK
<1>2. /\ call'[v].at # "append" /\ call'[v].op # "assign_session"
      /\ call'[v].op = "recover" => call[v].op = "recover" /\ call'[v].was = call[v].was
      BY FailedLate
<1> QED
    BY <1>1, <1>2 DEF ReceiptInv, Receipts, Cached

LEMMA ReceiptSaved ==
    ASSUME TypeInv, NEW v \in Services, ReceiptInv(v),
           call[v].at = "transition", Permitted(Cached(v), Head(call[v].plan)),
           call' = [call EXCEPT ![v].at = "append", ![v].before = Pair(Cached(v))],
           IF Head(call[v].plan) = Pair(Cached(v))
             THEN UNCHANGED <<file, cache>>
             ELSE SaveBoth(v, WithPair(Cached(v), Head(call[v].plan))),
           UNCHANGED occupants
    PROVE  ReceiptInv(v)'
<1> DEFINE ws == Cached(v)
           target == Head(call[v].plan)
           moved == WithPair(ws, target)
<1>1. ws \in RecordType /\ target \in Targets
      BY Transition, CachedType
<1>2. /\ call'[v].at = "append" /\ call'[v].before = Pair(ws)
      /\ call'[v].op = call[v].op /\ call'[v].was = call[v].was
      BY DEF TypeInv, TypeOK, CallType
<1>3. /\ moved.session = ws.session /\ moved.state = target[1] /\ Pair(ws)[1] = ws.state
      BY <1>1, WithPairType, PairType
<1>4. \/ UNCHANGED <<file, cache>>
      \/ /\ <<Pair(ws), target>> \in _VALID_TRANSITIONS
         /\ file' = moved /\ cache'[v] = moved
      BY DEF Permitted, SaveBoth, TypeInv, TypeOK
<1>5. Receipts # {} => Occupied(ws)
      BY DEF ReceiptInv, Cached
<1>6. CASE UNCHANGED <<file, cache>>
      BY <1>2, <1>3, <1>5, <1>6 DEF ReceiptInv, Receipts, Occupied
<1>7. CASE /\ <<Pair(ws), target>> \in _VALID_TRANSITIONS
           /\ file' = moved /\ cache'[v] = moved
  <2>1. Occupied(ws) => target[1] \notin PreActive
        BY <1>3, <1>7, TableFacts DEF Occupied
  <2> QED
      BY <1>2, <1>3, <1>5, <1>7, <2>1 DEF ReceiptInv, Receipts, Occupied
<1> QED
    BY <1>4, <1>6, <1>7

LEMMA ReceiptSave ==
    ASSUME TypeInv, NEW v \in Services, ReceiptInv(v), transition_save(v)
    PROVE  ReceiptInv(v)'
BY ReceiptSaved, ReceiptSaveFails DEF transition_save

LEMMA ReceiptReported ==
    ASSUME TypeInv, NEW v \in Services, LedgerInv(v), ReceiptInv(v),
           call[v].at = "append",
           \/ /\ Len(call[v].plan) > 1
              /\ call' = [call EXCEPT ![v].at = "transition", ![v].plan = Tail(@)]
              /\ UNCHANGED occupants
           \/ Len(call[v].plan) = 1 /\ Completed(v) /\ occupants' = Occupants(v),
           UNCHANGED <<file, cache>>
    PROVE  ReceiptInv(v)'
<1>1. CASE /\ call' = [call EXCEPT ![v].at = "transition", ![v].plan = Tail(@)]
           /\ UNCHANGED occupants
  <2>1. /\ call'[v].at = "transition" /\ call'[v].op = call[v].op
        /\ call'[v].was = call[v].was
        BY <1>1 DEF TypeInv, TypeOK, CallType
  <2> QED
      BY <1>1, <2>1 DEF ReceiptInv, Receipts
<1>2. CASE Len(call[v].plan) = 1 /\ Completed(v) /\ occupants' = Occupants(v)
  <2>1. /\ call'[v].at \in {"idle", "final", "lock"} /\ call'[v].op # "recover"
        /\ call'[v].op = "assign_session" => call[v].op = "assign_session"
    <3>1. call[v] \in CallType
          BY DEF TypeInv, TypeOK
    <3>2. \A at \in {"final", "lock"} : /\ [call[v] EXCEPT !.at = at].op = call[v].op
                                       /\ [call[v] EXCEPT !.at = at].at = at
          BY <3>1 DEF CallType
    <3>3. Idle.at = "idle" /\ Idle.op = "idle"
          BY DEF Idle
    <3> QED
        BY <1>2, <3>2, <3>3, CompletedForms
  <2>2. CASE call[v].op = "recover"
    <3>1. /\ occupants' = {<<call[v].session, "recover">>}
          /\ call'[v].op # "assign_session"
          BY <1>2, <2>1, <2>2 DEF Occupants
    <3>2. /\ call[v].plan = <<To("active")>> /\ call[v].before = <<"active", "recovered">>
          /\ cache[v].state = "active" /\ cache[v].session = call[v].session
          BY <1>2, <2>2 DEF LedgerInv, Recovering
    <3>3. cache[v] = file
          BY <3>2, OneHead DEF LedgerInv, AppendTracks, Changed, To
    <3>4. call[v].session # "none"
          BY <2>2, WorkspaceAssumptions DEF TypeInv, Shape
    <3> QED
        BY <2>1, <3>1, <3>2, <3>3, <3>4 DEF ReceiptInv, Receipts, Occupied, PreActive
  <2>3. CASE call[v].op # "recover"
    <3>1. Receipts' = Receipts
          BY <1>2, <2>3 DEF Occupants, Receipts
    <3> QED
        BY <2>1, <3>1 DEF ReceiptInv
  <2> QED
      BY <2>2, <2>3
<1> QED
    BY <1>1, <1>2

LEMMA ReceiptUnreported ==
    ASSUME TypeInv, NEW v \in Services, ReceiptInv(v), call[v].at = "append", Failed(v),
           \/ UNCHANGED <<file, cache>>
           \/ SaveBoth(v, WithPair(Cached(v), call[v].before))
           \/ /\ UNCHANGED file
              /\ cache' = [cache EXCEPT ![v] = WithPair(Cached(v), call[v].before)],
           UNCHANGED occupants
    PROVE  ReceiptInv(v)'
<1> DEFINE ws == Cached(v)
           old == WithPair(ws, call[v].before)
<1>1. ws \in RecordType /\ call[v].before \in Targets
      BY Transition, CachedType DEF TypeInv, Shape
<1>2. old.session = ws.session /\ old.state = call[v].before[1]
      BY <1>1, WithPairType
<1>3. \/ UNCHANGED <<file, cache>>
      \/ file' = old /\ cache'[v] = old
      \/ UNCHANGED file /\ cache'[v] = old
      BY DEF SaveBoth, TypeInv, TypeOK
<1>4. /\ call'[v].at # "append" /\ call'[v].op # "assign_session"
      /\ call'[v].op = "recover" => call[v].op = "recover" /\ call'[v].was = call[v].was
      BY FailedLate
<1>5. Receipts # {} => Occupied(old)
      BY <1>2 DEF ReceiptInv, Cached, Occupied
<1> QED
    BY <1>3, <1>4, <1>5 DEF ReceiptInv, Receipts

LEMMA ReceiptAppend ==
    ASSUME TypeInv, NEW v \in Services, LedgerInv(v), ReceiptInv(v), transition_append(v)
    PROVE  ReceiptInv(v)'
<1>1. CASE /\ \/ /\ Len(call[v].plan) > 1
                 /\ call' = [call EXCEPT ![v].at = "transition", ![v].plan = Tail(@)]
                 /\ UNCHANGED occupants
              \/ Len(call[v].plan) = 1 /\ Completed(v) /\ occupants' = Occupants(v)
           /\ UNCHANGED <<file, cache>>
      BY <1>1, ReceiptReported DEF transition_append
<1>2. CASE /\ Failed(v) /\ UNCHANGED occupants
           /\ \/ UNCHANGED <<file, cache>>
              \/ SaveBoth(v, WithPair(Cached(v), call[v].before))
              \/ /\ UNCHANGED file
                 /\ cache' = [cache EXCEPT ![v] = WithPair(Cached(v), call[v].before)]
      BY <1>2, ReceiptUnreported DEF transition_append
<1> QED
    BY <1>1, <1>2 DEF transition_append

LEMMA ReceiptRemoval ==
    ASSUME TypeInv, NEW v \in Services, LedgerInv(v), ReceiptInv(v),
           \/ record_worktree(v) \/ check_removal(v) \/ try_git_worktree_remove(v)
           \/ clear_worktree_path(v) \/ lock_worktree(v)
    PROVE  ReceiptInv(v)'
<1>1. /\ call[v].at \in {"added", "check", "remove", "clear", "lock"}
      /\ UNCHANGED occupants
      BY DEF record_worktree, check_removal, try_git_worktree_remove, clear_worktree_path,
             lock_worktree
<1>2. file # Absent /\ file \in RecordType /\ call[v].op \notin {"recover", "assign_session"}
      BY <1>1, CachedType, Elsewhere DEF TypeInv, Shape
<1>3. call[v].at \in {"added", "remove", "clear"} => call[v].was = file
      BY DEF LedgerInv, CallTracks
<1>4. ASSUME NEW b \in BOOLEAN
      PROVE  /\ [file EXCEPT !.path = b].state = file.state
             /\ [file EXCEPT !.path = b].session = file.session
      BY <1>2 DEF RecordType
<1>5. /\ call'[v].at # "append" /\ call'[v].op \notin {"recover", "assign_session"}
  <2>1. CASE call' = [call EXCEPT ![v].at = "remove", ![v].was = file]
        BY <1>2, <2>1 DEF TypeInv, TypeOK, CallType
  <2> QED
      BY <1>2, <2>1, FollowForm, GotoForm, ReturnForm
         DEF record_worktree, check_removal, try_git_worktree_remove, clear_worktree_path,
             lock_worktree
<1>6. /\ file'.state = file.state /\ file'.session = file.session
      /\ \/ cache'[v] = cache[v]
         \/ cache'[v].state = file.state /\ cache'[v].session = file.session
  <2>1. CASE record_worktree(v)
    <3>1. /\ cache'[v] = [file EXCEPT !.path = TRUE]
          /\ UNCHANGED file \/ file' = [file EXCEPT !.path = TRUE]
          BY <1>3, <2>1 DEF record_worktree, TypeInv, TypeOK
    <3> QED
        BY <1>4, <3>1
  <2>2. CASE clear_worktree_path(v)
    <3>1. /\ UNCHANGED cache
          /\ UNCHANGED file \/ file' = [file EXCEPT !.path = FALSE]
          BY <1>3, <2>2 DEF clear_worktree_path
    <3> QED
        BY <1>4, <3>1
  <2>3. CASE check_removal(v) \/ try_git_worktree_remove(v) \/ lock_worktree(v)
        BY <2>3 DEF check_removal, try_git_worktree_remove, lock_worktree
  <2> QED
      BY <2>1, <2>2, <2>3
<1> QED
    BY <1>1, <1>5, <1>6 DEF ReceiptInv, Receipts, Occupied

LEMMA ReceiptSession ==
    ASSUME TypeInv, NEW v \in Services, LedgerInv(v), ReceiptInv(v),
           write_session(v) \/ record_detached(v)
    PROVE  ReceiptInv(v)'
<1>1. call[v].at \in {"final", "detached"} /\ Return(v)
      BY DEF write_session, record_detached
<1>2. file # Absent /\ file \in RecordType
      BY <1>1, CachedType DEF TypeInv, Shape
<1>3. call'[v].at = "idle" /\ call'[v].op = "idle"
      BY <1>1, ReturnForm
<1>4. CASE UNCHANGED <<file, cache, occupants>>
      BY <1>3, <1>4 DEF ReceiptInv, Receipts
<1>5. CASE /\ SaveBoth(v, [file EXCEPT !.session = call[v].session])
           /\ call[v].op = "assign_session"
           /\ occupants' = occupants \cup {<<call[v].session, "assign">>}
           /\ call[v].at = "final"
  <2>1. Receipts = {}
        BY <1>5 DEF ReceiptInv
  <2>2. Receipts' = {<<call[v].session, "assign">>}
        BY <1>5, <2>1 DEF Receipts
  <2>3. file.state = "active" /\ call[v].session # "none"
        BY <1>5, WorkspaceAssumptions DEF LedgerInv, CallTracks, TypeInv, Shape
  <2>4. /\ file'.state = "active" /\ file'.session = call[v].session /\ cache'[v] = file'
        BY <1>2, <1>5, <2>3 DEF SaveBoth, RecordType, TypeInv, TypeOK
  <2> QED
      BY <1>3, <2>2, <2>3, <2>4 DEF ReceiptInv, Occupied, PreActive
<1>6. CASE occupants' = {}
      BY <1>6 DEF ReceiptInv, Receipts
<1> QED
    BY <1>4, <1>5, <1>6 DEF write_session, record_detached

LEMMA ReceiptRestore ==
    ASSUME TypeInv, NEW v \in Services, LedgerInv(v), ReceiptInv(v), recover_restore(v)
    PROVE  ReceiptInv(v)'
<1>1. call[v].at = "restore" /\ call[v].op = "recover" /\ UNCHANGED occupants
      BY DEF recover_restore, TypeInv, Shape
<1>2. cache[v] \in RecordType /\ cache[v] # Absent
      BY <1>1, RecoverCached
<1>3. cache'[v].state = cache[v].state /\ cache'[v].session = call[v].was.session
      BY <1>2 DEF recover_restore, TypeInv, TypeOK, RecordType
<1>4. file' = file \/ file' = call[v].was
      BY DEF recover_restore
<1>5. call'[v].at \in {"idle", "transition"} /\ call'[v].op \in {"idle", "mark"}
  <2>1. CASE Return(v)
        BY <2>1, ReturnForm
  <2>2. CASE call' = [call EXCEPT ![v].op = "mark", ![v].at = "transition",
                                  ![v].plan = <<<<"active", "recovery_required">>>>]
        BY <2>2 DEF TypeInv, TypeOK, CallType
  <2> QED
      BY <2>1, <2>2 DEF recover_restore
<1> QED
    BY <1>1, <1>2, <1>3, <1>4, <1>5 DEF ReceiptInv, Receipts, Occupied

LEMMA ReceiptLoad ==
    ASSUME TypeInv, NEW v \in Services, ReceiptInv(v), _load_all(v) \/ crash(v)
    PROVE  ReceiptInv(v)'
<1>1. /\ cache'[v] = file /\ call'[v].at = "idle" /\ call'[v].op = "idle"
      /\ UNCHANGED <<file, occupants>>
      BY ReturnForm DEF _load_all, crash, Free, Idle, TypeInv, TypeOK
<1> QED
    BY <1>1 DEF ReceiptInv, Receipts

LEMMA ReceiptKept ==
    ASSUME NEW v, Services = {v}, TypeInv, LedgerInv(v), ReceiptInv(v), [Next]_vars
    PROVE  ReceiptInv(v)'
<1>1. CASE Work \/ append_elsewhere
      BY <1>1 DEF Work, append_elsewhere, ReceiptInv, Receipts
<1>2. CASE UNCHANGED vars
      BY <1>2 DEF vars, ReceiptInv, Receipts
<1>3. CASE Begin(v)
      BY <1>3, BeginForms, ReceiptQuiet, ReceiptDetach, ReceiptEarly,
         ReceiptRecover, ReceiptRequest
<1>4. CASE Proceed(v)
      BY <1>4, ReceiptSave, ReceiptAppend, ReceiptRemoval, ReceiptSession, ReceiptRestore
         DEF Proceed
<1>5. CASE _load_all(v) \/ crash(v)
      BY <1>5, ReceiptLoad
<1> QED
    BY <1>1, <1>2, <1>3, <1>4, <1>5 DEF Next

LEMMA ReceiptImplies ==
    ASSUME NEW v \in Services, ReceiptInv(v)
    PROVE  SingleReceipt
<1>1. CASE Receipts = {}
      BY <1>1, FS_EmptySet DEF Receipts, SingleReceipt
<1>2. CASE Receipts # {}
  <2>1. PICK o : Receipts = {o}
        BY <1>2 DEF ReceiptInv
  <2>2. Cardinality(Receipts) = 1
        BY <2>1, FS_Singleton
  <2> QED
      BY <2>2 DEF Receipts, SingleReceipt
<1> QED
    BY <1>1, <1>2

(* With one service no second session is handed an assignment or a recovery  *)
(* of a workspace while the first one's stands, whatever fails between the   *)
(* transition and the save of the session.                                   *)
THEOREM OneReceipt == OneService => (Spec => []SingleReceipt)
<1> SUFFICES ASSUME OneService PROVE Spec => []SingleReceipt
    OBVIOUS
<1>1. PICK v : Services = {v}
      BY DEF OneService
<1>2. Init => TypeInv /\ LedgerInv(v) /\ ReceiptInv(v)
  <2>1. Init => ReceiptInv(v)
        BY <1>1 DEF Init, ReceiptInv, Receipts
  <2> QED
      BY <1>1, <2>1, TypeInit, LedgerInit
<1>3. TypeInv /\ LedgerInv(v) /\ ReceiptInv(v) /\ [Next]_vars
         => (TypeInv /\ LedgerInv(v) /\ ReceiptInv(v))'
      BY <1>1, TypeKept, LedgerKept, ReceiptKept
<1>4. TypeInv /\ LedgerInv(v) /\ ReceiptInv(v) => SingleReceipt
      BY <1>1, ReceiptImplies
<1> QED
    BY <1>2, <1>3, <1>4, PTL DEF Spec

=============================================================================

-------------------------- MODULE RuntimeSupervisor -------------------------
(***************************************************************************)
(* RuntimeSupervisor.execute under leases of an ExecutionLeaseStore: the   *)
(* lease of a worktree is acquired, a subprocess is spawned and supervised *)
(* until it exits, exceeds its deadline or budget, stalls or is cancelled, *)
(* its end is reported and the lease released.  All executions want the    *)
(* same worktree.  A step runs from one await or yield to the next; while  *)
(* the supervisor is suspended the process and the clock go on, the task   *)
(* may be cancelled (at an await) and the caller may drop the generator    *)
(* (at a yield).                                                           *)
(***************************************************************************)
EXTENDS Naturals, FiniteSets

CONSTANTS
    Executions,   \* requests for the worktree, each with its own lease id
    Heartbeats,   \* executions whose heartbeat_interval_ms is not 0
    StallPolicy,  \* per execution: "off", "warn" or "terminate"
    Live,         \* the executions whose supervisor runs on until it is done
    Faults        \* per execution, what may befall it, of FaultKinds

FaultKinds ==
    {"cwd", "governance", "spawn", "audit", "cancel", "abandon",
     "loud", "mute", "descendant"}

ASSUME SupervisorAssumptions ==
    /\ Heartbeats \subseteq Executions
    /\ Live \subseteq Executions
    /\ StallPolicy \in [Executions -> {"off", "warn", "terminate"}]
    /\ Faults \in [Executions -> SUBSET FaultKinds]

VARIABLES
    lease,   \* status in the store: "none", "active", "released", "expired"
    due,     \* expires_at has passed
    pc,      \* where execute is
    sm,      \* RuntimeSupervisorStateMachine._state
    proc,    \* the subprocess: "none", "alive", how it ended by itself ("exit0",
             \* "exit1"), or "killed" by the supervisor
    pipes,   \* stdout and stderr: "open", "held" by a descendant, "closed"
    watch,   \* what the loop looks at: quiet, the time without output (0, 1 past
             \* the warning, 2 past the limit), seen, stall_elapsed as it was read,
             \* loud, the output is over the I/O budget, late, past the deadline
    why,     \* why the loop ended: "exit", "timeout", "budget", "cancelled"
    status,  \* status of the completion or failure event, "none" before it
    raced    \* history: pairs of executions, one between acquire's check and
             \* its write when the other checked

vars == <<lease, due, pc, sm, proc, pipes, watch, why, status, raced>>

-----------------------------------------------------------------------------
(* The state machine. *)

AliveStates == {"running", "heartbeating", "stall_detected", "recovering"}

_TRANSITIONS ==
    [idle           |-> [spawn_started |-> "spawning"],
     spawning       |-> [spawn_succeeded |-> "running", spawn_failed |-> "failed"],
     running        |-> [heartbeat_timer |-> "heartbeating", stall_timer |-> "stall_detected"],
     heartbeating   |-> [heartbeat_timer |-> "heartbeating", output_chunk |-> "running",
                         stall_timer |-> "stall_detected"],
     stall_detected |-> [heartbeat_timer |-> "stall_detected",
                         output_chunk |-> "recovering", hard_stall |-> "terminating"],
     recovering     |-> [heartbeat_timer |-> "heartbeating",
                         stall_timer |-> "stall_detected"],
     terminating    |-> [kill_sent |-> "killed"],
     killed         |-> <<>>,
     failed         |-> <<>>,
     completed      |-> <<>>]

(* Every state with a live process also has these. *)
Stops == {"timeout", "budget_exceeded", "cancelled"}

Allowed(state, event) ==
    \/ event \in DOMAIN _TRANSITIONS[state]
    \/ state \in AliveStates /\ event \in Stops

Target(state, event) ==
    IF state \in AliveStates /\ event \in Stops THEN "terminating"
                                                ELSE _TRANSITIONS[state][event]

_resolve_exit(p) == IF p = "exit0" THEN "completed" ELSE "failed"

-----------------------------------------------------------------------------
(* Steps. *)

Goto(e, from, to) == pc[e] \in from /\ pc' = [pc EXCEPT ![e] = to]

(* Yield a completion or failure event. *)
Report(e, st) == status' = [status EXCEPT ![e] = st]

SetState(e, state) == sm' = [sm EXCEPT ![e] = state]

Fire(e, event) == Allowed(sm[e], event) /\ SetState(e, Target(sm[e], event))

-----------------------------------------------------------------------------
(* ExecutionLeaseStore. *)

(* The leases acquire would refuse for. *)
Conflicts == {o \in Executions : lease[o] = "active" /\ ~due[o]}

Acquiring == {o \in Executions : pc[o] = "acquiring"}

(* Mutant: a lease counts only once its execution has begun. *)
acquire_check_LateConflict(e) ==
    /\ Goto(e, {"idle"}, "acquiring")
    /\ \A o \in Conflicts : pc[o] = "granted"
    /\ raced' = raced \cup {{o, e} : o \in Acquiring}
    /\ UNCHANGED <<lease, due, sm, proc, pipes, watch, why, status>>

(* acquire holds no lock: another process may acquire between check and      *)
(* write.                                                                    *)
acquire_check(e) ==
    /\ Goto(e, {"idle"}, "acquiring")
    /\ Conflicts = {}
    /\ raced' = raced \cup {{o, e} : o \in Acquiring}
    /\ UNCHANGED <<lease, due, sm, proc, pipes, watch, why, status>>

acquire_write(e) ==
    /\ Goto(e, {"acquiring"}, "granted")
    /\ lease' = [lease EXCEPT ![e] = "active"]
    /\ UNCHANGED <<due, sm, proc, pipes, watch, why, status, raced>>

(* release: an expired lease is left as it is. *)
Release(e) == lease' = [lease EXCEPT ![e] = IF @ = "active" THEN "released" ELSE @]

expire_stale ==
    /\ \E e \in Executions : lease[e] = "active" /\ due[e]
    /\ lease' = [e \in Executions |->
                    IF lease[e] = "active" /\ due[e] THEN "expired" ELSE lease[e]]
    /\ UNCHANGED <<due, pc, sm, proc, pipes, watch, why, status, raced>>

-----------------------------------------------------------------------------
(* Before the process. *)

(* The early returns report a failure and keep the lease; a governance       *)
(* refusal goes on to release it.                                            *)
execute(e) ==
    /\ \/ /\ due[e] \/ "cwd" \in Faults[e]
          /\ Goto(e, {"granted"}, "ended") /\ Report(e, "blocked")
       \/ /\ ~due[e] /\ "governance" \in Faults[e]
          /\ Goto(e, {"granted"}, "refused") /\ Report(e, "blocked")
       \/ ~due[e] /\ Goto(e, {"granted"}, "starting") /\ UNCHANGED status
    /\ UNCHANGED <<lease, due, sm, proc, pipes, watch, why, raced>>

start_spawn(e) ==
    /\ Goto(e, {"starting"}, "spawning")
    /\ Fire(e, "spawn_started")
    /\ UNCHANGED <<lease, due, proc, pipes, watch, why, status, raced>>

spawn(e) ==
    /\ \/ /\ Goto(e, {"spawning"}, "spawned")
          /\ Fire(e, "spawn_succeeded")
          /\ proc' = [proc EXCEPT ![e] = "alive"]
          /\ pipes' = [pipes EXCEPT ![e] = "open"]
          /\ UNCHANGED status
       \/ /\ "spawn" \in Faults[e]
          /\ Goto(e, {"spawning"}, "refused")
          /\ Fire(e, "spawn_failed")
          /\ Report(e, "failed")
          /\ UNCHANGED <<proc, pipes>>
    /\ UNCHANGED <<lease, due, watch, why, raced>>

-----------------------------------------------------------------------------
(* The supervision loop. *)

Calm == [quiet |-> 0, seen |-> 0, loud |-> FALSE, late |-> FALSE]

(* The loop's locals are not read again. *)
LeaveLoop(e, reason) ==
    /\ why' = [why EXCEPT ![e] = reason]
    /\ watch' = [watch EXCEPT ![e] = Calm]

(* Mutant: the loop is not left. *)
Stop_NoBreak(e, state, event, reason) ==
    /\ Allowed(state, event)
    /\ SetState(e, Target(state, event))
    /\ UNCHANGED <<pc, why, watch>>

(* Begin to stop the process: terminate, wait, kill, wait. *)
Stop(e, state, event, reason) ==
    /\ Allowed(state, event)
    /\ pc' = [pc EXCEPT ![e] = "killing"]
    /\ SetState(e, Target(state, event))
    /\ LeaveLoop(e, reason)

Exited(e) ==
    /\ proc[e] \in {"exit0", "exit1"}
    /\ pc' = [pc EXCEPT ![e] = "draining"]
    /\ SetState(e, _resolve_exit(proc[e]))
    /\ LeaveLoop(e, "exit")

Wait(e, state) ==
    /\ pc' = [pc EXCEPT ![e] = "waiting"]
    /\ SetState(e, state)
    /\ watch' = [watch EXCEPT ![e].seen = 0]
    /\ UNCHANGED why

(* Mutant: the deadline is looked at only after an exit. *)
LoopTop_NoDeadline(e, state) ==
    \/ Exited(e)
    \/ proc[e] = "alive" /\ Wait(e, state)

(* The top of the loop, with the state machine in state. *)
LoopTop(e, state) ==
    \/ watch[e].late /\ Stop(e, state, "timeout", "timeout")
    \/ ~watch[e].late /\ Exited(e)
    \/ ~watch[e].late /\ proc[e] = "alive" /\ Wait(e, state)

(* The bytes of a stream are counted when it has ended. *)
CheckBudget(e, state) ==
    IF watch[e].loud /\ pipes[e] = "closed"
      THEN Stop(e, state, "budget_exceeded", "budget")
      ELSE LoopTop(e, state)

(* HARD_STALL is refused in state recovering: the exception leaves the loop. *)
CheckHardStall(e, state, elapsed) ==
    LET hard == StallPolicy[e] = "terminate" /\ elapsed = 2
    IN  \/ hard /\ Stop(e, state, "hard_stall", "timeout")
        \/ /\ hard /\ ~Allowed(state, "hard_stall")
           /\ pc' = [pc EXCEPT ![e] = "unwinding"]
           /\ SetState(e, state) /\ LeaveLoop(e, "none")
        \/ ~hard /\ CheckBudget(e, state)

(* A warning is yielded at most once per stall window. *)
CheckStall(e, state) ==
    LET quiet   == watch[e].quiet
        stalled == IF state \in {"running", "heartbeating"}
                     THEN Target(state, "stall_timer") ELSE state
        moving  == IF state \in {"heartbeating", "stall_detected"}
                     THEN Target(state, "output_chunk") ELSE state
    IN  \/ StallPolicy[e] = "off" /\ CheckBudget(e, state)
        \/ /\ StallPolicy[e] # "off" /\ quiet = 0
           /\ CheckBudget(e, moving)
        \/ /\ StallPolicy[e] # "off" /\ quiet > 0
           /\ CheckHardStall(e, stalled, quiet)
        \/ /\ StallPolicy[e] # "off" /\ quiet > 0
           /\ pc' = [pc EXCEPT ![e] = "warned"]
           /\ SetState(e, stalled)
           /\ watch' = [watch EXCEPT ![e].seen = quiet]
           /\ UNCHANGED why

begin_loop(e) ==
    /\ pc[e] = "spawned"
    /\ LoopTop(e, sm[e])
    /\ UNCHANGED <<lease, due, proc, pipes, status, raced>>

(* wait_for(proc.wait(), check) ends with the process, or times out; then a  *)
(* heartbeat is yielded if enough time has passed since the last.            *)
wait(e) ==
    /\ pc[e] = "waiting"
    /\ \/ Exited(e)
       \/ proc[e] = "alive" /\ CheckStall(e, sm[e])
       \/ /\ proc[e] = "alive" /\ e \in Heartbeats
          /\ pc' = [pc EXCEPT ![e] = "beaten"]
          /\ UNCHANGED <<sm, watch, why>>
    /\ UNCHANGED <<lease, due, proc, pipes, status, raced>>

after_heartbeat(e) ==
    /\ pc[e] = "beaten"
    /\ Allowed(sm[e], "heartbeat_timer")
    /\ CheckStall(e, Target(sm[e], "heartbeat_timer"))
    /\ UNCHANGED <<lease, due, proc, pipes, status, raced>>

after_warning(e) ==
    /\ pc[e] = "warned"
    /\ CheckHardStall(e, sm[e], watch[e].seen)
    /\ UNCHANGED <<lease, due, proc, pipes, status, raced>>

-----------------------------------------------------------------------------
(* After the loop. *)

EnsureStopped(e) == proc' = [proc EXCEPT ![e] = IF @ = "alive" THEN "killed" ELSE @]

kill_wait(e) ==
    /\ Goto(e, {"killing"}, "draining")
    /\ EnsureStopped(e)
    /\ UNCHANGED <<lease, due, sm, pipes, watch, why, status, raced>>

(* gather(drain tasks) and _finalize_subprocess; then the exception, if any. *)
finish_drain(e) ==
    /\ pipes[e] = "closed"
    /\ Goto(e, {"draining"}, "report") \/ Goto(e, {"unwinding"}, "raised")
    /\ EnsureStopped(e)
    /\ UNCHANGED <<lease, due, sm, pipes, watch, why, status, raced>>

(* Mutant: the exit code is looked at before the reason for stopping. *)
Outcome_ExitCodeFirst(e) ==
    IF proc[e] = "exit0" THEN "succeeded" ELSE IF why[e] = "exit" THEN "failed" ELSE why[e]

Outcome(e) ==
    IF why[e] # "exit" THEN why[e] ELSE IF proc[e] = "exit0" THEN "succeeded" ELSE "failed"

report(e) ==
    /\ Goto(e, {"report"}, "reported")
    /\ Report(e, Outcome(e))
    /\ UNCHANGED <<lease, due, sm, proc, pipes, watch, why, raced>>

audit_fails(e) ==
    /\ "audit" \in Faults[e]
    /\ Goto(e, {"reported"}, "unaudited")
    /\ UNCHANGED <<lease, due, sm, proc, pipes, watch, why, status, raced>>

release(e) ==
    /\ Goto(e, {"refused", "reported", "unaudited"}, "ended")
    /\ Release(e)
    /\ UNCHANGED <<due, sm, proc, pipes, watch, why, status, raced>>

-----------------------------------------------------------------------------
(* Cancellation and abandonment. *)

(* Mutant: the lease is released whatever becomes of the process. *)
cancel_Releases(e) ==
    /\ "cancel" \in Faults[e]
    /\ \/ pc[e] = "waiting" /\ Stop(e, sm[e], "cancelled", "cancelled") /\ UNCHANGED lease
       \/ Goto(e, {"killing"}, "unwinding") /\ UNCHANGED <<sm, watch, why, lease>>
       \/ /\ Goto(e, {"spawning", "draining", "unwinding"}, "raised")
          /\ Release(e) /\ UNCHANGED <<sm, watch, why>>
    /\ UNCHANGED <<due, proc, pipes, status, raced>>

(* CancelledError arrives at an await.  CANCELLED is refused in state        *)
(* terminating; during the drain nothing more is done.                       *)
cancel(e) ==
    /\ "cancel" \in Faults[e]
    /\ \/ pc[e] = "waiting" /\ Stop(e, sm[e], "cancelled", "cancelled")
       \/ Goto(e, {"killing"}, "unwinding") /\ UNCHANGED <<sm, watch, why>>
       \/ /\ Goto(e, {"spawning", "draining", "unwinding"}, "raised")
          /\ UNCHANGED <<sm, watch, why>>
    /\ UNCHANGED <<lease, due, proc, pipes, status, raced>>

(* GeneratorExit arrives at a yield, inside or outside the try. *)
abandon(e) ==
    /\ "abandon" \in Faults[e]
    /\ \/ Goto(e, {"beaten", "warned"}, "unwinding")
       \/ Goto(e, {"refused", "starting", "spawned", "report", "reported", "unaudited"},
               "raised")
    /\ LeaveLoop(e, "none")
    /\ UNCHANGED <<lease, due, sm, proc, pipes, status, raced>>

-----------------------------------------------------------------------------
(* The process and the clock. *)

InLoop(e) == pc[e] \in {"spawned", "waiting", "beaten", "warned"}

process_exit(e) ==
    /\ proc[e] = "alive"
    /\ \E p \in {"exit0", "exit1"} : proc' = [proc EXCEPT ![e] = p]
    /\ UNCHANGED <<lease, due, pc, sm, pipes, watch, why, status, raced>>

process_output(e) ==
    /\ InLoop(e) /\ proc[e] = "alive" /\ pipes[e] = "open"
    /\ \E big \in {FALSE, "loud" \in Faults[e]} :
          watch' = [watch EXCEPT ![e].quiet = 0, ![e].loud = @ \/ big]
    /\ UNCHANGED <<lease, due, pc, sm, proc, pipes, why, status, raced>>

(* Most processes keep their pipes until they end. *)
pipes_close(e) ==
    /\ pipes[e] = "open" /\ (proc[e] = "alive" => "mute" \in Faults[e])
    /\ pipes' = [pipes EXCEPT ![e] = "closed"]
    /\ UNCHANGED <<lease, due, pc, sm, proc, watch, why, status, raced>>

(* A child of the process inherits the pipes and outlives it. *)
descendant(e) ==
    /\ "descendant" \in Faults[e]
    /\ proc[e] = "alive" /\ pipes[e] = "open"
    /\ pipes' = [pipes EXCEPT ![e] = "held"]
    /\ UNCHANGED <<lease, due, pc, sm, proc, watch, why, status, raced>>

silence(e) ==
    /\ InLoop(e) /\ StallPolicy[e] # "off" /\ watch[e].quiet < 2
    /\ watch' = [watch EXCEPT ![e].quiet = @ + 1]
    /\ UNCHANGED <<lease, due, pc, sm, proc, pipes, why, status, raced>>

deadline(e) ==
    /\ InLoop(e) /\ ~watch[e].late
    /\ watch' = [watch EXCEPT ![e].late = TRUE]
    /\ UNCHANGED <<lease, due, pc, sm, proc, pipes, why, status, raced>>

lease_due(e) ==
    /\ lease[e] = "active" /\ ~due[e]
    /\ due' = [due EXCEPT ![e] = TRUE]
    /\ UNCHANGED <<lease, pc, sm, proc, pipes, watch, why, status, raced>>

-----------------------------------------------------------------------------
Init ==
    /\ lease = [e \in Executions |-> "none"]
    /\ due = [e \in Executions |-> FALSE]
    /\ pc = [e \in Executions |-> "idle"]
    /\ sm = [e \in Executions |-> "idle"]
    /\ proc = [e \in Executions |-> "none"]
    /\ pipes = [e \in Executions |-> "closed"]
    /\ watch = [e \in Executions |-> Calm]
    /\ why = [e \in Executions |-> "none"]
    /\ status = [e \in Executions |-> "none"]
    /\ raced = {}

Supervise(e) ==
    \/ execute(e) \/ start_spawn(e) \/ spawn(e)
    \/ begin_loop(e) \/ wait(e) \/ after_heartbeat(e) \/ after_warning(e)
    \/ kill_wait(e) \/ finish_drain(e) \/ report(e) \/ release(e)

Environment(e) ==
    \/ acquire_check(e) \/ acquire_write(e)
    \/ cancel(e) \/ abandon(e) \/ audit_fails(e)
    \/ process_exit(e) \/ process_output(e) \/ pipes_close(e) \/ descendant(e)
    \/ silence(e) \/ deadline(e) \/ lease_due(e)

Next == expire_stale \/ \E e \in Executions : Supervise(e) \/ Environment(e)

Spec == Init /\ [][Next]_vars

(* Where a supervisor lives, the event loop resumes a task whose await is    *)
(* over, the caller asks for the next event, the clock reaches the deadline, *)
(* and the pipes of a stopped process that nobody else holds are closed.     *)
(* Nothing makes a process end, and the other supervisors may stop anywhere. *)
Fairness ==
    \A e \in Live :
        /\ WF_vars(Supervise(e))
        /\ WF_vars(deadline(e))
        /\ WF_vars(proc[e] \notin {"none", "alive"} /\ pipes_close(e))

FairSpec == Spec /\ Fairness

-----------------------------------------------------------------------------
(* Properties. *)

Places ==
    {"idle", "acquiring", "granted", "refused", "starting", "spawning", "spawned",
     "waiting", "beaten", "warned", "killing", "draining", "unwinding", "report",
     "reported", "unaudited", "ended", "raised"}

(* Types; in the loop the state machine is in a state with a live process. *)
TypeOK ==
    /\ lease \in [Executions -> {"none", "active", "released", "expired"}]
    /\ due \in [Executions -> BOOLEAN]
    /\ pc \in [Executions -> Places]
    /\ sm \in [Executions -> DOMAIN _TRANSITIONS]
    /\ proc \in [Executions -> {"none", "alive", "exit0", "exit1", "killed"}]
    /\ pipes \in [Executions -> {"open", "held", "closed"}]
    /\ watch \in [Executions -> [quiet : 0..2, seen : 0..2, loud : BOOLEAN, late : BOOLEAN]]
    /\ why \in [Executions -> {"none", "exit", "timeout", "budget", "cancelled"}]
    /\ status \in [Executions -> {"none", "blocked", "failed", "succeeded", "timeout",
                                  "budget", "cancelled"}]
    /\ raced \subseteq SUBSET Executions
    /\ \A e \in Executions : InLoop(e) => sm[e] \in AliveStates

(* The supervisor gives a lease back only when its process has ended and its *)
(* end has been reported, however the execution was stopped.                 *)
StoppedBeforeRelease ==
    \A e \in Executions :
        lease[e] = "released" => proc[e] # "alive" /\ status[e] # "none"

(* The acquisitions of a and b were not one after the other. *)
Raced(a, b) == {a, b} \in raced

(* Two processes run in the worktree at once only when the lease of one has  *)
(* run out (a lease is never renewed, and its end does not stop the process) *)
(* or each of the two leases was acquired while the other was: leases taken  *)
(* one after the other exclude each other as long as they last.              *)
OverlapOnlyAfterExpiry ==
    \A a, b \in Executions :
        a # b /\ proc[a] = "alive" /\ proc[b] = "alive" =>
            due[a] \/ due[b] \/ Raced(a, b)

(* An execution is reported as a success exactly when the process ended by   *)
(* itself, with exit code 0, as far as the state machine knows.              *)
OutcomeTruthful ==
    \A e \in Executions :
        pc[e] \in {"reported", "unaudited", "ended"} /\ proc[e] # "none" =>
            (status[e] = "succeeded" <=> sm[e] = "completed" /\ proc[e] = "exit0")

(* An execution that has been granted its lease ends, with the lease given   *)
(* back or run out, even if its process never does and whatever becomes of   *)
(* the others: unless an exception is under way, or a descendant of the      *)
(* process keeps its pipes open.                                             *)
Concludes ==
    \A e \in Live :
        pc[e] = "starting" ~>
            \/ pc[e] = "ended" /\ lease[e] # "active"
            \/ pc[e] \in {"raised", "unwinding"}
            \/ pipes[e] = "held"

(* acquire "refuses if an ACTIVE (non-expired) lease already exists for the  *)
(* same worktree_path".                                                      *)
OneActiveLease == Cardinality(Conflicts) <= 1

=============================================================================

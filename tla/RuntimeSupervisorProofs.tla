----------------------- MODULE RuntimeSupervisorProofs ----------------------
(***************************************************************************)
(* Theorems about RuntimeSupervisor, for any executions, stall policies    *)
(* and faults.                                                             *)
(***************************************************************************)
EXTENDS RuntimeSupervisor, FiniteSetTheorems, TLAPS

-----------------------------------------------------------------------------
(* The state machine. *)

Machine == {"idle", "spawning", "running", "heartbeating", "stall_detected", "recovering",
            "terminating", "killed", "failed", "completed"}

LEMMA MachineStates == DOMAIN _TRANSITIONS = Machine
BY DEF _TRANSITIONS, Machine

LEMMA Spawning ==
    ASSUME NEW s \in Machine
    PROVE  /\ Allowed(s, "spawn_started") => Target(s, "spawn_started") = "spawning"
           /\ Allowed(s, "spawn_succeeded") => Target(s, "spawn_succeeded") = "running"
           /\ Allowed(s, "spawn_failed") => Target(s, "spawn_failed") = "failed"
BY DEF Machine, _TRANSITIONS, Allowed, Target, AliveStates, Stops

(* No transition but an exit leaves a state with a live process other than   *)
(* for terminating.                                                          *)
LEMMA Alive ==
    ASSUME NEW s \in AliveStates
    PROVE  /\ s \in Machine
           /\ Target(s, "heartbeat_timer") \in AliveStates
           /\ s \in {"running", "heartbeating"} => Target(s, "stall_timer") \in AliveStates
           /\ s \in {"heartbeating", "stall_detected"} =>
                 Target(s, "output_chunk") \in AliveStates
           /\ \A event \in Stops : Allowed(s, event) => Target(s, event) = "terminating"
           /\ Allowed(s, "hard_stall") => Target(s, "hard_stall") = "terminating"
BY DEF Machine, _TRANSITIONS, Allowed, Target, AliveStates, Stops

-----------------------------------------------------------------------------
(* One pass of the supervision loop. *)

Watches == [quiet : 0..2, seen : 0..2, loud : BOOLEAN, late : BOOLEAN]

LoopPlaces == {"spawned", "waiting", "beaten", "warned"}

(* The loop goes on in place q, or is left: with the process to be stopped,  *)
(* with its exit, or with an exception.                                      *)
Outcomes(e, q, x, w, y) ==
    /\ w \in Watches
    /\ \/ q \in LoopPlaces /\ x \in AliveStates /\ y = why[e]
       \/ q = "killing" /\ x = "terminating" /\ y \in {"timeout", "budget", "cancelled"}
       \/ /\ q = "draining" /\ y = "exit"
          /\ proc[e] \in {"exit0", "exit1"} /\ x = _resolve_exit(proc[e])
       \/ q = "unwinding" /\ x \in Machine /\ y = "none"

Pass(e) ==
    \E q, x, w, y :
        /\ Outcomes(e, q, x, w, y)
        /\ pc' = [pc EXCEPT ![e] = q]
        /\ sm' = [sm EXCEPT ![e] = x]
        /\ watch' = [watch EXCEPT ![e] = w]
        /\ why' = [why EXCEPT ![e] = y]

LEMMA CalmWatch == Calm \in Watches
BY DEF Calm, Watches

(* Whatever order the loop takes its checks in, it passes. *)
LEMMA Passes ==
    ASSUME NEW e \in Executions, NEW s \in AliveStates, TypeOK
    PROVE  /\ LoopTop(e, s) => Pass(e)
           /\ CheckBudget(e, s) => Pass(e)
           /\ \A n \in 0..2 : CheckHardStall(e, s, n) => Pass(e)
           /\ CheckStall(e, s) => Pass(e)
<1>1. ASSUME NEW event \in Stops \cup {"hard_stall"}, NEW t \in AliveStates,
             NEW reason \in {"timeout", "budget", "cancelled"}, Stop(e, t, event, reason)
      PROVE  Pass(e)
  <2>1. Outcomes(e, "killing", "terminating", Calm, reason)
        BY CalmWatch DEF Outcomes
  <2>2. Target(t, event) = "terminating"
        BY <1>1, Alive DEF Stop
  <2> QED
      BY <1>1, <2>1, <2>2 DEF Pass, Stop, SetState, LeaveLoop
<1>2. ASSUME Exited(e) PROVE Pass(e)
  <2>1. Outcomes(e, "draining", _resolve_exit(proc[e]), Calm, "exit")
        BY <1>2, CalmWatch DEF Outcomes, Exited
  <2> QED
      BY <1>2, <2>1 DEF Pass, Exited, SetState, LeaveLoop
<1>3. ASSUME NEW t \in AliveStates, Wait(e, t) PROVE Pass(e)
  <2>0. watch[e] \in Watches
        BY DEF TypeOK, Watches
  <2>1. [watch[e] EXCEPT !.seen = 0] \in Watches
        BY <2>0 DEF Watches
  <2>2. Outcomes(e, "waiting", t, [watch[e] EXCEPT !.seen = 0], why[e])
        BY <2>1 DEF Outcomes, LoopPlaces
  <2>3. why' = [why EXCEPT ![e] = why[e]]
        BY <1>3 DEF Wait, TypeOK
  <2> QED
      BY <1>3, <2>2, <2>3 DEF Pass, Wait, SetState
<1>4. ASSUME NEW t \in AliveStates, LoopTop(e, t) PROVE Pass(e)
      BY <1>1, <1>2, <1>3, <1>4 DEF LoopTop, Stops
<1>5. ASSUME NEW t \in AliveStates, CheckBudget(e, t) PROVE Pass(e)
      BY <1>1, <1>4, <1>5 DEF CheckBudget, Stops
<1>6. ASSUME NEW t \in AliveStates, NEW n \in 0..2, CheckHardStall(e, t, n) PROVE Pass(e)
  <2>1. CASE /\ pc' = [pc EXCEPT ![e] = "unwinding"]
             /\ SetState(e, t) /\ LeaveLoop(e, "none")
    <3>1. Outcomes(e, "unwinding", t, Calm, "none")
          BY CalmWatch, Alive DEF Outcomes
    <3> QED
        BY <2>1, <3>1 DEF Pass, SetState, LeaveLoop
  <2> QED
      BY <1>1, <1>5, <1>6, <2>1 DEF CheckHardStall
<1>7. ASSUME CheckStall(e, s) PROVE Pass(e)
  <2> DEFINE stalled == IF s \in {"running", "heartbeating"} THEN Target(s, "stall_timer") ELSE s
             moving  == IF s \in {"heartbeating", "stall_detected"}
                          THEN Target(s, "output_chunk") ELSE s
  <2>1. stalled \in AliveStates /\ moving \in AliveStates /\ watch[e].quiet \in 0..2
        BY Alive DEF TypeOK
  <2>2. CASE /\ pc' = [pc EXCEPT ![e] = "warned"]
             /\ SetState(e, stalled)
             /\ watch' = [watch EXCEPT ![e].seen = watch[e].quiet]
             /\ UNCHANGED why
    <3>1. [watch[e] EXCEPT !.seen = watch[e].quiet] \in Watches
          BY <2>1 DEF TypeOK, Watches
    <3>2. Outcomes(e, "warned", stalled, [watch[e] EXCEPT !.seen = watch[e].quiet], why[e])
          BY <2>1, <3>1 DEF Outcomes, LoopPlaces
    <3>3. why' = [why EXCEPT ![e] = why[e]]
          BY <2>2 DEF TypeOK
    <3> HIDE DEF stalled
    <3> QED
        BY <2>2, <3>2, <3>3 DEF Pass, SetState
  <2>3. \/ CheckBudget(e, s) \/ CheckBudget(e, moving)
        \/ CheckHardStall(e, stalled, watch[e].quiet)
        \/ /\ pc' = [pc EXCEPT ![e] = "warned"]
           /\ SetState(e, stalled)
           /\ watch' = [watch EXCEPT ![e].seen = watch[e].quiet]
           /\ UNCHANGED why
        BY <1>7 DEF CheckStall
  <2> HIDE DEF stalled, moving
  <2> QED
      BY <1>5, <1>6, <2>1, <2>2, <2>3
<1> QED
    BY <1>4, <1>5, <1>6, <1>7

(* All steps of an execution in the loop are passes. *)
LEMMA LoopSteps ==
    ASSUME NEW e \in Executions, TypeOK,
           \/ begin_loop(e) \/ wait(e) \/ after_heartbeat(e) \/ after_warning(e)
           \/ pc[e] = "waiting" /\ Stop(e, sm[e], "cancelled", "cancelled")
    PROVE  Pass(e)
<1>1. sm[e] \in AliveStates /\ watch[e].seen \in 0..2
      BY DEF TypeOK, InLoop, begin_loop, wait, after_heartbeat, after_warning
<1>2. CASE begin_loop(e)
      BY <1>1, <1>2, Passes DEF begin_loop
<1>3. CASE wait(e)
  <2>1. CASE pc' = [pc EXCEPT ![e] = "beaten"] /\ UNCHANGED <<sm, watch, why>>
    <3>1. PICK x, w, y : x = sm[e] /\ w = watch[e] /\ y = why[e]
          OBVIOUS
    <3>2. Outcomes(e, "beaten", x, w, y)
          BY <1>1, <3>1 DEF Outcomes, LoopPlaces, TypeOK, Watches
    <3>3. /\ pc' = [pc EXCEPT ![e] = "beaten"]
          /\ sm' = [sm EXCEPT ![e] = x]
          /\ watch' = [watch EXCEPT ![e] = w]
          /\ why' = [why EXCEPT ![e] = y]
          BY <2>1, <3>1 DEF TypeOK
    <3> QED
        BY <3>2, <3>3 DEF Pass
  <2>2. CASE Exited(e)
    <3>1. Outcomes(e, "draining", _resolve_exit(proc[e]), Calm, "exit")
          BY <2>2, CalmWatch DEF Outcomes, Exited
    <3> QED
        BY <2>2, <3>1 DEF Pass, Exited, SetState, LeaveLoop
  <2> QED
      BY <1>1, <1>3, <2>1, <2>2, Passes DEF wait
<1>4. CASE after_heartbeat(e)
      BY <1>1, <1>4, Passes, Alive DEF after_heartbeat
<1>5. CASE after_warning(e)
      BY <1>1, <1>5, Passes DEF after_warning
<1>6. CASE pc[e] = "waiting" /\ Stop(e, sm[e], "cancelled", "cancelled")
  <2>1. Outcomes(e, "killing", "terminating", Calm, "cancelled")
        BY CalmWatch DEF Outcomes
  <2>2. Target(sm[e], "cancelled") = "terminating"
        BY <1>1, <1>6, Alive DEF Stop, Stops
  <2> QED
      BY <1>6, <2>1, <2>2 DEF Pass, Stop, SetState, LeaveLoop
<1> QED
    BY <1>2, <1>3, <1>4, <1>5, <1>6

-----------------------------------------------------------------------------
(* The invariant.  What is known of one execution by the place it is at. *)

Before == {"idle", "acquiring", "granted", "refused", "starting", "spawning"}

Stopped == {"report", "reported", "unaudited", "ended"}

Control(e) ==
    /\ pc[e] \in Before => proc[e] = "none"
    /\ pc[e] \in {"idle", "acquiring"} => lease[e] = "none"
    /\ pc[e] \in Stopped => proc[e] # "alive"
    /\ pc[e] = "killing" => why[e] # "exit"
    /\ pc[e] \in {"killing", "draining", "report"} =>
          \/ why[e] \in {"timeout", "budget", "cancelled"} /\ sm[e] = "terminating"
          \/ /\ why[e] = "exit" /\ proc[e] \in {"exit0", "exit1"}
             /\ sm[e] = _resolve_exit(proc[e])
    /\ pc[e] \in {"refused", "reported", "unaudited"} => status[e] # "none"
    /\ lease[e] = "released" => pc[e] = "ended" /\ status[e] # "none"
    /\ pc[e] \in {"reported", "unaudited", "ended"} /\ proc[e] # "none" =>
          (status[e] = "succeeded" <=> sm[e] = "completed" /\ proc[e] = "exit0")
    /\ pc[e] \in {"granted", "starting", "spawning"} \/ proc[e] = "alive" =>
          due[e] \/ lease[e] = "active"

SupervisorInv == TypeOK /\ \A e \in Executions : Control(e)

(* A pass, with all the other variables unchanged. *)
LEMMA PassStep ==
    ASSUME NEW e \in Executions, SupervisorInv, InLoop(e), Pass(e),
           UNCHANGED <<lease, due, proc, pipes, status, raced>>
    PROVE  SupervisorInv'
<1>1. PICK q, x, w, y :
         /\ Outcomes(e, q, x, w, y)
         /\ pc' = [pc EXCEPT ![e] = q]
         /\ sm' = [sm EXCEPT ![e] = x]
         /\ watch' = [watch EXCEPT ![e] = w]
         /\ why' = [why EXCEPT ![e] = y]
      BY DEF Pass
<1>2. /\ q \in LoopPlaces \cup {"killing", "draining", "unwinding"}
      /\ x \in Machine /\ w \in Watches
      /\ y \in {"none", "exit", "timeout", "budget", "cancelled"}
      BY <1>1, Alive DEF Outcomes, SupervisorInv, TypeOK, Machine, _resolve_exit
<1>3. TypeOK'
  <2>1. /\ pc' \in [Executions -> Places]
        /\ sm' \in [Executions -> DOMAIN _TRANSITIONS]
        BY <1>1, <1>2, MachineStates DEF SupervisorInv, TypeOK, Places, LoopPlaces
  <2>2. /\ watch' \in [Executions -> Watches]
        /\ why' \in [Executions -> {"none", "exit", "timeout", "budget", "cancelled"}]
        BY <1>1, <1>2 DEF SupervisorInv, TypeOK, Watches
  <2>3. \A o \in Executions : InLoop(o)' => sm'[o] \in AliveStates
        BY <1>1 DEF SupervisorInv, TypeOK, InLoop, Outcomes, LoopPlaces
  <2> QED
      BY <2>1, <2>2, <2>3 DEF SupervisorInv, TypeOK, Watches
<1>4. ASSUME NEW o \in Executions PROVE Control(o)'
  <2>1. CASE o # e
        BY <1>1, <2>1 DEF SupervisorInv, TypeOK, Control
  <2>2. CASE o = e
        BY <1>1, <2>2
           DEF SupervisorInv, TypeOK, Control, InLoop, Outcomes, LoopPlaces, Before, Stopped
  <2> QED
      BY <2>1, <2>2
<1> QED
    BY <1>3, <1>4 DEF SupervisorInv

LEMMA WatchOutput ==
    ASSUME NEW w \in Watches, NEW b \in BOOLEAN
    PROVE  [w EXCEPT !.quiet = 0, !.loud = b] \in Watches
<1>1. PICK v : v = [w EXCEPT !.quiet = 0]
      OBVIOUS
<1>2. v \in Watches
      BY <1>1 DEF Watches
<1>3. [v EXCEPT !.loud = b] \in Watches
      BY <1>2 DEF Watches
<1>4. [v EXCEPT !.loud = b] = [w EXCEPT !.quiet = 0, !.loud = b]
      BY <1>1 DEF Watches
<1> QED
    BY <1>3, <1>4

LEMMA WatchSilence ==
    ASSUME NEW w \in Watches, w.quiet < 2
    PROVE  [w EXCEPT !.quiet = w.quiet + 1] \in Watches
<1>1. w.quiet \in 0..2
      BY DEF Watches
<1>2. w.quiet + 1 \in 0..2
      BY <1>1
<1> QED
    BY <1>2 DEF Watches

(* The steps outside the loop. *)
LEMMA TypeStep ==
    ASSUME NEW e \in Executions, SupervisorInv,
           \/ acquire_check(e) \/ acquire_write(e) \/ execute(e) \/ start_spawn(e)
           \/ spawn(e) \/ kill_wait(e) \/ finish_drain(e) \/ report(e) \/ audit_fails(e)
           \/ release(e) \/ abandon(e) \/ process_exit(e) \/ process_output(e)
           \/ pipes_close(e) \/ descendant(e) \/ silence(e) \/ deadline(e) \/ lease_due(e)
    PROVE  TypeOK'
<1> USE DEF SupervisorInv, TypeOK, Places, InLoop
<1>1. CASE acquire_check(e)
  <2>1. raced' \subseteq SUBSET Executions
        BY <1>1 DEF acquire_check, Acquiring
  <2> QED
      BY <1>1, <2>1 DEF acquire_check, Goto
<1>2. CASE acquire_write(e)
      BY <1>2 DEF acquire_write, Goto
<1>3. CASE execute(e)
  <2>1. pc' \in [Executions -> Places]
        BY <1>3 DEF execute, Goto
  <2>2. status' \in [Executions -> {"none", "blocked", "failed", "succeeded", "timeout",
                                    "budget", "cancelled"}]
        BY <1>3 DEF execute, Report
  <2>3. \A o \in Executions : InLoop(o)' => sm'[o] \in AliveStates
        BY <1>3 DEF execute, Goto
  <2> QED
      BY <1>3, <2>1, <2>2, <2>3 DEF execute
<1>4. CASE start_spawn(e)
      BY <1>4, Spawning, MachineStates DEF start_spawn, Goto, Fire, SetState, Machine, AliveStates
<1>5. CASE spawn(e)
  <2>1. CASE /\ Goto(e, {"spawning"}, "spawned") /\ Fire(e, "spawn_succeeded")
             /\ proc' = [proc EXCEPT ![e] = "alive"] /\ pipes' = [pipes EXCEPT ![e] = "open"]
             /\ UNCHANGED status
    <3>1. sm' = [sm EXCEPT ![e] = "running"]
          BY <2>1, Spawning, MachineStates DEF Fire, SetState
    <3> QED
        BY <1>5, <2>1, <3>1, MachineStates DEF spawn, Goto, Machine, AliveStates
  <2>2. CASE /\ Goto(e, {"spawning"}, "refused") /\ Fire(e, "spawn_failed")
             /\ Report(e, "failed") /\ UNCHANGED <<proc, pipes>>
    <3>1. sm' = [sm EXCEPT ![e] = "failed"]
          BY <2>2, Spawning, MachineStates DEF Fire, SetState
    <3> QED
        BY <1>5, <2>2, <3>1, MachineStates DEF spawn, Goto, Report, Machine
  <2> QED
      BY <1>5, <2>1, <2>2 DEF spawn
<1>6. CASE kill_wait(e)
      BY <1>6 DEF kill_wait, Goto, EnsureStopped
<1>7. CASE finish_drain(e)
      BY <1>7 DEF finish_drain, Goto, EnsureStopped
<1>8. CASE report(e)
      BY <1>8 DEF report, Goto, Report, Outcome, _resolve_exit, Control
<1>9. CASE audit_fails(e)
      BY <1>9 DEF audit_fails, Goto
<1>10. CASE release(e)
      BY <1>10 DEF release, Goto, Release
<1>11. CASE abandon(e)
      BY <1>11, CalmWatch DEF abandon, Goto, LeaveLoop, Watches
<1>12. CASE process_exit(e)
      BY <1>12 DEF process_exit
<1>13. CASE process_output(e)
  <2>1. PICK big \in BOOLEAN : watch' = [watch EXCEPT ![e].quiet = 0,
                                                     ![e].loud = watch[e].loud \/ big]
        BY <1>13, Zenon DEF process_output
  <2>2. PICK b : b = (watch[e].loud \/ big)
        OBVIOUS
  <2>3. b \in BOOLEAN
        BY <2>2
  <2>4. watch' = [watch EXCEPT ![e] = [watch[e] EXCEPT !.quiet = 0, !.loud = b]]
        BY <2>1, <2>2
  <2>5. watch \in [Executions -> Watches]
        BY DEF Watches
  <2>6. watch' \in [Executions -> Watches]
        BY <2>3, <2>4, <2>5, WatchOutput
  <2> QED
      BY <1>13, <2>6 DEF process_output, Watches
<1>14. CASE pipes_close(e)
      BY <1>14 DEF pipes_close
<1>15. CASE descendant(e)
      BY <1>15 DEF descendant
<1>16. CASE silence(e)
  <2>1. watch \in [Executions -> Watches]
        BY DEF Watches
  <2>2. /\ watch[e].quiet < 2
        /\ watch' = [watch EXCEPT ![e] = [watch[e] EXCEPT !.quiet = watch[e].quiet + 1]]
        BY <1>16 DEF silence
  <2>3. watch' \in [Executions -> Watches]
        BY <2>1, <2>2, WatchSilence
  <2> QED
      BY <1>16, <2>3 DEF silence, Watches
<1>17. CASE deadline(e)
      BY <1>17 DEF deadline
<1>18. CASE lease_due(e)
      BY <1>18 DEF lease_due
<1> QED
    BY <1>1, <1>2, <1>3, <1>4, <1>5, <1>6, <1>7, <1>8, <1>9, <1>10, <1>11, <1>12, <1>13, <1>14, <1>15, <1>16, <1>17, <1>18

LEMMA ControlStep ==
    ASSUME NEW e \in Executions, SupervisorInv, NEW o \in Executions,
           \/ acquire_check(e) \/ acquire_write(e) \/ execute(e) \/ start_spawn(e)
           \/ spawn(e) \/ kill_wait(e) \/ finish_drain(e) \/ report(e) \/ audit_fails(e)
           \/ release(e) \/ abandon(e) \/ process_exit(e) \/ process_output(e)
           \/ pipes_close(e) \/ descendant(e) \/ silence(e) \/ deadline(e) \/ lease_due(e)
    PROVE  Control(o)'
<1> USE DEF SupervisorInv, TypeOK, Control, Before, Stopped
<1>1. CASE acquire_check(e)
  <2>1. raced' \subseteq SUBSET Executions
        BY <1>1 DEF acquire_check, Acquiring
  <2> QED
      BY <1>1, <2>1 DEF acquire_check, Goto
<1>2. CASE acquire_write(e)
      BY <1>2 DEF acquire_write, Goto
<1>3. CASE execute(e)
      BY <1>3 DEF execute, Goto, Report
<1>4. CASE start_spawn(e)
      BY <1>4 DEF start_spawn, Goto, Fire, SetState
<1>5. CASE spawn(e)
  <2>1. CASE /\ Goto(e, {"spawning"}, "spawned")
             /\ proc' = [proc EXCEPT ![e] = "alive"] /\ UNCHANGED status
    <3>1. sm' = [sm EXCEPT ![e] = sm'[e]]
          BY <1>5 DEF spawn, Fire, SetState
    <3> QED
        BY <1>5, <2>1, <3>1 DEF spawn, Goto
  <2>2. CASE Goto(e, {"spawning"}, "refused") /\ Report(e, "failed") /\ UNCHANGED proc
    <3>1. sm' = [sm EXCEPT ![e] = sm'[e]]
          BY <1>5 DEF spawn, Fire, SetState
    <3> QED
        BY <1>5, <2>2, <3>1 DEF spawn, Goto, Report
  <2> QED
      BY <1>5, <2>1, <2>2 DEF spawn
<1>6. CASE kill_wait(e)
      BY <1>6 DEF kill_wait, Goto, EnsureStopped
<1>7. CASE finish_drain(e)
      BY <1>7 DEF finish_drain, Goto, EnsureStopped
<1>8. CASE report(e)
      BY <1>8 DEF report, Goto, Report, Outcome, _resolve_exit
<1>9. CASE audit_fails(e)
      BY <1>9 DEF audit_fails, Goto
<1>10. CASE release(e)
      BY <1>10 DEF release, Goto, Release
<1>11. CASE abandon(e)
      BY <1>11 DEF abandon, Goto, LeaveLoop
<1>12. CASE process_exit(e)
      BY <1>12 DEF process_exit
<1>13. CASE process_output(e)
      BY <1>13 DEF process_output
<1>14. CASE pipes_close(e)
      BY <1>14 DEF pipes_close
<1>15. CASE descendant(e)
      BY <1>15 DEF descendant
<1>16. CASE silence(e)
      BY <1>16 DEF silence
<1>17. CASE deadline(e)
      BY <1>17 DEF deadline
<1>18. CASE lease_due(e)
      BY <1>18 DEF lease_due
<1> QED
    BY <1>1, <1>2, <1>3, <1>4, <1>5, <1>6, <1>7, <1>8, <1>9, <1>10, <1>11, <1>12, <1>13, <1>14, <1>15, <1>16, <1>17, <1>18

LEMMA InvStep == SupervisorInv /\ [Next]_vars => SupervisorInv'
<1> SUFFICES ASSUME SupervisorInv, [Next]_vars PROVE SupervisorInv'
    OBVIOUS
<1>1. CASE UNCHANGED vars
      BY <1>1 DEF SupervisorInv, TypeOK, Control, InLoop, vars
<1>2. CASE expire_stale
  <2>1. TypeOK'
        BY <1>2 DEF SupervisorInv, TypeOK, InLoop, expire_stale
  <2>2. \A e \in Executions : Control(e)'
        BY <1>2 DEF SupervisorInv, TypeOK, Control, expire_stale
  <2> QED
      BY <2>1, <2>2 DEF SupervisorInv
<1>3. ASSUME NEW e \in Executions, Supervise(e) \/ Environment(e)
      PROVE  SupervisorInv'
  <2>1. CASE begin_loop(e) \/ wait(e) \/ after_heartbeat(e) \/ after_warning(e)
    <3>1. InLoop(e) /\ UNCHANGED <<lease, due, proc, pipes, status, raced>>
          BY <2>1 DEF InLoop, begin_loop, wait, after_heartbeat, after_warning
    <3> QED
        BY <2>1, <3>1, LoopSteps, PassStep DEF SupervisorInv
  <2>2. CASE cancel(e)
    <3>1. CASE pc[e] = "waiting" /\ Stop(e, sm[e], "cancelled", "cancelled")
          BY <2>2, <3>1, LoopSteps, PassStep DEF SupervisorInv, InLoop, cancel
    <3>2. CASE /\ \/ Goto(e, {"killing"}, "unwinding")
                  \/ Goto(e, {"spawning", "draining", "unwinding"}, "raised")
               /\ UNCHANGED <<sm, watch, why>>
      <4>1. TypeOK'
            BY <2>2, <3>2 DEF SupervisorInv, TypeOK, Places, InLoop, cancel, Goto
      <4>2. \A o \in Executions : Control(o)'
            BY <2>2, <3>2
               DEF SupervisorInv, TypeOK, Control, Before, Stopped, cancel, Goto
      <4> QED
          BY <4>1, <4>2 DEF SupervisorInv
    <3> QED
        BY <2>2, <3>1, <3>2 DEF cancel
  <2>3. CASE \/ acquire_check(e) \/ acquire_write(e) \/ execute(e) \/ start_spawn(e)
             \/ spawn(e) \/ kill_wait(e) \/ finish_drain(e) \/ report(e) \/ audit_fails(e)
             \/ release(e) \/ abandon(e) \/ process_exit(e) \/ process_output(e)
             \/ pipes_close(e) \/ descendant(e) \/ silence(e) \/ deadline(e) \/ lease_due(e)
        BY <2>3, TypeStep, ControlStep DEF SupervisorInv
  <2> QED
      BY <1>3, <2>1, <2>2, <2>3 DEF Supervise, Environment
<1> QED
    BY <1>1, <1>2, <1>3 DEF Next

LEMMA InitInv == Init => SupervisorInv
<1> SUFFICES ASSUME Init PROVE SupervisorInv
    OBVIOUS
<1>1. due \in [Executions -> BOOLEAN]
      BY Zenon DEF Init
<1>2. watch \in [Executions -> Watches]
      BY CalmWatch DEF Init
<1>3. TypeOK
      BY <1>1, <1>2, MachineStates DEF Init, TypeOK, Machine, Places, InLoop, Watches
<1>4. \A e \in Executions : Control(e)
      BY DEF Init, Control, Before, Stopped
<1> QED
    BY <1>3, <1>4 DEF SupervisorInv

LEMMA InvHolds == Spec => []SupervisorInv
BY InitInv, InvStep, PTL DEF Spec

(* The supervisor is well typed, and no event of its loop finds the state    *)
(* machine in a state without a live process.                                *)
THEOREM SupervisorTyped == Spec => []TypeOK
<1>1. SupervisorInv => TypeOK
      BY DEF SupervisorInv
<1> QED
    BY <1>1, InvHolds, PTL

(* A released lease means a process that has ended and an end that was       *)
(* reported, whatever stall, deadline, cancellation, refusal or dropped      *)
(* generator came before.                                                    *)
THEOREM ReleasedWhenStopped == Spec => []StoppedBeforeRelease
<1>1. SupervisorInv => StoppedBeforeRelease
      BY DEF SupervisorInv, StoppedBeforeRelease, Control, Stopped
<1> QED
    BY <1>1, InvHolds, PTL

(* A success is reported for no other execution than one whose process ended *)
(* by itself with exit code 0, and for every such one that is reported.      *)
THEOREM ReportsTruthful == Spec => []OutcomeTruthful
<1>1. SupervisorInv => OutcomeTruthful
      BY DEF SupervisorInv, OutcomeTruthful, Control
<1> QED
    BY <1>1, InvHolds, PTL

-----------------------------------------------------------------------------
(* Exclusion. *)

(* Executions that have a lease in force, or have seen that nobody has. *)
Claiming == Conflicts \cup Acquiring

RacedInv == \A a, b \in Claiming : a # b => Raced(a, b)

(* No other step adds a lease or begins to acquire one. *)
LEMMA OnlyAcquire ==
    ASSUME NEW e \in Executions, SupervisorInv,
           Supervise(e) \/ Environment(e), ~acquire_check(e), ~acquire_write(e)
    PROVE  /\ Conflicts' \subseteq Conflicts
           /\ \A o \in Executions : pc'[o] = "acquiring" => pc[o] = "acquiring"
           /\ UNCHANGED raced
<1>1. CASE Pass(e) /\ InLoop(e) /\ UNCHANGED <<lease, due, raced>>
  <2>1. PICK q : q # "acquiring" /\ pc' = [pc EXCEPT ![e] = q]
        BY <1>1 DEF Pass, Outcomes, LoopPlaces
  <2> QED
      BY <1>1, <2>1 DEF Conflicts, SupervisorInv, TypeOK
<1>2. CASE begin_loop(e) \/ wait(e) \/ after_heartbeat(e) \/ after_warning(e)
      BY <1>1, <1>2, LoopSteps
         DEF SupervisorInv, InLoop, begin_loop, wait, after_heartbeat, after_warning
<1>3. CASE cancel(e)
  <2>1. CASE pc[e] = "waiting" /\ Stop(e, sm[e], "cancelled", "cancelled")
        BY <1>1, <1>3, <2>1, LoopSteps DEF SupervisorInv, InLoop, cancel
  <2>2. CASE \/ Goto(e, {"killing"}, "unwinding")
             \/ Goto(e, {"spawning", "draining", "unwinding"}, "raised")
        BY <1>3, <2>2 DEF cancel, Goto, Conflicts, SupervisorInv, TypeOK
  <2> QED
      BY <1>3, <2>1, <2>2 DEF cancel
<1>4. CASE execute(e) \/ start_spawn(e) \/ spawn(e)
      BY <1>4 DEF execute, start_spawn, spawn, Goto, Conflicts, SupervisorInv, TypeOK
<1>5. CASE kill_wait(e) \/ finish_drain(e) \/ report(e) \/ audit_fails(e) \/ abandon(e)
      BY <1>5 DEF kill_wait, finish_drain, report, audit_fails, abandon, Goto, Conflicts,
                  SupervisorInv, TypeOK
<1>6. CASE release(e)
      BY <1>6 DEF release, Goto, Release, Conflicts, SupervisorInv, TypeOK
<1>7. CASE \/ process_exit(e) \/ process_output(e) \/ pipes_close(e) \/ descendant(e)
           \/ silence(e) \/ deadline(e)
      BY <1>7 DEF process_exit, process_output, pipes_close, descendant, silence, deadline,
                  Conflicts
<1>8. CASE lease_due(e)
      BY <1>8 DEF lease_due, Conflicts, SupervisorInv, TypeOK
<1> QED
    BY <1>2, <1>3, <1>4, <1>5, <1>6, <1>7, <1>8 DEF Supervise, Environment

LEMMA RacedStep ==
    ASSUME SupervisorInv, RacedInv, [Next]_vars
    PROVE  RacedInv'
<1>1. CASE UNCHANGED vars
      BY <1>1 DEF RacedInv, Raced, Claiming, Acquiring, Conflicts, vars
<1>2. CASE expire_stale
  <2>1. Conflicts' = Conflicts /\ UNCHANGED <<pc, raced>>
        BY <1>2 DEF expire_stale, Conflicts, SupervisorInv, TypeOK
  <2> QED
      BY <2>1 DEF RacedInv, Raced, Claiming, Acquiring
<1>3. ASSUME NEW e \in Executions, acquire_check(e) PROVE RacedInv'
  <2>1. Conflicts' = Conflicts /\ Conflicts = {}
        BY <1>3 DEF acquire_check, Conflicts
  <2>2. Acquiring' \subseteq Acquiring \cup {e} /\ raced' = raced \cup {{o, e} : o \in Acquiring}
        BY <1>3 DEF acquire_check, Goto, Acquiring, SupervisorInv, TypeOK
  <2>3. ASSUME NEW a \in Acquiring', NEW b \in Acquiring', a # b PROVE Raced(a, b)'
    <3>1. CASE a \in Acquiring /\ b \in Acquiring
          BY <2>2, <2>3, <3>1 DEF RacedInv, Raced, Claiming
    <3>2. CASE a = e \/ b = e
          BY <2>2, <2>3, <3>2 DEF Raced
    <3> QED
        BY <2>2, <2>3, <3>1, <3>2
  <2> QED
      BY <2>1, <2>3 DEF RacedInv, Claiming
<1>4. ASSUME NEW e \in Executions, acquire_write(e) PROVE RacedInv'
  <2>1. e \in Acquiring /\ Acquiring' \subseteq Acquiring /\ UNCHANGED raced
        BY <1>4 DEF acquire_write, Goto, Acquiring, SupervisorInv, TypeOK
  <2>2. Conflicts' \subseteq Conflicts \cup {e}
        BY <1>4 DEF acquire_write, Conflicts, SupervisorInv, TypeOK
  <2> QED
      BY <2>1, <2>2 DEF RacedInv, Raced, Claiming
<1>5. ASSUME NEW e \in Executions, Supervise(e) \/ Environment(e),
             ~acquire_check(e), ~acquire_write(e)
      PROVE  RacedInv'
  <2>1. /\ Conflicts' \subseteq Conflicts /\ Acquiring' \subseteq Acquiring
        /\ UNCHANGED raced
        BY <1>5, OnlyAcquire DEF Acquiring
  <2> QED
      BY <2>1 DEF RacedInv, Raced, Claiming
<1> QED
    BY <1>1, <1>2, <1>3, <1>4, <1>5 DEF Next

LEMMA RacedHolds == Spec => []RacedInv
<1>1. Init => RacedInv
      BY DEF Init, RacedInv, Claiming, Conflicts, Acquiring
<1> QED
    BY <1>1, RacedStep, InvHolds, PTL DEF Spec

(* Two leases of the worktree are in force only when they were acquired at   *)
(* the same time, for any number of executions, failures and expiries:       *)
(* acquire's check keeps out all that come after its write.                  *)
ConflictsRaced == \A a, b \in Conflicts : a # b => Raced(a, b)

THEOREM LeasesExclude == Spec => []ConflictsRaced
<1>1. RacedInv => ConflictsRaced
      BY DEF RacedInv, ConflictsRaced, Claiming
<1> QED
    BY <1>1, RacedHolds, PTL

(* Two processes run in the worktree at once only when the lease of one has  *)
(* run out, or the two were acquired at the same time.                       *)
THEOREM OverlapNeedsExpiry == Spec => []OverlapOnlyAfterExpiry
<1>1. SupervisorInv /\ RacedInv => OverlapOnlyAfterExpiry
  <2> SUFFICES ASSUME SupervisorInv, RacedInv,
                      NEW a \in Executions, NEW b \in Executions, a # b,
                      proc[a] = "alive", proc[b] = "alive", ~due[a], ~due[b]
               PROVE  Raced(a, b)
      BY DEF OverlapOnlyAfterExpiry
  <2>1. a \in Conflicts /\ b \in Conflicts
        BY DEF SupervisorInv, Control, Conflicts
  <2> QED
      BY <2>1 DEF RacedInv, Claiming
<1> QED
    BY <1>1, RacedHolds, InvHolds, PTL

=============================================================================

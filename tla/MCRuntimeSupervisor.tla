------------------------ MODULE MCRuntimeSupervisor -------------------------
(* Two executions that want the same worktree. *)
EXTENDS RuntimeSupervisor

(* The first is stopped when it stalls, the second only watched. *)
MCStallPolicy == [e \in Executions |-> IF e = "e1" THEN "terminate" ELSE "off"]

(* What concerns the output and the budget befalls the second, everything    *)
(* else the first.  Both race for the lease in every run.                    *)
MCFaults ==
    [e \in Executions |-> IF e = "e1" THEN FaultKinds \ {"loud", "mute"}
                                      ELSE {"loud", "mute"}]

(* The view of the run.  When an execution has ended, all that a step or a    *)
(* property reads of it again is whether its process is alive, its pipes if   *)
(* it is live, and what the invariants have to say; of a lease given back not *)
(* its expiry; and of a race nothing once one of the two has no process.      *)
Rest(e) ==
    IF pc[e] \in {"ended", "raised"}
      THEN <<pc[e], proc[e] = "alive", IF e \in Live THEN pipes[e] ELSE "any">>
      ELSE <<pc[e], sm[e], proc[e], pipes[e], watch[e], why[e], status[e]>>

Over(e) == proc[e] # "alive" /\ (proc[e] # "none" \/ pc[e] \in {"refused", "ended", "raised"})

ExecutionView ==
    <<lease, [e \in Executions |-> due[e] /\ lease[e] # "released"],
      [e \in Executions |-> Rest(e)],
      IF \E e \in Executions : Over(e) THEN {} ELSE raced,
      StoppedBeforeRelease, OutcomeTruthful>>

NoFaults == [e \in Executions |-> {}]

=============================================================================

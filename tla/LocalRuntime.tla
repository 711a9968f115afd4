---------------------------- MODULE LocalRuntime ----------------------------
(***************************************************************************)
(* RiggedLocalRuntime: requests for the local model, as single calls       *)
(* (execute), streams (stream_execute) or the turns of an agent loop, pass *)
(* through a scheduler with one slot, are generated by engine threads that *)
(* take turns at the model, and leave evidence in ledgers that keep one    *)
(* entry per operation.  shutdown drains what it knows of.  A step runs    *)
(* from one await or yield to the next: the scheduler's own locks are      *)
(* never contended, and its methods are part of the steps that call them.  *)
(***************************************************************************)
EXTENDS Naturals, FiniteSets

CONSTANTS
    Ops,       \* operations, named as they are enqueued
    MaxTurns,  \* max_tool_turns of an agent loop
    Faults     \* what may happen, of FaultKinds

FaultKinds == {"evidence", "engine", "cancel", "abandon", "unload", "slow",
               "secrets"}

None == "none"

ASSUME RuntimeAssumptions ==
    MaxTurns \in Nat \ {0} /\ Faults \subseteq FaultKinds /\ None \notin Ops

VARIABLES
    kind,      \* "none", "execute", "stream", "turn"
    pc,        \* where the call is
    sched,     \* the scheduler's state of the request
    thread,    \* its engine thread: "none", "waiting", "generating", "finished"
    item,      \* what the thread left: "none", "done", "error", "cancelled"
    flag,      \* cancel_flag
    active,    \* _active_streams
    receipt,   \* the operation's entry in the execution ledger
    terminal,  \* the operation's entry in the stream terminal ledger
    loaded,    \* a model is loaded
    loop,      \* turn of the agent loop, 0 when none is active
    turn,      \* the operation of that turn
    tooled,    \* that turn made tool proposals
    shut,      \* "up", "draining", "complete", "degraded"
    drain      \* todo, joining and timed_out of drain_active_streams

vars == <<kind, pc, sched, thread, item, flag, active, receipt, terminal, loaded,
          loop, turn, tooled, shut, drain>>

loopVars == <<loop, turn, tooled>>

shutVars == <<shut, drain>>

-----------------------------------------------------------------------------
(* The ledgers and the scheduler. *)

(* EvidenceLedger.append: an operation that has an entry keeps it. *)
Append(ledger, op, entry) == [ledger EXCEPT ![op] = IF @ = "none" THEN entry ELSE @]

(* Emission failures are logged and otherwise ignored. *)
Emit(op, entry) ==
    \/ receipt' = Append(receipt, op, entry)
    \/ "evidence" \in Faults /\ UNCHANGED receipt

Running == {op \in Ops : sched[op] = "running"}

(* complete, fail, cancel: nothing happens unless the request is running. *)
Finish(op, state) == sched' = [sched EXCEPT ![op] = IF @ = "running" THEN state ELSE @]

Goto(op, from, to) == pc[op] \in from /\ pc' = [pc EXCEPT ![op] = to]

-----------------------------------------------------------------------------
(* Admission. *)

(* enqueue, admit_next and refuse leave the queue empty.  A stream that is   *)
(* not admitted says so first: dropped there, it leaves no receipt.          *)
Submit(op, k) ==
    /\ kind[op] = "none"
    /\ kind' = [kind EXCEPT ![op] = k]
    /\ \/ /\ ~loaded \/ "secrets" \in Faults
          /\ Goto(op, {"idle"}, "ended")
          /\ \/ Emit(op, "blocked")
             \/ k = "stream" /\ "abandon" \in Faults /\ UNCHANGED receipt
          /\ UNCHANGED <<sched, thread, active, terminal>>
       \/ /\ loaded /\ Running # {}
          /\ Goto(op, {"idle"}, "ended") /\ Emit(op, "blocked")
          /\ sched' = [sched EXCEPT ![op] = "refused"]
          /\ UNCHANGED <<thread, active, terminal>>
       \/ /\ loaded /\ Running = {}
          /\ sched' = [sched EXCEPT ![op] = "running"]
          /\ thread' = [thread EXCEPT ![op] = "waiting"]
          /\ \/ /\ k # "stream" /\ Goto(op, {"idle"}, "generating")
                /\ UNCHANGED <<active, terminal>>
             \/ /\ k = "stream" /\ Goto(op, {"idle"}, "reading")
                /\ active' = active \cup {op}
                /\ \/ terminal' = Append(terminal, op, "provisional")
                   \/ "evidence" \in Faults /\ UNCHANGED terminal
          /\ UNCHANGED receipt
    /\ UNCHANGED <<item, flag, loaded>>

execute(op) == Submit(op, "execute") /\ UNCHANGED <<loopVars, shutVars>>

stream_execute(op) == Submit(op, "stream") /\ UNCHANGED <<loopVars, shutVars>>

-----------------------------------------------------------------------------
(* The engine: _gen_lock is held for a whole generation. *)

thread_start(op) ==
    /\ thread[op] = "waiting"
    /\ \A o \in Ops : thread[o] # "generating"
    /\ \/ loaded /\ thread' = [thread EXCEPT ![op] = "generating"] /\ UNCHANGED item
       \/ /\ ~loaded /\ thread' = [thread EXCEPT ![op] = "finished"]
          /\ item' = [item EXCEPT ![op] = IF kind[op] = "stream" THEN "error" ELSE "done"]
    /\ UNCHANGED <<kind, pc, sched, flag, active, receipt, terminal, loaded,
                   loopVars, shutVars>>

thread_finish(op) ==
    /\ thread[op] = "generating"
    /\ thread' = [thread EXCEPT ![op] = "finished"]
    /\ \E i \in {"done", "error", "cancelled"} :
          /\ i = "error" => "engine" \in Faults
          /\ i = "cancelled" => flag[op]
          /\ item' = [item EXCEPT ![op] = i]
    /\ UNCHANGED <<kind, pc, sched, flag, active, receipt, terminal, loaded,
                   loopVars, shutVars>>

(* unload_model waits for _gen_lock. *)
unload_model ==
    /\ "unload" \in Faults /\ loaded
    /\ \A o \in Ops : thread[o] # "generating"
    /\ loaded' = FALSE
    /\ UNCHANGED <<kind, pc, sched, thread, item, flag, active, receipt,
                   terminal, loopVars, shutVars>>

load_model ==
    /\ ~loaded /\ loaded' = TRUE
    /\ UNCHANGED <<kind, pc, sched, thread, item, flag, active, receipt,
                   terminal, loopVars, shutVars>>

-----------------------------------------------------------------------------
(* A single call. *)

Settle(op, state, entry) == Finish(op, state) /\ Emit(op, entry)

execute_return(op) ==
    /\ pc[op] = "generating" /\ thread[op] = "finished"
    /\ \/ /\ item[op] = "done" /\ Goto(op, {"generating"}, "tools")
          /\ UNCHANGED <<sched, receipt>>
       \/ /\ item[op] # "done" /\ Goto(op, {"generating"}, "ended")
          /\ Settle(op, "failed", "error")
    /\ UNCHANGED <<kind, thread, item, flag, active, terminal, loaded,
                   loopVars, shutVars>>

(* The thread is not told. *)
execute_cancelled(op) ==
    /\ "cancel" \in Faults
    /\ Goto(op, {"generating"}, "raised")
    /\ Settle(op, "failed", "cancelled")
    /\ UNCHANGED <<kind, thread, item, flag, active, terminal, loaded,
                   loopVars, shutVars>>

-----------------------------------------------------------------------------
(* A stream. *)

(* sync_q.get: a token, or how the generation ended. *)
stream_next(op) ==
    /\ pc[op] = "reading"
    /\ \/ thread[op] \in {"generating", "finished"} /\ Goto(op, {"reading"}, "yielded")
          /\ UNCHANGED active
       \/ /\ item[op] = "done" /\ Goto(op, {"reading"}, "tools")
          /\ active' = active \ {op}
       \/ item[op] = "cancelled" /\ Goto(op, {"reading"}, "tell_cancelled") /\ UNCHANGED active
       \/ item[op] = "error" /\ Goto(op, {"reading"}, "tell_error") /\ UNCHANGED active
    /\ UNCHANGED <<kind, sched, thread, item, flag, receipt, terminal, loaded,
                   loopVars, shutVars>>

stream_resume(op) ==
    /\ \/ Goto(op, {"yielded"}, "reading") /\ UNCHANGED <<sched, active, receipt>>
       \/ /\ Goto(op, {"tell_cancelled"}, "ended") /\ Settle(op, "cancelled", "cancelled")
          /\ active' = active \ {op}
       \/ /\ Goto(op, {"tell_error"}, "ended") /\ Settle(op, "failed", "error")
          /\ active' = active \ {op}
    /\ UNCHANGED <<kind, thread, item, flag, terminal, loaded, loopVars,
                   shutVars>>

(* Mutant: the scheduler is not told. *)
stream_cancelled_KeepsSlot(op) ==
    /\ "cancel" \in Faults
    /\ Goto(op, {"reading"}, "joining")
    /\ flag' = [flag EXCEPT ![op] = TRUE]
    /\ Emit(op, "cancelled")
    /\ UNCHANGED <<kind, sched, thread, item, active, terminal, loaded, loopVars, shutVars>>

stream_cancelled(op) ==
    /\ "cancel" \in Faults
    /\ Goto(op, {"reading"}, "joining")
    /\ flag' = [flag EXCEPT ![op] = TRUE]
    /\ Settle(op, "cancelled", "cancelled")
    /\ UNCHANGED <<kind, thread, item, active, terminal, loaded, loopVars,
                   shutVars>>

(* The engine is given five seconds. *)
stream_joined(op) ==
    /\ thread[op] = "finished" \/ "slow" \in Faults
    /\ Goto(op, {"joining"}, "raised")
    /\ active' = active \ {op}
    /\ UNCHANGED <<kind, sched, thread, item, flag, receipt, terminal, loaded,
                   loopVars, shutVars>>

(* Mutant: no finally clause. *)
stream_abandoned_NoFinally(op) ==
    /\ "abandon" \in Faults
    /\ Goto(op, {"yielded", "tell_cancelled", "tell_error"}, "abandoned")
    /\ UNCHANGED <<kind, sched, thread, item, flag, active, receipt, terminal, loaded,
                   loopVars, shutVars>>

(* GeneratorExit: only the finally clause runs. *)
stream_abandoned(op) ==
    /\ "abandon" \in Faults
    /\ Goto(op, {"yielded", "tell_cancelled", "tell_error"}, "abandoned")
    /\ active' = active \ {op}
    /\ UNCHANGED <<kind, sched, thread, item, flag, receipt, terminal, loaded,
                   loopVars, shutVars>>

-----------------------------------------------------------------------------
(* After the generation, for calls and streams. *)

(* Proposals are executed while a session is bound, which an agent loop      *)
(* does.  Their outcomes go to the execution ledger under the operation's    *)
(* own id, unless they were refused or cancelled: a cancellation that        *)
(* arrives here is swallowed.                                                *)
_handle_tool_proposals(op) ==
    /\ loop > 0
    /\ Goto(op, {"tools"}, "observed")
    /\ receipt' = Append(receipt, op, "tool") \/ UNCHANGED receipt
    /\ tooled' = (tooled \/ op = turn)
    /\ UNCHANGED <<kind, sched, thread, item, flag, active, terminal, loaded,
                   loop, turn, shutVars>>

(* Mutant: a stream whose receipt failed keeps its slot. *)
finish_NoFail(op) ==
    /\ Goto(op, {"tools", "observed"}, "ended")
    /\ \/ /\ receipt' = Append(receipt, op, "completed")
          /\ Finish(op, "completed")
       \/ "evidence" \in Faults /\ UNCHANGED <<receipt, sched>>
    /\ UNCHANGED <<kind, thread, item, flag, active, terminal, loaded,
                   loopVars, shutVars>>

(* Mutant: the request completes whether or not its receipt was written. *)
finish_Unrecorded(op) ==
    /\ Goto(op, {"tools", "observed"}, "ended")
    /\ Finish(op, "completed")
    /\ Emit(op, "completed")
    /\ UNCHANGED <<kind, thread, item, flag, active, terminal, loaded,
                   loopVars, shutVars>>

finish(op) ==
    /\ Goto(op, {"tools", "observed"}, "ended")
    /\ \/ /\ receipt' = Append(receipt, op, "completed")
          /\ Finish(op, "completed")
          /\ \/ kind[op] = "stream" /\ terminal' = Append(terminal, op, "terminalized")
             \/ (kind[op] # "stream" \/ "evidence" \in Faults) /\ UNCHANGED terminal
       \/ /\ "evidence" \in Faults
          /\ Finish(op, "failed") /\ UNCHANGED <<receipt, terminal>>
    /\ UNCHANGED <<kind, thread, item, flag, active, loaded, loopVars,
                   shutVars>>

cancel_generation(op) ==
    /\ "cancel" \in Faults /\ sched[op] = "running"
    /\ Finish(op, "cancelled")
    /\ UNCHANGED <<kind, pc, thread, item, flag, active, receipt, terminal,
                   loaded, loopVars, shutVars>>

-----------------------------------------------------------------------------
(* The agent loop. *)

loop_begin ==
    /\ loop = 0 /\ loop' = 1
    /\ UNCHANGED <<kind, pc, sched, thread, item, flag, active, receipt,
                   terminal, loaded, turn, tooled, shutVars>>

loop_turn(op) ==
    /\ loop > 0 /\ turn = None
    /\ turn' = op
    /\ Submit(op, "turn")
    /\ UNCHANGED <<loop, tooled, shutVars>>

(* Mutant: the loop goes on as long as there are proposals. *)
loop_next_NoLimit ==
    /\ turn # None
    /\ \/ pc[turn] \in {"ended", "raised"} /\ loop' = 0
       \/ pc[turn] = "ended" /\ tooled /\ loop' = loop + 1
    /\ turn' = None /\ tooled' = FALSE
    /\ UNCHANGED <<kind, pc, sched, thread, item, flag, active, receipt, terminal, loaded,
                   shutVars>>

(* Another turn only after tools that did not fail, and never more than      *)
(* max_tool_turns.  A turn with an error has no proposals and ends the loop  *)
(* like one that has answered.                                               *)
loop_next ==
    /\ turn # None
    /\ \/ pc[turn] \in {"ended", "raised"} /\ loop' = 0
       \/ pc[turn] = "ended" /\ tooled /\ loop < MaxTurns /\ loop' = loop + 1
    /\ turn' = None /\ tooled' = FALSE
    /\ UNCHANGED <<kind, pc, sched, thread, item, flag, active, receipt, terminal, loaded,
                   shutVars>>

-----------------------------------------------------------------------------
(* Shutdown. *)

shutdown ==
    /\ shut = "up" /\ shut' = "draining"
    /\ drain' = [drain EXCEPT !.todo = active]
    /\ UNCHANGED <<kind, pc, sched, thread, item, flag, active, receipt,
                   terminal, loaded, loopVars>>

(* The stream is cancelled in the scheduler; its cancel_flag is not set. *)
drain_stream(op) ==
    /\ op \in drain.todo /\ drain.joining = None
    /\ Finish(op, "cancelled")
    /\ active' = active \ {op}
    /\ drain' = [drain EXCEPT !.todo = @ \ {op},
                              !.joining = IF op \in active THEN op ELSE None]
    /\ UNCHANGED <<kind, pc, thread, item, flag, receipt, terminal, loaded,
                   loopVars, shut>>

drain_join ==
    /\ drain.joining # None
    /\ \/ thread[drain.joining] = "finished" /\ drain' = [drain EXCEPT !.joining = None]
       \/ /\ thread[drain.joining] # "finished" /\ "slow" \in Faults
          /\ drain' = [drain EXCEPT !.joining = None, !.timed_out = TRUE]
    /\ UNCHANGED <<kind, pc, sched, thread, item, flag, active, receipt,
                   terminal, loaded, loopVars, shut>>

(* The loop is given ten seconds; the status is the drain's alone. *)
finish_shutdown ==
    /\ shut = "draining" /\ drain.todo = {} /\ drain.joining = None
    /\ loop = 0 \/ "slow" \in Faults
    /\ shut' = IF drain.timed_out THEN "degraded" ELSE "complete"
    /\ UNCHANGED <<kind, pc, sched, thread, item, flag, active, receipt,
                   terminal, loaded, loopVars, drain>>

-----------------------------------------------------------------------------
Init ==
    /\ kind = [op \in Ops |-> "none"]
    /\ pc = [op \in Ops |-> "idle"]
    /\ sched = [op \in Ops |-> "none"]
    /\ thread = [op \in Ops |-> "none"]
    /\ item = [op \in Ops |-> "none"]
    /\ flag = [op \in Ops |-> FALSE]
    /\ active = {}
    /\ receipt = [op \in Ops |-> "none"]
    /\ terminal = [op \in Ops |-> "none"]
    /\ loaded = TRUE
    /\ loop = 0 /\ turn = None /\ tooled = FALSE
    /\ shut = "up"
    /\ drain = [todo |-> {}, joining |-> None, timed_out |-> FALSE]

(* What the event loop and the engine's threads do by themselves. *)
Progress(op) ==
    \/ thread_start(op) \/ thread_finish(op)
    \/ execute_return(op) \/ stream_next(op) \/ stream_resume(op) \/ stream_joined(op)
    \/ _handle_tool_proposals(op) \/ finish(op)

Next ==
    \/ \E op \in Ops :
          \/ execute(op) \/ stream_execute(op) \/ loop_turn(op)
          \/ Progress(op)
          \/ execute_cancelled(op) \/ stream_cancelled(op) \/ stream_abandoned(op)
          \/ cancel_generation(op) \/ drain_stream(op)
    \/ load_model \/ unload_model
    \/ loop_begin \/ loop_next
    \/ shutdown \/ drain_join \/ finish_shutdown

Spec == Init /\ [][Next]_vars

(* Threads get the lock and generations end, the event loop resumes tasks,   *)
(* consumers ask for the next token, and sync_q hands over the last item.    *)
Fairness ==
    \A op \in Ops :
        /\ SF_vars(thread_start(op))
        /\ WF_vars(thread_finish(op))
        /\ WF_vars(execute_return(op) \/ finish(op))
        /\ SF_vars(stream_next(op) /\ pc'[op] # "yielded")
        /\ WF_vars(stream_resume(op))

FairSpec == Spec /\ Fairness

-----------------------------------------------------------------------------
(* Properties. *)

(* Types. *)
TypeOK ==
    /\ kind \in [Ops -> {"none", "execute", "stream", "turn"}]
    /\ pc \in [Ops -> {"idle", "generating", "reading", "yielded", "tell_cancelled",
                       "tell_error", "joining", "tools", "observed", "ended", "raised",
                       "abandoned"}]
    /\ sched \in [Ops -> {"none", "running", "completed", "failed", "cancelled", "refused"}]
    /\ thread \in [Ops -> {"none", "waiting", "generating", "finished"}]
    /\ item \in [Ops -> {"none", "done", "error", "cancelled"}]
    /\ flag \in [Ops -> BOOLEAN]
    /\ active \subseteq Ops
    /\ receipt \in [Ops -> {"none", "completed", "cancelled", "error", "blocked", "tool"}]
    /\ terminal \in [Ops -> {"none", "provisional", "terminalized"}]
    /\ loaded \in BOOLEAN
    /\ loop \in 0..MaxTurns /\ turn \in Ops \cup {None} /\ tooled \in BOOLEAN
    /\ shut \in {"up", "draining", "complete", "degraded"}
    /\ drain \in [todo : SUBSET Ops, joining : Ops \cup {None}, timed_out : BOOLEAN]

(* A call that returned or raised has given the scheduler's slot back: on    *)
(* refusals, errors, cancellations and evidence failures alike.  (A stream   *)
(* whose consumer dropped the generator has not.)                            *)
EndedFreesSlot ==
    \A op \in Ops : pc[op] \in {"ended", "raised"} => sched[op] # "running"

(* No request counts as completed without an entry in the execution ledger,  *)
(* and none that failed for want of its receipt has a terminalized stream.   *)
CompletedHasEvidence ==
    \A op \in Ops :
        /\ sched[op] = "completed" => receipt[op] # "none"
        /\ terminal[op] = "terminalized" => receipt[op] # "none"

(* Until shutdown takes them over, the streams that still read from their    *)
(* engine threads are the active ones: shutdown misses none.                 *)
StreamsTracked ==
    shut = "up" =>
        active = {op \in Ops :
                    pc[op] \in {"reading", "yielded", "tell_cancelled", "tell_error", "joining"}}

(* The slot is freed again, unless a consumer abandoned its stream: then     *)
(* every later request is refused.                                           *)
SlotFreed ==
    \A op \in Ops : sched[op] = "running" ~> sched[op] # "running" \/ pc[op] = "abandoned"

=============================================================================

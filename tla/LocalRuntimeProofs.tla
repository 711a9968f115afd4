------------------------- MODULE LocalRuntimeProofs -------------------------
(***************************************************************************)
(* Theorems about LocalRuntime, for any operations, number of turns and    *)
(* faults.                                                                 *)
(***************************************************************************)
EXTENDS LocalRuntime, TLAPS

(* The steps of Next, one by one. *)
LEMMA Steps ==
    ASSUME NEW P, Next,
           \A op \in Ops : execute(op) \/ stream_execute(op) \/ loop_turn(op) => P,
           \A op \in Ops : thread_start(op) \/ thread_finish(op) => P,
           \A op \in Ops : execute_return(op) \/ execute_cancelled(op) => P,
           \A op \in Ops : stream_next(op) \/ stream_resume(op) => P,
           \A op \in Ops : stream_cancelled(op) \/ stream_joined(op) \/ stream_abandoned(op) => P,
           \A op \in Ops : _handle_tool_proposals(op) \/ finish(op) \/ cancel_generation(op) => P,
           \A op \in Ops : drain_stream(op) => P,
           load_model \/ unload_model \/ loop_begin \/ loop_next => P,
           shutdown \/ drain_join \/ finish_shutdown => P
    PROVE  P
BY DEF Next, Progress

(* Types. *)
LEMMA TypeStep == TypeOK /\ [Next]_vars => TypeOK'
<1> SUFFICES ASSUME TypeOK, [Next]_vars PROVE TypeOK'
    OBVIOUS
<1>1. ASSUME NEW op \in Ops, execute(op) \/ stream_execute(op) \/ loop_turn(op)
      PROVE  TypeOK'
  <2>1. PICK k \in {"execute", "stream", "turn"} : Submit(op, k)
        BY <1>1 DEF execute, stream_execute, loop_turn
  <2>2. turn' \in Ops \cup {None} /\ UNCHANGED <<loop, tooled, shut, drain>>
        BY <1>1 DEF TypeOK, execute, stream_execute, loop_turn, loopVars, shutVars
  <2>3. /\ pc' \in [Ops -> {"idle", "generating", "reading", "ended"} \cup
                          {pc[o] : o \in Ops}]
        /\ kind' \in [Ops -> {"none", "execute", "stream", "turn"}]
        BY <2>1 DEF TypeOK, Submit, Goto
  <2> QED
      BY <2>1, <2>2 DEF TypeOK, Submit, Goto, Emit, Append
<1>2. ASSUME NEW op \in Ops, thread_start(op) \/ thread_finish(op)
      PROVE  TypeOK'
      BY <1>2 DEF TypeOK, thread_start, thread_finish, loopVars, shutVars
<1>3. ASSUME NEW op \in Ops, execute_return(op) \/ execute_cancelled(op)
      PROVE  TypeOK'
      BY <1>3 DEF TypeOK, execute_return, execute_cancelled, Goto, Settle, Finish, Emit,
                  Append, loopVars, shutVars
<1>4. ASSUME NEW op \in Ops, stream_next(op) \/ stream_resume(op)
      PROVE  TypeOK'
  <2>1. CASE stream_next(op)
        BY <2>1 DEF TypeOK, stream_next, Goto, loopVars, shutVars
  <2>2. CASE stream_resume(op)
    <3>1. sched' \in [Ops -> {"none", "running", "completed", "failed", "cancelled", "refused"}]
          BY <2>2 DEF TypeOK, stream_resume, Settle, Finish
    <3>2. receipt' \in [Ops -> {"none", "completed", "cancelled", "error", "blocked", "tool"}]
          BY <2>2 DEF TypeOK, stream_resume, Settle, Emit, Append
    <3> QED
        BY <2>2, <3>1, <3>2 DEF TypeOK, stream_resume, Goto, loopVars, shutVars
  <2> QED
      BY <1>4, <2>1, <2>2
<1>5. ASSUME NEW op \in Ops,
             stream_cancelled(op) \/ stream_joined(op) \/ stream_abandoned(op)
      PROVE  TypeOK'
  <2>1. CASE stream_cancelled(op)
    <3>1. flag' \in [Ops -> BOOLEAN]
          BY <2>1, Zenon DEF TypeOK, stream_cancelled
    <3> QED
        BY <2>1, <3>1 DEF TypeOK, stream_cancelled, Goto, Settle, Finish, Emit, Append,
                          loopVars, shutVars
  <2>2. CASE stream_joined(op)
        BY <2>2 DEF TypeOK, stream_joined, Goto, loopVars, shutVars
  <2>3. CASE stream_abandoned(op)
        BY <2>3 DEF TypeOK, stream_abandoned, Goto, loopVars, shutVars
  <2> QED
      BY <1>5, <2>1, <2>2, <2>3
<1>6. ASSUME NEW op \in Ops,
             _handle_tool_proposals(op) \/ finish(op) \/ cancel_generation(op)
      PROVE  TypeOK'
  <2>1. CASE _handle_tool_proposals(op)
    <3>1. tooled' \in BOOLEAN
          BY <2>1, Zenon DEF TypeOK, _handle_tool_proposals
    <3> QED
        BY <2>1, <3>1 DEF TypeOK, _handle_tool_proposals, Goto, Append, shutVars
  <2>2. CASE finish(op)
    <3>1. /\ receipt' \in [Ops -> {"none", "completed", "cancelled", "error", "blocked", "tool"}]
          /\ terminal' \in [Ops -> {"none", "provisional", "terminalized"}]
          BY <2>2 DEF TypeOK, finish, Append
    <3>2. sched' \in [Ops -> {"none", "running", "completed", "failed", "cancelled", "refused"}]
          BY <2>2 DEF TypeOK, finish, Finish
    <3> QED
        BY <2>2, <3>1, <3>2 DEF TypeOK, finish, Goto, loopVars, shutVars
  <2>3. CASE cancel_generation(op)
        BY <2>3 DEF TypeOK, cancel_generation, Finish, loopVars, shutVars
  <2> QED
      BY <1>6, <2>1, <2>2, <2>3
<1>7. ASSUME NEW op \in Ops, drain_stream(op)
      PROVE  TypeOK'
  <2>1. /\ sched' \in [Ops -> {"none", "running", "completed", "failed", "cancelled", "refused"}]
        /\ active' \subseteq Ops
        BY <1>7 DEF TypeOK, drain_stream, Finish
  <2>2. drain' \in [todo : SUBSET Ops, joining : Ops \cup {None}, timed_out : BOOLEAN]
        BY <1>7 DEF TypeOK, drain_stream
  <2> QED
      BY <1>7, <2>1, <2>2 DEF TypeOK, drain_stream, loopVars
<1>8. ASSUME load_model \/ unload_model \/ loop_begin \/ loop_next
      PROVE  TypeOK'
  <2>1. loaded' \in BOOLEAN /\ tooled' \in BOOLEAN
        BY <1>8, Zenon DEF TypeOK, load_model, unload_model, loop_begin, loop_next, loopVars
  <2>2. CASE load_model
        BY <2>1, <2>2 DEF TypeOK, load_model, loopVars, shutVars
  <2>3. CASE unload_model
        BY <2>1, <2>3 DEF TypeOK, unload_model, loopVars, shutVars
  <2>4. CASE loop_begin
        BY <2>1, <2>4, RuntimeAssumptions DEF TypeOK, loop_begin, shutVars
  <2>5. CASE loop_next
        BY <2>1, <2>5, RuntimeAssumptions DEF TypeOK, loop_next, shutVars
  <2> QED
      BY <1>8, <2>2, <2>3, <2>4, <2>5
<1>9. ASSUME shutdown \/ drain_join \/ finish_shutdown
      PROVE  TypeOK'
  <2>1. drain' \in [todo : SUBSET Ops, joining : Ops \cup {None}, timed_out : BOOLEAN]
    <3>1. CASE shutdown
          BY <3>1 DEF TypeOK, shutdown
    <3>2. CASE drain_join
      <4>1. CASE drain' = [drain EXCEPT !.joining = None]
            BY <4>1 DEF TypeOK
      <4>2. CASE drain' = [drain EXCEPT !.joining = None, !.timed_out = TRUE]
        <5> DEFINE t == TRUE
        <5>1. t \in BOOLEAN
              OBVIOUS
        <5>2. drain' = [drain EXCEPT !.joining = None, !.timed_out = t]
              BY <4>2
        <5> HIDE DEF t
        <5> QED
            BY <5>1, <5>2 DEF TypeOK
      <4> QED
          BY <3>2, <4>1, <4>2 DEF drain_join
    <3>3. CASE finish_shutdown
          BY <3>3 DEF TypeOK, finish_shutdown
    <3> QED
        BY <1>9, <3>1, <3>2, <3>3
  <2> QED
      BY <1>9, <2>1 DEF TypeOK, shutdown, drain_join, finish_shutdown, loopVars
<1>10. CASE UNCHANGED vars
      BY <1>10 DEF TypeOK, vars
<1> QED
    BY <1>1, <1>2, <1>3, <1>4, <1>5, <1>6, <1>7, <1>8, <1>9, <1>10, Steps

-----------------------------------------------------------------------------
(* The slot.  A request that has not been submitted does not hold it, and a  *)
(* stream that was cancelled has given it up before it waits for its thread. *)
SlotInv ==
    /\ TypeOK
    /\ \A op \in Ops : pc[op] \in {"idle", "joining", "ended", "raised"} => sched[op] # "running"

LEMMA SlotStep == SlotInv /\ [Next]_vars => SlotInv'
<1> SUFFICES ASSUME SlotInv, [Next]_vars PROVE SlotInv'
    OBVIOUS
<1> DEFINE Given == \A op \in Ops : pc[op] \in {"idle", "joining", "ended", "raised"}
                                       => sched[op] # "running"
<1>0. TypeOK'
      BY TypeStep DEF SlotInv
<1> SUFFICES Given'
    BY <1>0 DEF SlotInv
<1>1. ASSUME NEW op \in Ops, execute(op) \/ stream_execute(op) \/ loop_turn(op)
      PROVE  Given'
  <2>1. PICK k : Submit(op, k)
        BY <1>1 DEF execute, stream_execute, loop_turn
  <2> QED
      BY <2>1 DEF SlotInv, TypeOK, Submit, Goto
<1>2. ASSUME NEW op \in Ops, thread_start(op) \/ thread_finish(op)
      PROVE  Given'
      BY <1>2 DEF SlotInv, thread_start, thread_finish
<1>3. ASSUME NEW op \in Ops, execute_return(op) \/ execute_cancelled(op)
      PROVE  Given'
      BY <1>3 DEF SlotInv, TypeOK, execute_return, execute_cancelled, Goto, Settle, Finish
<1>4. ASSUME NEW op \in Ops, stream_next(op) \/ stream_resume(op)
      PROVE  Given'
      BY <1>4 DEF SlotInv, TypeOK, stream_next, stream_resume, Goto, Settle, Finish
<1>5. ASSUME NEW op \in Ops,
             stream_cancelled(op) \/ stream_joined(op) \/ stream_abandoned(op)
      PROVE  Given'
      BY <1>5 DEF SlotInv, TypeOK, stream_cancelled, stream_joined, stream_abandoned,
                  Goto, Settle, Finish
<1>6. ASSUME NEW op \in Ops,
             _handle_tool_proposals(op) \/ finish(op) \/ cancel_generation(op)
      PROVE  Given'
      BY <1>6 DEF SlotInv, TypeOK, _handle_tool_proposals, finish, cancel_generation,
                  Goto, Finish
<1>7. ASSUME NEW op \in Ops, drain_stream(op)
      PROVE  Given'
      BY <1>7 DEF SlotInv, TypeOK, drain_stream, Finish
<1>8. ASSUME load_model \/ unload_model \/ loop_begin \/ loop_next
      PROVE  Given'
      BY <1>8 DEF SlotInv, load_model, unload_model, loop_begin, loop_next
<1>9. ASSUME shutdown \/ drain_join \/ finish_shutdown
      PROVE  Given'
      BY <1>9 DEF SlotInv, shutdown, drain_join, finish_shutdown
<1>10. CASE UNCHANGED vars
      BY <1>10 DEF SlotInv, vars
<1> HIDE DEF Given
<1> QED
    BY <1>1, <1>2, <1>3, <1>4, <1>5, <1>6, <1>7, <1>8, <1>9, <1>10, Steps

LEMMA InitSlot == Init => SlotInv
<1>1. SUFFICES ASSUME Init PROVE SlotInv
      OBVIOUS
<1>2. flag \in [Ops -> BOOLEAN] /\ loaded \in BOOLEAN /\ tooled \in BOOLEAN
      BY <1>1, Zenon DEF Init
<1>3. drain \in [todo : SUBSET Ops, joining : Ops \cup {None}, timed_out : BOOLEAN]
      BY <1>1 DEF Init
<1> QED
    BY <1>1, <1>2, <1>3, RuntimeAssumptions DEF Init, SlotInv, TypeOK

(* The runtime's state is well typed, and an agent loop never takes more     *)
(* than max_tool_turns turns.                                                *)
THEOREM RuntimeTyped == Spec => []TypeOK
<1>1. SlotInv => TypeOK
      BY DEF SlotInv
<1> QED
    BY <1>1, InitSlot, SlotStep, PTL DEF Spec

(* Whatever is cancelled, fails, is unloaded or abandoned, and in whatever   *)
(* order: a call that returned or raised does not hold the only slot.        *)
THEOREM SlotReturned == Spec => []EndedFreesSlot
<1>1. SlotInv => EndedFreesSlot
      BY DEF SlotInv, EndedFreesSlot
<1> QED
    BY <1>1, InitSlot, SlotStep, PTL DEF Spec

-----------------------------------------------------------------------------
(* Evidence. *)

LEMMA EvidenceStep == TypeOK /\ CompletedHasEvidence /\ [Next]_vars => CompletedHasEvidence'
<1> SUFFICES ASSUME TypeOK, CompletedHasEvidence, [Next]_vars PROVE CompletedHasEvidence'
    OBVIOUS
<1>1. ASSUME NEW op \in Ops, execute(op) \/ stream_execute(op) \/ loop_turn(op)
      PROVE  CompletedHasEvidence'
  <2>1. PICK k : Submit(op, k)
        BY <1>1 DEF execute, stream_execute, loop_turn
  <2> QED
      BY <2>1 DEF CompletedHasEvidence, TypeOK, Submit, Emit, Append
<1>2. ASSUME NEW op \in Ops, thread_start(op) \/ thread_finish(op)
      PROVE  CompletedHasEvidence'
      BY <1>2 DEF CompletedHasEvidence, thread_start, thread_finish
<1>3. ASSUME NEW op \in Ops, execute_return(op) \/ execute_cancelled(op)
      PROVE  CompletedHasEvidence'
      BY <1>3 DEF CompletedHasEvidence, TypeOK, execute_return, execute_cancelled, Settle,
                  Finish, Emit, Append
<1>4. ASSUME NEW op \in Ops, stream_next(op) \/ stream_resume(op)
      PROVE  CompletedHasEvidence'
      BY <1>4 DEF CompletedHasEvidence, TypeOK, stream_next, stream_resume, Settle,
                  Finish, Emit, Append
<1>5. ASSUME NEW op \in Ops,
             stream_cancelled(op) \/ stream_joined(op) \/ stream_abandoned(op)
      PROVE  CompletedHasEvidence'
      BY <1>5 DEF CompletedHasEvidence, TypeOK, stream_cancelled, stream_joined,
                  stream_abandoned, Settle, Finish, Emit, Append
<1>6. ASSUME NEW op \in Ops,
             _handle_tool_proposals(op) \/ finish(op) \/ cancel_generation(op)
      PROVE  CompletedHasEvidence'
      BY <1>6 DEF CompletedHasEvidence, TypeOK, _handle_tool_proposals, finish,
                  cancel_generation, Finish, Append
<1>7. ASSUME NEW op \in Ops, drain_stream(op)
      PROVE  CompletedHasEvidence'
      BY <1>7 DEF CompletedHasEvidence, TypeOK, drain_stream, Finish
<1>8. ASSUME load_model \/ unload_model \/ loop_begin \/ loop_next
      PROVE  CompletedHasEvidence'
      BY <1>8 DEF CompletedHasEvidence, load_model, unload_model, loop_begin, loop_next
<1>9. ASSUME shutdown \/ drain_join \/ finish_shutdown
      PROVE  CompletedHasEvidence'
      BY <1>9 DEF CompletedHasEvidence, shutdown, drain_join, finish_shutdown
<1>10. CASE UNCHANGED vars
      BY <1>10 DEF CompletedHasEvidence, vars
<1> QED
    BY <1>1, <1>2, <1>3, <1>4, <1>5, <1>6, <1>7, <1>8, <1>9, <1>10, Steps

(* However evidence is lost, and whoever cancels: nothing counts as          *)
(* completed, and no stream as terminalized, without an entry in the         *)
(* execution ledger.                                                         *)
THEOREM EvidenceKept == Spec => []CompletedHasEvidence
<1>1. Init => CompletedHasEvidence
      BY DEF Init, CompletedHasEvidence
<1> QED
    BY <1>1, RuntimeTyped, EvidenceStep, PTL DEF Spec

-----------------------------------------------------------------------------
(* Streams. *)

(* Only shutdown drains. *)
TrackInv == (shut = "up" => drain.todo = {}) /\ StreamsTracked

LEMMA TrackStep == TypeOK /\ TrackInv /\ [Next]_vars => TrackInv'
<1> SUFFICES ASSUME TypeOK, TrackInv, [Next]_vars PROVE TrackInv'
    OBVIOUS
<1> USE DEF TrackInv, StreamsTracked
<1>1. ASSUME NEW op \in Ops, execute(op) \/ stream_execute(op) \/ loop_turn(op)
      PROVE  TrackInv'
  <2>1. PICK k : Submit(op, k)
        BY <1>1 DEF execute, stream_execute, loop_turn
  <2>2. UNCHANGED <<shut, drain>>
        BY <1>1 DEF execute, stream_execute, loop_turn, shutVars
  <2> QED
      BY <2>1, <2>2 DEF TypeOK, Submit, Goto
<1>2. ASSUME NEW op \in Ops, thread_start(op) \/ thread_finish(op)
      PROVE  TrackInv'
      BY <1>2 DEF thread_start, thread_finish, shutVars
<1>3. ASSUME NEW op \in Ops, execute_return(op) \/ execute_cancelled(op)
      PROVE  TrackInv'
      BY <1>3 DEF TypeOK, execute_return, execute_cancelled, Goto, shutVars
<1>4. ASSUME NEW op \in Ops, stream_next(op) \/ stream_resume(op)
      PROVE  TrackInv'
      BY <1>4 DEF TypeOK, stream_next, stream_resume, Goto, shutVars
<1>5. ASSUME NEW op \in Ops,
             stream_cancelled(op) \/ stream_joined(op) \/ stream_abandoned(op)
      PROVE  TrackInv'
      BY <1>5 DEF TypeOK, stream_cancelled, stream_joined, stream_abandoned, Goto, shutVars
<1>6. ASSUME NEW op \in Ops,
             _handle_tool_proposals(op) \/ finish(op) \/ cancel_generation(op)
      PROVE  TrackInv'
      BY <1>6 DEF TypeOK, _handle_tool_proposals, finish, cancel_generation, Goto, shutVars
<1>7. ASSUME NEW op \in Ops, drain_stream(op)
      PROVE  TrackInv'
      BY <1>7 DEF drain_stream
<1>8. ASSUME load_model \/ unload_model \/ loop_begin \/ loop_next
      PROVE  TrackInv'
      BY <1>8 DEF load_model, unload_model, loop_begin, loop_next, shutVars
<1>9. ASSUME shutdown \/ drain_join \/ finish_shutdown
      PROVE  TrackInv'
      BY <1>9 DEF TypeOK, shutdown, drain_join, finish_shutdown
<1>10. CASE UNCHANGED vars
      BY <1>10 DEF vars
<1> HIDE DEF TrackInv
<1> QED
    BY <1>1, <1>2, <1>3, <1>4, <1>5, <1>6, <1>7, <1>8, <1>9, <1>10, Steps

(* Until shutdown begins, the streams that may still read from an engine     *)
(* thread are exactly those it will drain.                                   *)
THEOREM StreamsKnown == Spec => []StreamsTracked
<1>1. Init => TrackInv
      BY DEF Init, TrackInv, StreamsTracked
<1>2. TrackInv => StreamsTracked
      BY DEF TrackInv
<1> QED
    BY <1>1, <1>2, RuntimeTyped, TrackStep, PTL DEF Spec

=============================================================================

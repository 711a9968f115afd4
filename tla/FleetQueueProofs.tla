-------------------------- MODULE FleetQueueProofs --------------------------
(***************************************************************************)
(* Proofs about FleetQueue for any items, kinds, priorities and            *)
(* dependencies: types always hold; with one runner, fresh ids and no      *)
(* append that stops just before its newline, dependencies are terminal    *)
(* while an item executes; until an append is torn no item is executed     *)
(* twice; and until then, or until a runner dies, no item stays running    *)
(* that no runner works on.                                                *)
(***************************************************************************)
EXTENDS FleetQueue, FiniteSetTheorems, TLAPS

Terminal == {"completed", "failed", "cancelled", "superseded"}

(* The documented use: one runner, ids that are not enqueued again. *)
OneRunner == \A r, q \in Runners : r = q

(* From its selection on, an item's dependencies are terminal, and it is     *)
(* none of them: it was queued, so not terminal, when it was selected.       *)
DependenciesHeld ==
    /\ tail # "unterminated"
    /\ \A r \in Runners : run[r] # Idle =>
          \A d \in run[r].deps :
              d # run[r].item /\ d \in DOMAIN items /\ items[d].status \in Terminal

(* An executed item is not queued any more, and an item on its way to the    *)
(* executor was not there yet.                                               *)
OnceInv ==
    /\ tail = "clean"
    /\ \A i \in Ids : execs[i] \in {0, 1}
    /\ \A i \in Ids : execs[i] = 1 => i \in DOMAIN items /\ items[i].status # "queued"
    /\ \A r \in Runners : run[r].at = "selected" =>
          execs[run[r].item] = 0 /\ run[r].item \in DOMAIN items
    /\ \A r \in Runners : run[r].at = "running" =>
          /\ execs[run[r].item] = 0
          /\ run[r].item \in DOMAIN items /\ items[run[r].item].status # "queued"

-----------------------------------------------------------------------------
(* Types. *)

Typed(f) == f \in [DOMAIN f -> ItemType] /\ DOMAIN f \subseteq Ids

FileTyped ==
    /\ Typed(items) /\ Typed(kept)
    /\ tail \in {"clean", "partial", "unterminated"}
    /\ tail # "unterminated" => kept = items
    /\ mishaps \subseteq {"torn", "died"}

LEMMA MarkStatuses ==
  /\ {"queued", "running", "completed", "failed", "blocked", "cancelled"} \subseteq Statuses
  /\ Terminal \subseteq Statuses
  BY DEF Statuses, _TERMINAL_STATUSES, Terminal

LEMMA StatusTyped ==
  ASSUME TypeOK, NEW i \in DOMAIN items, NEW status \in Statuses
  PROVE  /\ Typed(WithStatus(i, status))
         /\ DOMAIN WithStatus(i, status) = DOMAIN items
         /\ \A j \in DOMAIN items : WithStatus(i, status)[j].status =
                                       IF j = i THEN status ELSE items[j].status
<1>1. WithStatus(i, status) \in [DOMAIN items -> ItemType]
  BY DEF WithStatus, TypeOK, ItemType
<1>2. \A j \in DOMAIN items : WithStatus(i, status)[j].status =
                                IF j = i THEN status ELSE items[j].status
  BY DEF WithStatus, TypeOK, ItemType
<1>3. QED
  BY <1>1, <1>2 DEF Typed, TypeOK

(* What an append makes of the file, torn or not: the new items, or those of *)
(* the lines before; and nothing else unless the last line is unterminated.  *)
LEMMA AppendTyped ==
  ASSUME TypeOK, NEW new, Typed(new), Append(new) \/ AppendTorn(new)
  PROVE  /\ FileTyped' /\ mishaps \subseteq mishaps'
         /\ tail # "unterminated" => items' = new \/ items' = items
         /\ "unterminated" \notin Faults => tail' # "unterminated"
         /\ "torn" \notin mishaps' /\ tail = "clean" => tail' = "clean" /\ items' = new
<1>1. CASE Append(new)
  BY <1>1 DEF Append, FileTyped, Typed, TypeOK
<1>2. CASE AppendTorn(new)
  <2>1. PICK fault \in Faults :
          /\ items' = IF tail = "clean" /\ fault = "unterminated" THEN new ELSE kept
          /\ tail' = IF tail = "clean" THEN fault ELSE "partial"
          /\ kept' = kept /\ mishaps' = mishaps \cup {"torn"}
    BY <1>2 DEF AppendTorn
  <2>2. fault \in {"partial", "unterminated"}
    BY QueueAssumptions
  <2>3. QED
    BY <2>1, <2>2 DEF FileTyped, Typed, TypeOK
<1>3. QED
  BY <1>1, <1>2

(* Marking changes the status of one item of the queue, or nothing. *)
LEMMA MarkTyped ==
  ASSUME TypeOK, NEW i, NEW status \in Statuses,
         Mark(i, status) \/ MarkTorn(i, status)
  PROVE  /\ FileTyped' /\ mishaps \subseteq mishaps'
         /\ tail # "unterminated" =>
               /\ DOMAIN items' = DOMAIN items
               /\ \A j \in DOMAIN items \ {i} : items'[j].status = items[j].status
         /\ "unterminated" \notin Faults /\ tail # "unterminated"
               => tail' # "unterminated"
         /\ "torn" \notin mishaps' /\ tail = "clean" /\ i \in DOMAIN items
               => tail' = "clean" /\ items'[i].status = status
<1>1. CASE UNCHANGED file /\ ~Changes(i, status)
  BY <1>1 DEF file, Changes, FileTyped, Typed, TypeOK
<1>2. CASE Changes(i, status)
  <2>1. i \in DOMAIN items
    BY <1>2 DEF Changes
  <2>2. Append(WithStatus(i, status)) \/ AppendTorn(WithStatus(i, status))
    BY <1>2 DEF Mark, MarkTorn
  <2>3. QED
    BY <2>1, <2>2, StatusTyped, AppendTyped
<1>3. QED
  BY <1>1, <1>2 DEF Mark, MarkTorn

(* What enqueueing changes; a fresh id leaves the other items alone. *)
LEMMA EnqueueTyped ==
  ASSUME TypeOK, NEW i \in Ids, NEW kind \in Kinds, NEW priority \in Priorities,
         NEW deps \in DepSets, enqueue_item(i, kind, priority, deps)
  PROVE  /\ TypeOK' /\ UNCHANGED <<run, execs>> /\ mishaps \subseteq mishaps'
         /\ tail # "unterminated" /\ ~Reuse =>
               /\ DOMAIN items \subseteq DOMAIN items'
               /\ \A j \in DOMAIN items : items'[j] = items[j]
         /\ "unterminated" \notin Faults => tail' # "unterminated"
         /\ "torn" \notin mishaps' /\ tail = "clean" => tail' = "clean"
<1> DEFINE item == NewItem(i, kind, priority, deps)
           new  == WithItem(i, item)
<1>1. item \in ItemType
  <2>1. IsFiniteSet(DOMAIN items \ {i})
    BY QueueAssumptions, FS_Subset DEF TypeOK
  <2>2. Cardinality(DOMAIN items \ {i}) \in Nat
    BY <2>1, FS_CardinalityType
  <2>3. QED
    BY <2>2, MarkStatuses DEF NewItem, ItemType
<1>2. \A j \in DOMAIN items : Aged(j, i) \in ItemType
  BY DEF Aged, TypeOK, ItemType
<1>3. DOMAIN new = DOMAIN items \cup {i}
  BY DEF WithItem
<1>4. Typed(new)
  <2>1. new \in [DOMAIN items \cup {i} -> ItemType]
    BY <1>1, <1>2 DEF WithItem
  <2>2. QED
    BY <1>3, <2>1 DEF Typed, TypeOK
<1>5. i \notin DOMAIN items => \A j \in DOMAIN items : new[j] = items[j]
  BY DEF WithItem, Aged
<1>6. /\ Append(new) \/ AppendTorn(new)
      /\ Reuse \/ i \notin DOMAIN items
      /\ UNCHANGED <<run, execs>>
  BY DEF enqueue_item
<1>7. /\ FileTyped' /\ mishaps \subseteq mishaps'
      /\ tail # "unterminated" => items' = new \/ items' = items
      /\ "unterminated" \notin Faults => tail' # "unterminated"
      /\ "torn" \notin mishaps' /\ tail = "clean" => tail' = "clean"
  <2> HIDE DEF new
  <2>1. QED
    BY <1>4, <1>6, AppendTyped
<1>8. TypeOK'
  BY <1>6, <1>7 DEF TypeOK, FileTyped, Typed, RunType, Idle
<1> HIDE DEF new
<1>9. QED
  BY <1>3, <1>5, <1>6, <1>7, <1>8

LEMMA CancelTyped ==
  ASSUME TypeOK, NEW i \in Ids, cancel_item(i)
  PROVE  /\ TypeOK' /\ UNCHANGED <<run, execs>> /\ mishaps \subseteq mishaps'
         /\ tail # "unterminated" =>
               /\ DOMAIN items' = DOMAIN items
               /\ \A j \in DOMAIN items :
                     items'[j].status \in {items[j].status, "cancelled"}
         /\ "unterminated" \notin Faults => tail' # "unterminated"
         /\ "torn" \notin mishaps' /\ tail = "clean" => tail' = "clean"
<1>1. /\ i \in DOMAIN items /\ UNCHANGED <<run, execs>>
      /\ Append(WithStatus(i, "cancelled")) \/ AppendTorn(WithStatus(i, "cancelled"))
  BY DEF cancel_item
<1>2. /\ Typed(WithStatus(i, "cancelled"))
      /\ DOMAIN WithStatus(i, "cancelled") = DOMAIN items
      /\ \A j \in DOMAIN items : WithStatus(i, "cancelled")[j].status =
                                    IF j = i THEN "cancelled" ELSE items[j].status
  BY <1>1, StatusTyped, MarkStatuses
<1>3. /\ FileTyped' /\ mishaps \subseteq mishaps'
      /\ tail # "unterminated" => items' = WithStatus(i, "cancelled") \/ items' = items
      /\ "unterminated" \notin Faults => tail' # "unterminated"
      /\ "torn" \notin mishaps' /\ tail = "clean" => tail' = "clean"
  BY <1>1, <1>2, AppendTyped
<1>4. TypeOK'
  BY <1>1, <1>3 DEF TypeOK, FileTyped, Typed, RunType, Idle
<1>5. QED
  BY <1>1, <1>2, <1>3, <1>4

LEMMA SelectTyped ==
  ASSUME TypeOK, NEW r \in Runners, select(r)
  PROVE  TypeOK' /\ mishaps' = mishaps
<1>1. PICK i \in Eligible : run' = [run EXCEPT ![r] = Selected(i)]
  BY DEF select, next_runnable_item
<1>2. i \in Ids /\ items[i].kind \in Kinds /\ items[i].depends_on \in DepSets
  BY <1>1 DEF Eligible, TypeOK, ItemType
<1>3. Selected(i) \in RunType
  BY <1>2 DEF RunType, Selected
<1>4. run' \in [Runners -> RunType]
  BY <1>1, <1>3 DEF TypeOK
<1>5. QED
  BY <1>4 DEF select, file, TypeOK, RunType, Idle

Busy == [at : {"selected", "running", "executing"}, item : Ids, kind : Kinds, deps : DepSets]

(* A runner that is not idle has read an item. *)
LEMMA RunnerItem ==
  ASSUME TypeOK, NEW r \in Runners, run[r].at # "idle"
  PROVE  run[r] # Idle /\ run[r] \in Busy
  BY DEF TypeOK, RunType, Idle, Busy

(* Where a runner goes: on with its item, or back to idle. *)
LEMMA GotoTyped ==
  ASSUME TypeOK, NEW r \in Runners, run[r].at # "idle",
         NEW at \in {"running", "executing"}, Goto(r, at) \/ Return(r)
  PROVE  /\ run' \in [Runners -> RunType]
         /\ \A q \in Runners \ {r} : run'[q] = run[q]
         /\ Return(r) => run'[r] = Idle
         /\ Goto(r, at) => /\ run'[r] # Idle /\ run'[r].at = at
                           /\ run'[r].item = run[r].item /\ run'[r].deps = run[r].deps
<1>1. run[r] \in Busy
  BY RunnerItem
<1>2. /\ [run[r] EXCEPT !.at = at] \in Busy
      /\ [run[r] EXCEPT !.at = at].at = at
      /\ [run[r] EXCEPT !.at = at].item = run[r].item
      /\ [run[r] EXCEPT !.at = at].deps = run[r].deps
  BY <1>1 DEF Busy
<1>3. Idle.at = "idle" /\ Idle \in RunType /\ Busy \subseteq RunType
  BY DEF RunType, Busy, Idle
<1>4. CASE Goto(r, at)
  <2>1. run' = [run EXCEPT ![r] = [run[r] EXCEPT !.at = at]]
    BY <1>4 DEF Goto
  <2>2. run'[r] = [run[r] EXCEPT !.at = at]
    BY <2>1 DEF TypeOK
  <2>3. Return(r) => FALSE
    BY <1>2, <1>3, <2>2 DEF Return, TypeOK
  <2>4. QED
    BY <1>2, <1>3, <2>1, <2>2, <2>3 DEF TypeOK
<1>5. CASE Return(r) /\ ~Goto(r, at)
  BY <1>3, <1>5 DEF TypeOK, Return
<1>6. QED
  BY <1>4, <1>5

LEMMA FinalStatuses ==
  ASSUME NEW kind \in Kinds, kind # "exec"
  PROVE  FinalStatus[kind] \in {"completed", "failed", "blocked"}
<1>1. kind \in {"note", "unknown_tool", "unsupported"}
  BY QueueAssumptions DEF Dispositions
<1>2. /\ FinalStatus["note"] = "completed" /\ FinalStatus["unknown_tool"] = "failed"
      /\ FinalStatus["unsupported"] = "blocked"
  BY DEF FinalStatus
<1>3. QED
  BY <1>1, <1>2

(* A runner's append: types hold, and only its item's status may change.     *)
LEMMA StepTyped ==
  ASSUME TypeOK, NEW r \in Runners, mark_running(r) \/ dispatch(r) \/ finish(r) \/ crash(r)
  PROVE  /\ TypeOK' /\ mishaps \subseteq mishaps'
         /\ run[r].at # "idle"
         /\ run'[r] = Idle \/ (/\ run'[r] # Idle /\ run'[r].item = run[r].item
                                /\ run'[r].deps = run[r].deps)
         /\ tail # "unterminated" =>
               /\ DOMAIN items' = DOMAIN items
               /\ \A j \in DOMAIN items \ {run[r].item} : items'[j].status = items[j].status
         /\ "unterminated" \notin Faults /\ tail # "unterminated"
               => tail' # "unterminated"
<1> DEFINE i == run[r].item
<1>0. run[r].at # "idle"
  BY DEF mark_running, dispatch, finish, crash
<1>1. i \in Ids /\ run[r].kind \in Kinds
  BY <1>0, RunnerItem DEF Busy
<1>2. /\ FileTyped' /\ mishaps \subseteq mishaps'
      /\ tail # "unterminated" =>
            /\ DOMAIN items' = DOMAIN items
            /\ \A j \in DOMAIN items \ {i} : items'[j].status = items[j].status
      /\ "unterminated" \notin Faults /\ tail # "unterminated" => tail' # "unterminated"
  <2>1. CASE \E status \in Statuses : Mark(i, status) \/ MarkTorn(i, status)
    BY <2>1, MarkTyped
  <2>2. CASE UNCHANGED <<items, kept, tail>> /\ mishaps' \in {mishaps, mishaps \cup {"died"}}
    BY <2>2 DEF TypeOK, FileTyped, Typed
  <2>3. FinalStatus[run[r].kind] \in Statuses \/ run[r].kind = "exec"
    BY <1>1, FinalStatuses, MarkStatuses
  <2>4. mark_running(r) => \E status \in Statuses : Mark(i, status) \/ MarkTorn(i, status)
    BY MarkStatuses DEF mark_running
  <2>5. dispatch(r) => \/ UNCHANGED file
                      \/ \E status \in Statuses : Mark(i, status) \/ MarkTorn(i, status)
    BY <2>3 DEF dispatch
  <2>6. finish(r) => \E status \in Statuses : Mark(i, status) \/ MarkTorn(i, status)
    BY MarkStatuses DEF finish
  <2>7. crash(r) => UNCHANGED <<items, kept, tail>> /\ mishaps' = mishaps \cup {"died"}
    BY DEF crash
  <2>8. UNCHANGED file => UNCHANGED <<items, kept, tail>> /\ mishaps' = mishaps
    BY DEF file
  <2>9. QED
    BY <2>1, <2>2, <2>4, <2>5, <2>6, <2>7, <2>8
<1>3. \E at \in {"running", "executing"} : Goto(r, at) \/ Return(r)
  BY DEF mark_running, dispatch, finish, crash
<1>4. /\ run' \in [Runners -> RunType]
      /\ run'[r] = Idle \/ (/\ run'[r] # Idle /\ run'[r].item = i
                             /\ run'[r].deps = run[r].deps)
  BY <1>0, <1>3, GotoTyped
<1>5. execs' \in [Ids -> Nat]
  BY <1>1 DEF mark_running, dispatch, finish, crash, TypeOK
<1>6. TypeOK'
  BY <1>2, <1>4, <1>5 DEF TypeOK, FileTyped, Typed, RunType, Idle
<1>8. QED
  BY <1>0, <1>2, <1>4, <1>6

LEMMA NextTyped == ASSUME TypeOK, [Next]_vars PROVE TypeOK'
<1>1. ASSUME NEW i \in Ids, NEW kind \in Kinds, NEW priority \in Priorities,
             NEW deps \in DepSets, enqueue_item(i, kind, priority, deps)
      PROVE  TypeOK'
  BY <1>1, EnqueueTyped
<1>2. ASSUME NEW i \in Ids, cancel_item(i) PROVE TypeOK'
  BY <1>2, CancelTyped
<1>3. ASSUME NEW r \in Runners, Step(r) \/ crash(r) PROVE TypeOK'
  BY <1>3, SelectTyped, StepTyped DEF Step
<1>4. CASE UNCHANGED vars
  BY <1>4 DEF vars, TypeOK, RunType, Idle
<1>5. QED
  BY <1>1, <1>2, <1>3, <1>4 DEF Next

LEMMA InitTyped == Init => TypeOK
<1> SUFFICES ASSUME Init PROVE TypeOK
  OBVIOUS
<1>1. DOMAIN items = {} /\ items \in [DOMAIN items -> ItemType]
  BY DEF Init
<1>2. QED
  BY <1>1 DEF Init, TypeOK, RunType

(* The type invariant of the queue and its runners holds for every set of    *)
(* items and runners, whatever crashes and however appends are torn          *)
(* (FleetQueue._apply_event, FleetQueueRunner.run_once).                     *)
THEOREM QueueTyped == Spec => []TypeOK
<1>1. TypeOK /\ [Next]_vars => TypeOK'
  BY NextTyped
<1>2. QED
  BY <1>1, InitTyped, PTL DEF Spec

-----------------------------------------------------------------------------
(* Dependencies. *)

LEMMA NextHolds ==
  ASSUME OneRunner, ~Reuse, "unterminated" \notin Faults,
         TypeOK, DependenciesHeld, [Next]_vars
  PROVE  DependenciesHeld'
<1> tail # "unterminated"
  BY DEF DependenciesHeld
<1>1. ASSUME NEW i \in Ids, NEW kind \in Kinds, NEW priority \in Priorities,
             NEW deps \in DepSets, enqueue_item(i, kind, priority, deps)
      PROVE  DependenciesHeld'
  BY <1>1, EnqueueTyped DEF DependenciesHeld
<1>2. ASSUME NEW i \in Ids, cancel_item(i) PROVE DependenciesHeld'
  BY <1>2, CancelTyped DEF DependenciesHeld, Terminal
<1>3. ASSUME NEW r \in Runners, select(r) PROVE DependenciesHeld'
  <2>1. PICK i \in Eligible : run' = [run EXCEPT ![r] = Selected(i)]
    BY <1>3 DEF select, next_runnable_item
  <2>2. \A q \in Runners : run'[q].item = i /\ run'[q].deps = items[i].depends_on
    BY <2>1 DEF TypeOK, Selected, OneRunner
  <2>3. items' = items /\ tail' = tail
    BY <1>3 DEF select, file
  <2>4. \A d \in items[i].depends_on : d # i /\ d \in DOMAIN items /\ items[d].status \in Terminal
    BY <2>1 DEF Eligible, DependencyMet, _TERMINAL_STATUSES, Terminal
  <2>5. QED
    BY <2>2, <2>3, <2>4 DEF DependenciesHeld
<1>4. ASSUME NEW r \in Runners, mark_running(r) \/ dispatch(r) \/ finish(r) \/ crash(r)
      PROVE  DependenciesHeld'
  <2>1. /\ DOMAIN items' = DOMAIN items /\ run[r].at # "idle" /\ tail' # "unterminated"
        /\ run'[r] = Idle \/ (run'[r].item = run[r].item /\ run'[r].deps = run[r].deps)
        /\ \A j \in DOMAIN items \ {run[r].item} : items'[j].status = items[j].status
    BY <1>4, StepTyped
  <2>2. run[r] # Idle
    BY <2>1, RunnerItem
  <2>3. QED
    BY <2>1, <2>2 DEF DependenciesHeld, OneRunner
<1>5. CASE UNCHANGED vars
  BY <1>5 DEF vars, DependenciesHeld
<1>6. QED
  BY <1>1, <1>2, <1>3, <1>4, <1>5 DEF Next, Step

(* While the one runner executes an item, its dependencies are in the queue  *)
(* and terminal, whatever is cancelled, enqueued, cut off halfway or crashes *)
(* in between (FleetQueue.next_runnable_item against                         *)
(* FleetQueueRunner.run_once).                                               *)
THEOREM DependenciesFirst ==
  ASSUME OneRunner, ~Reuse, "unterminated" \notin Faults
  PROVE  Spec => []RunsAfterDependencies
<1>1. Init => TypeOK /\ DependenciesHeld
  BY InitTyped DEF Init, DependenciesHeld
<1>2. TypeOK /\ DependenciesHeld /\ [Next]_vars => TypeOK' /\ DependenciesHeld'
  BY NextTyped, NextHolds
<1>3. TypeOK /\ DependenciesHeld => RunsAfterDependencies
  BY RunnerItem DEF DependenciesHeld, RunsAfterDependencies, Terminal
<1>4. QED
  BY <1>1, <1>2, <1>3, PTL DEF Spec

-----------------------------------------------------------------------------
(* Executions. *)

LEMMA NextOnce ==
  ASSUME OneRunner, ~Reuse, "torn" \notin mishaps', TypeOK, OnceInv, [Next]_vars
  PROVE  OnceInv'
<1> tail = "clean"
  BY DEF OnceInv
<1>1. ASSUME NEW i \in Ids, NEW kind \in Kinds, NEW priority \in Priorities,
             NEW deps \in DepSets, enqueue_item(i, kind, priority, deps)
      PROVE  OnceInv'
  BY <1>1, EnqueueTyped DEF OnceInv
<1>2. ASSUME NEW i \in Ids, cancel_item(i) PROVE OnceInv'
  BY <1>2, CancelTyped DEF OnceInv
<1>3. ASSUME NEW r \in Runners, select(r) PROVE OnceInv'
  <2>1. PICK i \in Eligible : run' = [run EXCEPT ![r] = Selected(i)]
    BY <1>3 DEF select, next_runnable_item
  <2>2. i \in DOMAIN items /\ i \in Ids /\ execs[i] = 0
    BY <2>1 DEF Eligible, OnceInv, TypeOK
  <2>3. run'[r].at = "selected" /\ run'[r].item = i /\ \A q \in Runners : q = r
    BY <2>1 DEF TypeOK, OneRunner, Selected
  <2>4. UNCHANGED <<items, tail, execs>>
    BY <1>3 DEF select, file
  <2>5. QED
    BY <2>2, <2>3, <2>4 DEF OnceInv
<1>4. ASSUME NEW r \in Runners, mark_running(r) PROVE OnceInv'
  <2> DEFINE i == run[r].item
  <2>1. run[r].at = "selected" /\ i \in DOMAIN items /\ execs[i] = 0
    BY <1>4 DEF mark_running, OnceInv
  <2>2. Mark(i, "running") /\ Goto(r, "running") /\ execs' = execs
    BY <1>4 DEF mark_running, MarkTorn, AppendTorn
  <2>3. /\ items'[i].status = "running" /\ tail' = "clean"
        /\ DOMAIN items' = DOMAIN items
        /\ \A j \in DOMAIN items \ {i} : items'[j].status = items[j].status
    BY <2>1, <2>2, MarkTyped, MarkStatuses
  <2>4. run'[r].at = "running" /\ run'[r].item = i /\ \A q \in Runners : q = r
    BY <2>1, <2>2, GotoTyped DEF OneRunner
  <2>5. QED
    BY <2>1, <2>2, <2>3, <2>4 DEF OnceInv
<1>5. ASSUME NEW r \in Runners, dispatch(r), run[r].kind = "exec" PROVE OnceInv'
  <2> DEFINE i == run[r].item
  <2>1. /\ run[r].at = "running" /\ Goto(r, "executing")
        /\ execs' = [execs EXCEPT ![i] = IF @ < MaxExecs THEN @ + 1 ELSE @]
        /\ UNCHANGED file
    BY <1>5 DEF dispatch
  <2>2. i \in Ids /\ i \in DOMAIN items /\ execs[i] = 0 /\ items[i].status # "queued"
    BY <2>1, RunnerItem DEF OnceInv, Busy
  <2>3. execs'[i] = 1 /\ \A j \in Ids \ {i} : execs'[j] = execs[j]
    BY <2>1, <2>2, QueueAssumptions DEF TypeOK
  <2>4. run'[r].at = "executing" /\ \A q \in Runners : q = r
    BY <2>1, GotoTyped DEF OneRunner
  <2>5. items' = items /\ tail' = tail
    BY <2>1 DEF file
  <2>6. QED
    BY <2>2, <2>3, <2>4, <2>5 DEF OnceInv
<1>6. ASSUME NEW r \in Runners,
             (dispatch(r) /\ run[r].kind # "exec") \/ finish(r) \/ crash(r)
      PROVE  OnceInv'
  <2> DEFINE i == run[r].item
             Final == {"completed", "failed", "blocked"}
  <2>1. Return(r) /\ execs' = execs /\ run[r].at # "idle"
    BY <1>6 DEF dispatch, finish, crash
  <2>2. run'[r].at = "idle" /\ \A q \in Runners : q = r
    BY <2>1 DEF Return, Idle, TypeOK, OneRunner
  <2>3. run[r].kind \in Kinds
    BY <2>1, RunnerItem DEF Busy
  <2>4. \/ UNCHANGED <<items, kept, tail>>
        \/ \E status \in Final : Mark(i, status) \/ MarkTorn(i, status)
    <3>1. dispatch(r) /\ run[r].kind # "exec" =>
            \E status \in Final : Mark(i, status) \/ MarkTorn(i, status)
      BY <2>3, FinalStatuses DEF dispatch
    <3>2. finish(r) => \E status \in Final : Mark(i, status) \/ MarkTorn(i, status)
      BY DEF finish
    <3>3. crash(r) => UNCHANGED <<items, kept, tail>>
      BY DEF crash
    <3>4. QED
      BY <1>6, <3>1, <3>2, <3>3
  <2>5. /\ tail' = "clean" /\ DOMAIN items' = DOMAIN items
        /\ \A j \in DOMAIN items : items'[j].status \in {items[j].status} \cup Final
    <3>1. CASE UNCHANGED <<items, kept, tail>>
      BY <3>1
    <3>2. CASE \E status \in Final : Mark(i, status) \/ MarkTorn(i, status)
      <4>1. PICK status \in Final : Mark(i, status) \/ MarkTorn(i, status)
        BY <3>2
      <4>2. status \in Statuses
        BY MarkStatuses
      <4>3. CASE i \in DOMAIN items
        BY <4>1, <4>2, <4>3, MarkTyped
      <4>4. CASE i \notin DOMAIN items
        BY <4>1, <4>4 DEF Mark, MarkTorn, Changes, file
      <4>5. QED
        BY <4>3, <4>4
    <3>3. QED
      BY <2>4, <3>1, <3>2
  <2>6. QED
    BY <2>1, <2>2, <2>5 DEF OnceInv
<1>7. CASE UNCHANGED vars
  BY <1>7 DEF vars, OnceInv
<1>8. QED
  BY <1>1, <1>2, <1>3, <1>4, <1>5, <1>6, <1>7 DEF Next, Step

(* What went wrong is remembered. *)
LEMMA MishapsGrow == ASSUME TypeOK, [Next]_vars PROVE mishaps \subseteq mishaps'
<1>1. CASE UNCHANGED vars
  BY <1>1 DEF vars
<1>2. QED
  BY <1>1, EnqueueTyped, CancelTyped, SelectTyped, StepTyped DEF Next, Step

Once == "torn" \notin mishaps => OnceInv

(* With one runner and fresh ids no item reaches the executor twice before   *)
(* an append is torn, in spite of crashes and of cancellations at any point  *)
(* (FleetQueueRunner.run_once marks an item running before it dispatches it, *)
(* and FleetQueue never makes it queued again).                              *)
THEOREM NoSecondExecution ==
  ASSUME OneRunner, ~Reuse PROVE Spec => []ExecutedOnce
<1>1. Init => TypeOK /\ Once
  BY InitTyped DEF Init, Once, OnceInv, Idle
<1>2. TypeOK /\ Once /\ [Next]_vars => TypeOK' /\ Once'
  BY NextTyped, NextOnce, MishapsGrow DEF Once
<1>3. TypeOK /\ Once => ExecutedOnce
  BY DEF Once, OnceInv, ExecutedOnce
<1>4. QED
  BY <1>1, <1>2, <1>3, PTL DEF Spec

-----------------------------------------------------------------------------
(* Running items. *)

(* Every running item is being worked on, and the file can be appended to. *)
Owned ==
    /\ tail = "clean"
    /\ \A i \in DOMAIN items : items[i].status = "running" =>
          \E r \in Runners : run[r].at # "idle" /\ run[r].item = i

LEMMA NextOwned ==
  ASSUME mishaps' = {}, TypeOK, Owned, [Next]_vars
  PROVE  Owned'
<1> tail = "clean"
  BY DEF Owned
<1>1. ASSUME NEW i \in Ids, NEW kind \in Kinds, NEW priority \in Priorities,
             NEW deps \in DepSets, enqueue_item(i, kind, priority, deps)
      PROVE  Owned'
  <2>1. /\ UNCHANGED run /\ tail' = "clean"
        /\ Append(WithItem(i, NewItem(i, kind, priority, deps)))
    BY <1>1 DEF enqueue_item, AppendTorn, Append
  <2>2. /\ DOMAIN items' = DOMAIN items \cup {i}
        /\ items'[i].status = "queued"
        /\ \A j \in DOMAIN items \ {i} : items'[j] = Aged(j, i)
    BY <2>1 DEF Append, WithItem, NewItem
  <2>3. \A j \in DOMAIN items \ {i} : items'[j].status = items[j].status
    BY <2>2 DEF Aged, TypeOK, ItemType
  <2>4. QED
    BY <2>1, <2>2, <2>3 DEF Owned
<1>2. ASSUME NEW i \in Ids, cancel_item(i) PROVE Owned'
  BY <1>2, CancelTyped DEF Owned
<1>3. ASSUME NEW r \in Runners, select(r) PROVE Owned'
  <2>1. PICK i \in Eligible : run' = [run EXCEPT ![r] = Selected(i)]
    BY <1>3 DEF select, next_runnable_item
  <2>2. run[r].at = "idle" /\ UNCHANGED <<items, tail>>
    BY <1>3 DEF select, file
  <2>3. \A q \in Runners : run[q].at # "idle" => run'[q] = run[q]
    BY <2>1, <2>2 DEF TypeOK
  <2>4. QED
    BY <2>2, <2>3 DEF Owned
<1>4. ASSUME NEW r \in Runners, mark_running(r) PROVE Owned'
  <2> DEFINE i == run[r].item
  <2>1. /\ run[r].at # "idle" /\ Mark(i, "running") /\ Goto(r, "running")
    BY <1>4 DEF mark_running, MarkTorn, AppendTorn
  <2>2. /\ tail' = "clean" /\ DOMAIN items' = DOMAIN items
        /\ \A j \in DOMAIN items \ {i} : items'[j].status = items[j].status
    <3>1. CASE i \in DOMAIN items
      BY <2>1, <3>1, MarkTyped, MarkStatuses
    <3>2. CASE i \notin DOMAIN items
      BY <2>1, <3>2 DEF Mark, Changes, file
    <3>3. QED
      BY <3>1, <3>2
  <2>3. /\ run'[r].at = "running" /\ run'[r].item = i
        /\ \A q \in Runners \ {r} : run'[q] = run[q]
    BY <2>1, GotoTyped
  <2>4. QED
    BY <2>2, <2>3 DEF Owned
<1>5. ASSUME NEW r \in Runners, dispatch(r), run[r].kind = "exec" PROVE Owned'
  <2>1. run[r].at # "idle" /\ Goto(r, "executing") /\ UNCHANGED <<items, tail>>
    BY <1>5 DEF dispatch, file
  <2>2. /\ run'[r].at = "executing" /\ run'[r].item = run[r].item
        /\ \A q \in Runners \ {r} : run'[q] = run[q]
    BY <2>1, GotoTyped
  <2>3. QED
    BY <2>1, <2>2 DEF Owned
<1>6. ASSUME NEW r \in Runners, (dispatch(r) /\ run[r].kind # "exec") \/ finish(r)
      PROVE  Owned'
  <2> DEFINE i == run[r].item
             Final == {"completed", "failed", "blocked"}
  <2>1. Return(r) /\ run[r].at # "idle"
    BY <1>6 DEF dispatch, finish
  <2>2. run[r].kind \in Kinds
    BY <2>1, RunnerItem DEF Busy
  <2>3. PICK status \in Final : Mark(i, status)
    <3>1. dispatch(r) /\ run[r].kind # "exec" => \E status \in Final : Mark(i, status)
      BY <2>2, FinalStatuses DEF dispatch, MarkTorn, AppendTorn
    <3>2. finish(r) => \E status \in Final : Mark(i, status)
      BY DEF finish, MarkTorn, AppendTorn
    <3>3. QED
      BY <1>6, <3>1, <3>2
  <2>4. /\ tail' = "clean" /\ DOMAIN items' = DOMAIN items
        /\ i \in DOMAIN items => items'[i].status = status
        /\ \A j \in DOMAIN items \ {i} : items'[j].status = items[j].status
    <3>1. CASE i \in DOMAIN items
      BY <2>3, <3>1, MarkTyped, MarkStatuses
    <3>2. CASE i \notin DOMAIN items
      BY <2>3, <3>2 DEF Mark, Changes, file
    <3>3. QED
      BY <3>1, <3>2
  <2>5. \A q \in Runners \ {r} : run'[q] = run[q]
    BY <2>1 DEF Return, TypeOK
  <2>6. QED
    BY <2>4, <2>5 DEF Owned
<1>7. ASSUME NEW r \in Runners, crash(r) PROVE Owned'
  BY <1>7 DEF crash
<1>8. CASE UNCHANGED vars
  BY <1>8 DEF vars, Owned
<1>9. QED
  BY <1>1, <1>2, <1>3, <1>4, <1>5, <1>6, <1>7, <1>8 DEF Next, Step

OwnedInv == mishaps = {} => Owned

(* For any number of runners and any reuse of ids: as long as no process has *)
(* died and no append was torn, every running item is being worked on, so    *)
(* every way out of FleetQueueRunner.run_once marks the item it selected.    *)
THEOREM NoneLeftRunning == Spec => []RunningIsOwned
<1>1. Init => TypeOK /\ OwnedInv
  BY InitTyped DEF Init, OwnedInv, Owned
<1>2. TypeOK /\ OwnedInv /\ [Next]_vars => TypeOK' /\ OwnedInv'
  BY NextTyped, NextOwned, MishapsGrow DEF OwnedInv
<1>3. OwnedInv => RunningIsOwned
  BY DEF OwnedInv, Owned, RunningIsOwned
<1>4. QED
  BY <1>1, <1>2, <1>3, PTL DEF Spec
=============================================================================

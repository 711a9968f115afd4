----------------------------- MODULE FleetQueue -----------------------------
(***************************************************************************)
(* FleetQueue and FleetQueueRunner: an event-sourced queue without locks   *)
(* and the runners that execute its items.  items is what _replay derives  *)
(* from queue/events.jsonl; an append changes it the way _apply_event      *)
(* does.  A step is one file append: between a runner's appends, and while *)
(* it awaits the executor, anyone may enqueue and cancel.                  *)
(***************************************************************************)
EXTENDS Integers, FiniteSets

CONSTANTS
    Ids,         \* queue_item_id values, ordered
    Kinds,       \* what run_once does with an item, see Dispositions
    Priorities,  \* priorities given to items
    DepSets,     \* values of depends_on
    Runners,     \* processes that call run_once
    Shared,      \* whether other processes write to the queue
    Reuse,       \* whether a caller may enqueue an id again
    Crashes,     \* whether a runner may die, or its task be cancelled
    Faults,      \* how an append may be torn: see AppendTorn
    MaxExecs     \* where the count of an item's executions stops

(* exec: validate, or runtime_exec of a known tool.  note: message,          *)
(* handoff_note, pause, resume.  unknown_tool: runtime_exec of another tool. *)
Dispositions == {"exec", "note", "unknown_tool", "unsupported"}

ASSUME QueueAssumptions ==
    /\ Ids \subseteq Nat /\ IsFiniteSet(Ids)
    /\ Kinds \subseteq Dispositions
    /\ Priorities \subseteq Int
    /\ DepSets \subseteq SUBSET Ids
    /\ {Shared, Reuse, Crashes} \subseteq BOOLEAN
    /\ MaxExecs \in Nat /\ MaxExecs > 1
    /\ Faults \subseteq {"partial", "unterminated"}

VARIABLES
    items,  \* the replayed items, a function from some of Ids
    kept,   \* the items replayed from the lines that end with a newline
    tail,   \* "clean" when events.jsonl ends with a newline
    run,    \* for each runner, where its run_once call is, and the id, kind and
            \* dependencies of the item it read
    execs,  \* history: how often each id's item was given to the executor
    mishaps \* history: whether an append was "torn", whether a runner "died"

vars == <<items, kept, tail, run, execs, mishaps>>

file == <<items, kept, tail, mishaps>>

-----------------------------------------------------------------------------
(* The queue. *)

_TERMINAL_STATUSES == {"completed", "failed", "cancelled", "superseded"}

Statuses == _TERMINAL_STATUSES \cup {"queued", "running", "blocked"}

WithStatus(i, status) == [items EXCEPT ![i].status = status]

(* created_at as a rank: an item that is enqueued again is the youngest. *)
Aged(j, i) ==
    IF i \in DOMAIN items /\ items[j].created > items[i].created
      THEN [items[j] EXCEPT !.created = @ - 1] ELSE items[j]

WithItem(i, item) ==
    [j \in DOMAIN items \cup {i} |-> IF j = i THEN item ELSE Aged(j, i)]

(* An append.  After a line without its newline the new line is glued to it, *)
(* and replay skips what they form: both events are lost.                    *)
Append(new) ==
    /\ items' = IF tail = "clean" THEN new ELSE kept
    /\ kept' = items'
    /\ tail' = "clean"
    /\ UNCHANGED mishaps

(* The append stops before the newline: part of the line is in the file, or  *)
(* all of it, and then replay still reads it.                                *)
AppendTorn(new) ==
    \E fault \in Faults :
        /\ items' = IF tail = "clean" /\ fault = "unterminated" THEN new ELSE kept
        /\ tail' = IF tail = "clean" THEN fault ELSE "partial"
        /\ mishaps' = mishaps \cup {"torn"}
        /\ UNCHANGED kept

(* Within one process other tasks run only while run_once awaits. *)
Scheduled == Shared \/ \A r \in Runners : run[r].at \in {"idle", "executing"}

NewItem(i, kind, priority, deps) ==
    [kind |-> kind, status |-> "queued", priority |-> priority, depends_on |-> deps,
     created |-> Cardinality(DOMAIN items \ {i})]

enqueue_item(i, kind, priority, deps) ==
    LET new == WithItem(i, NewItem(i, kind, priority, deps))
    IN  /\ Scheduled
        /\ Reuse \/ i \notin DOMAIN items
        /\ Append(new) \/ AppendTorn(new)
        /\ UNCHANGED <<run, execs>>

(* Mutant: the status is spelt the other way. *)
cancel_item_Misspelt(i) ==
    LET new == WithStatus(i, "canceled")
    IN  /\ Scheduled
        /\ i \in DOMAIN items /\ items[i].status # "cancelled"
        /\ Append(new) \/ AppendTorn(new)
        /\ UNCHANGED <<run, execs>>

(* Whatever the item's status is, running and completed included. *)
cancel_item(i) ==
    LET new == WithStatus(i, "cancelled")
    IN  /\ Scheduled
        /\ i \in DOMAIN items /\ items[i].status # "cancelled"
        /\ Append(new) \/ AppendTorn(new)
        /\ UNCHANGED <<run, execs>>

(* _status_change_event.  The file is read just before the append; nothing   *)
(* is appended for an unknown item or for the status it has already.         *)
Changes(i, status) == i \in DOMAIN items /\ items[i].status # status

Mark(i, status) ==
    \/ Changes(i, status) /\ Append(WithStatus(i, status))
    \/ ~Changes(i, status) /\ UNCHANGED file

MarkTorn(i, status) == Changes(i, status) /\ AppendTorn(WithStatus(i, status))

(* Mutant: a dependency that is not in the queue counts as met. *)
DependencyMet_OrUnknown(d) ==
    d \in DOMAIN items => items[d].status \in _TERMINAL_STATUSES

(* Mutant: a failed dependency never lets its dependents run. *)
DependencyMet_Completed(d) == d \in DOMAIN items /\ items[d].status = "completed"

DependencyMet(d) == d \in DOMAIN items /\ items[d].status \in _TERMINAL_STATUSES

Eligible ==
    {i \in DOMAIN items : /\ items[i].status = "queued"
                          /\ \A d \in items[i].depends_on : DependencyMet(d)}

(* Highest priority, then oldest, then smallest id. *)
Before(i, j) ==
    LET a == items[i]
        b == items[j]
    IN  \/ a.priority > b.priority
        \/ a.priority = b.priority /\ a.created < b.created
        \/ a.priority = b.priority /\ a.created = b.created /\ i < j

next_runnable_item(i) == i \in Eligible /\ \A j \in Eligible \ {i} : Before(i, j)

-----------------------------------------------------------------------------
(* run_once. *)

Idle == [at |-> "idle"]
Goto(r, at) == run' = [run EXCEPT ![r].at = at]
Return(r)   == run' = [run EXCEPT ![r] = Idle]

Selected(i) ==
    [at |-> "selected", item |-> i, kind |-> items[i].kind, deps |-> items[i].depends_on]

select(r) ==
    /\ run[r].at = "idle"
    /\ \E i \in Ids :
          /\ next_runnable_item(i)
          /\ run' = [run EXCEPT ![r] = Selected(i)]
    /\ UNCHANGED <<file, execs>>

(* Mutant: the item is dispatched without being marked. *)
mark_running_Skipped(r) ==
    /\ run[r].at = "selected"
    /\ Goto(r, "running")
    /\ UNCHANGED <<file, execs>>

(* The result of mark_running is not looked at. *)
mark_running(r) ==
    /\ run[r].at = "selected"
    /\ \/ Mark(run[r].item, "running") /\ Goto(r, "running")
       \/ MarkTorn(run[r].item, "running") /\ Return(r)
    /\ UNCHANGED execs

(* Items that reach no executor get their final status here. *)
FinalStatus == [note |-> "completed", unknown_tool |-> "failed", unsupported |-> "blocked"]

dispatch(r) ==
    LET i == run[r].item
    IN  /\ run[r].at = "running"
        /\ \/ /\ run[r].kind = "exec" /\ execs[i] < MaxExecs
              /\ Goto(r, "executing")
              /\ execs' = [execs EXCEPT ![i] = IF @ < MaxExecs THEN @ + 1 ELSE @]
              /\ UNCHANGED file
           \/ /\ run[r].kind # "exec"
              /\ \/ Mark(i, FinalStatus[run[r].kind])
                 \/ MarkTorn(i, FinalStatus[run[r].kind])
              /\ Return(r)
              /\ UNCHANGED execs

(* Mutant: an exception of the executor leaves the item as it is. *)
finish_Unhandled(r) ==
    /\ run[r].at = "executing"
    /\ \E status \in {"completed", "blocked", "failed"} :
          Mark(run[r].item, status) \/ UNCHANGED file
    /\ Return(r)
    /\ UNCHANGED execs

(* The executor answered (completed; refused or blocked; failed) or raised.  *)
finish(r) ==
    /\ run[r].at = "executing"
    /\ \E status \in {"completed", "blocked", "failed"} :
          Mark(run[r].item, status) \/ MarkTorn(run[r].item, status)
    /\ Return(r)
    /\ UNCHANGED execs

(* The process dies, or the task running run_once is cancelled. *)
crash(r) ==
    /\ Crashes /\ run[r].at # "idle"
    /\ Return(r)
    /\ mishaps' = mishaps \cup {"died"}
    /\ UNCHANGED <<items, kept, tail, execs>>

-----------------------------------------------------------------------------
Init ==
    /\ items = [i \in {} |-> 0] /\ kept = items
    /\ tail = "clean"
    /\ run = [r \in Runners |-> Idle]
    /\ execs = [i \in Ids |-> 0]
    /\ mishaps = {}

Step(r) == select(r) \/ mark_running(r) \/ dispatch(r) \/ finish(r)

Next ==
    \/ \E i \in Ids, kind \in Kinds, priority \in Priorities, deps \in DepSets :
          enqueue_item(i, kind, priority, deps)
    \/ \E i \in Ids : cancel_item(i)
    \/ \E r \in Runners : Step(r) \/ crash(r)

Spec == Init /\ [][Next]_vars

(* The orchestrator keeps calling run_once and the executor answers. *)
FairSpec == Spec /\ \A r \in Runners : WF_vars(Step(r))

-----------------------------------------------------------------------------
(* Properties. *)

ItemType == [kind : Kinds, status : Statuses, priority : Priorities,
             depends_on : DepSets, created : Nat]

RunType == {Idle} \cup [at : {"selected", "running", "executing"},
                        item : Ids, kind : Kinds, deps : DepSets]

(* Types; only an unterminated last line makes items and kept differ. *)
TypeOK ==
    /\ items \in [DOMAIN items -> ItemType] /\ DOMAIN items \subseteq Ids
    /\ kept \in [DOMAIN kept -> ItemType] /\ DOMAIN kept \subseteq Ids
    /\ tail \in {"clean", "partial", "unterminated"}
    /\ tail # "unterminated" => kept = items
    /\ run \in [Runners -> RunType]
    /\ execs \in [Ids -> Nat]
    /\ mishaps \subseteq {"torn", "died"}

(* "depends_on must be in a terminal state": the dependencies of an item are *)
(* in one as long as the item executes, whatever is cancelled or crashes     *)
(* meanwhile.                                                                *)
RunsAfterDependencies ==
    \A r \in Runners : run[r].at = "executing" =>
        \A d \in run[r].deps :
            d \in DOMAIN items
            /\ items[d].status \in {"completed", "failed", "cancelled", "superseded"}

(* No item is given to the executor twice unless an append was torn: a crash *)
(* leaves it running, it never goes back to queued.                          *)
ExecutedOnce == "torn" \notin mishaps => \A i \in Ids : execs[i] <= 1

(* run_once leaves no item running behind: every way out of it marks the     *)
(* item it selected, unless its process died or an append was torn.          *)
RunningIsOwned ==
    mishaps = {} => \A i \in DOMAIN items : items[i].status = "running" =>
        \E r \in Runners : run[r].at # "idle" /\ run[r].item = i

Ready(i) ==
    /\ i \in DOMAIN items /\ items[i].status = "queued"
    /\ \A d \in items[i].depends_on :
          d \in DOMAIN items
          /\ items[d].status \in {"completed", "failed", "cancelled", "superseded"}

(* A queued item whose dependencies are terminal does not wait forever, if   *)
(* run_once is called again and again and nothing dies or is torn.           *)
Drains == \A i \in Ids : Ready(i) ~> ~Ready(i) \/ mishaps # {}

=============================================================================

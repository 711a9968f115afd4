----------------------------- MODULE PathLeases -----------------------------
(***************************************************************************)
(* What path leases promise, without files, keys, statuses or events: a    *)
(* set of leases in force that exclude each other, each of which lasts     *)
(* until it expires, leases of its owner are ended, or a lease on the same *)
(* paths takes its place.                                                  *)
(***************************************************************************)
EXTENDS Naturals

CONSTANTS
    Sessions, Tasks,  \* an owner is a session working on a task
    PathLists,        \* what may be leased
    TTLs,             \* how long a lease may be asked for
    Overlap(_, _)     \* whether two path lists have a path in common

VARIABLES
    held,  \* the leases in force
    now    \* the time

vars == <<held, now>>

-----------------------------------------------------------------------------

Own(h, s, t) == h.session = s /\ h.task = t

(* Two owners may only read the same path. *)
Compatible(h, mode, paths) ==
    Overlap(h.paths, paths) => h.mode = "read" /\ mode = "read"

(* The new lease replaces some of those on the same paths. *)
Grant(s, t, mode, paths, ttl) ==
    LET new == [session |-> s, task |-> t, mode |-> mode, paths |-> paths,
                expires |-> now + ttl]
    IN  /\ \A h \in held : Own(h, s, t) \/ Compatible(h, mode, paths)
        /\ \E replaced \in SUBSET {h \in held : h.paths = paths} :
              held' = (held \ replaced) \cup (IF ttl > 0 THEN {new} ELSE {})
        /\ UNCHANGED now

(* Some of one owner's leases are given up. *)
End(s, t) ==
    /\ \E ended \in SUBSET {h \in held : Own(h, s, t)} : held' = held \ ended
    /\ UNCHANGED now

Tick ==
    /\ now' = now + 1
    /\ held' = {h \in held : h.expires > now'}

-----------------------------------------------------------------------------
Init == held = {} /\ now = 0

Next ==
    \/ Tick
    \/ \E s \in Sessions, t \in Tasks :
          \/ End(s, t)
          \/ \E mode \in {"read", "write"}, paths \in PathLists, ttl \in TTLs :
                Grant(s, t, mode, paths, ttl)

Spec == Init /\ [][Next]_vars

=============================================================================

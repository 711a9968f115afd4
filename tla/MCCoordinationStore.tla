------------------------ MODULE MCCoordinationStore -------------------------
(***************************************************************************)
(* Instances of CoordinationStore for TLC.                                 *)
(***************************************************************************)
EXTENDS CoordinationStore

(* Two sessions; ids that cannot be confused, and ids that concatenate to    *)
(* the same text: s + tt and st + t.                                         *)
PlainSessions  == {<<"s">>, <<"r">>}
OneTask        == {<<"t">>}
MixedSessions  == {<<"s">>, <<"s", "t">>}
MixedTasks     == {<<"t">>, <<"t", "t">>}

(* src and src/a. *)
NestedLists  == {<< <<"src">> >>, << <<"src", "a">> >>}
OneList      == {<< <<"src">> >>}

LeaseCalls == {"claim_paths", "renew_lease", "release_paths", "mark_lease_stale"}
TaskCalls  == {"register_session", "heartbeat", "claim_task", "release_task",
               "publish_artifact", "report_conflict", "record_event",
               "request_handoff"}
EveryCall  == LeaseCalls \cup TaskCalls
RenewCalls == {"claim_paths", "renew_lease"}

=============================================================================

---------------------------- MODULE MCFleetQueue ----------------------------
(***************************************************************************)
(* Instances of FleetQueue for TLC.                                        *)
(***************************************************************************)
EXTENDS FleetQueue

FewDeps  == {{}} \cup {{i} : i \in Ids}
=============================================================================

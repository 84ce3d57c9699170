------------------------------ MODULE MCRecords ------------------------------
(***************************************************************************)
(* Teams with their members, and a package with its versions, for TLC.     *)
(* The package row refers to its team, and the team's own first package is *)
(* part of Teams: nothing else joins them, so a behaviour takes the steps  *)
(* of one of them only.  Users, spellings and requests are                 *)
(* interchangeable, and a request is a transaction; versions have their    *)
(* order.                                                                  *)
(***************************************************************************)
EXTENDS Teams, PackageReleases, TLC

VARIABLE focus

recordsVars == <<focus, vars, releasesVars>>

Symmetry == Permutations(Users) \cup Permutations(Requests) \cup Permutations(Names)

RecordsInit == focus \in {"team", "package"} /\ Init /\ ReleasesInit

RecordsNext ==
    /\ UNCHANGED focus
    /\ \/ focus = "team" /\ Next /\ UNCHANGED releasesVars
       \/ focus = "package" /\ ReleasesNext /\ UNCHANGED vars

RecordsSpec == RecordsInit /\ [][RecordsNext]_recordsVars

=============================================================================

---------------------------- MODULE MCAttendance ----------------------------
(***************************************************************************)
(* AttendanceEvents on a small instance, in two parts that a run explores  *)
(* side by side: single, one request at a time, of every kind; and         *)
(* overlap, two scans that overlap each other and a manual record, with no *)
(* report, override or void, in one day.  TLC refutes DerivedAgree when    *)
(* scans overlap, and the other properties when more may overlap (README). *)
(***************************************************************************)
EXTENDS AttendanceEvents

CONSTANTS s1, s2

VARIABLE part

MCInit ==
    /\ Init
    /\ part \in {"single", "overlap"}
    /\ part = "overlap" => shift = 0

InFlight == {r \in Requests : pc[r] # "idle"}

MCNext ==
    /\ Next
    /\ UNCHANGED part
    /\ part = "single" =>
           /\ s2 \notin InFlight' /\ Cardinality(InFlight') <= 1
           /\ <<posts, voids>>' # <<posts, voids>> => InFlight = {}
    /\ part = "overlap" =>
           InFlight' \subseteq Scanners /\ voids' = 0 /\ posts' <= 1 /\ Day(now') = 1

MCSpec == MCInit /\ [][MCNext]_<<vars, part>>

\* DerivedAgree of requests that come one after the other: whatever sequence of
\* scans, corrections and reports, the stored visits are those a rebuild gives.
SequentialAgree == part = "single" => DerivedAgree
=============================================================================

------------------------------ MODULE MCPages -------------------------------
(***************************************************************************)
(* Three pages of the settings in one run: the reports, the directory of   *)
(* groups and the camera of the enrollment.  They share no state: the part *)
(* that moves is chosen at the start, and the others stand still in one of *)
(* their initial states.                                                   *)
(***************************************************************************)
EXTENDS ReportDesk, GroupDirectory, EnrollmentCamera

CONSTANTS k1, k2

VARIABLE part

vars == <<deskVars, directoryVars, enrollmentCameraVars, part>>

\* There is a backup of another computer from the start; cameras are interchangeable.
Init ==
    /\ part \in {"desk", "directory", "camera"}
    /\ DeskInit /\ (part # "desk" => sessions[TodayIs] = Scanned)
    /\ DirectoryInit /\ backup # {}
    /\ part # "directory" => shown = {} /\ activeSection = "groups" /\ allowed
    /\ EnrollmentCameraInit /\ savedCamera # k2 /\ (part # "camera" => plugged = {} /\ savedCamera = NoCamera)

Next ==
    /\ UNCHANGED part
    /\ \/ part = "desk" /\ DeskNext /\ UNCHANGED <<directoryVars, enrollmentCameraVars>>
       \/ part = "directory" /\ DirectoryNext /\ UNCHANGED <<deskVars, enrollmentCameraVars>>
       \/ part = "camera" /\ EnrollmentCameraNext /\ UNCHANGED <<deskVars, directoryVars>>

Spec == Init /\ [][Next]_vars
=============================================================================

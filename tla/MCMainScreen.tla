---------------------------- MODULE MCMainScreen ----------------------------
(***************************************************************************)
(* The attendance panel of the main screen and what goes on behind it, in  *)
(* one run: pairing with the cloud, the scheduled reports, the preferences *)
(* and the search for updates.  They share no state: the part that moves   *)
(* is chosen at the start, and the others stand still in one of their      *)
(* initial states.                                                         *)
(***************************************************************************)
EXTENDS AttendancePanel, CloudPairing, ScheduledReports, Preferences, Updates

CONSTANTS a, b, u, v, g1, g2, d1, d2

VARIABLE part

vars == <<attendanceVars, pairingVars, reportVars, preferencesVars, updateVars, part>>

\* The attendance's clock is the computer's, or one slot ahead or behind.
MCZones == {-1, 0, 1}

\* Requests of the user and people recorded, together: three and one or two and two.
MCAsksAndEntries == 4

\* Both locations are of one organization.
MCOrg == [s \in Sites |-> "o"]

\* Groups are interchangeable, and so are locations: what the panel shows at
\* the start is g1 or all groups, and what was synchronized is from a.  The
\* format of the reports is the default until it is chosen.
Init ==
    /\ part \in {"panel", "pairing", "reports", "preferences", "updates"}
    /\ AttendanceInit /\ listed # g2 /\ (part # "panel" => records = {} /\ listed = AllGroups)
    /\ PairingInit /\ origin # b /\ (part # "pairing" => local = {} /\ origin = Nobody)
    /\ ReportsInit /\ autoExport.format = "one" /\ (part # "reports" => ~autoExport.enabled /\ autoExport.time = 0)
    /\ PreferencesInit /\ (part # "preferences" => file = DefaultSettings)
    /\ UpdatesInit

Next ==
    /\ UNCHANGED part
    /\ \/ part = "panel" /\ AttendanceNext /\ UNCHANGED <<pairingVars, reportVars, preferencesVars, updateVars>>
       \/ part = "pairing" /\ PairingNext /\ UNCHANGED <<attendanceVars, reportVars, preferencesVars, updateVars>>
       \/ /\ part = "reports" /\ ReportsNext /\ asks' + Cardinality(attended') <= MCAsksAndEntries
          /\ UNCHANGED <<attendanceVars, pairingVars, preferencesVars, updateVars>>
       \/ part = "preferences" /\ PreferencesNext /\ UNCHANGED <<attendanceVars, pairingVars, reportVars, updateVars>>
       \/ part = "updates" /\ UpdatesNext /\ UNCHANGED <<attendanceVars, pairingVars, reportVars, preferencesVars>>

Spec == Init /\ [][Next]_vars
=============================================================================

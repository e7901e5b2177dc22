------------------------------- MODULE Desktop -------------------------------
(***************************************************************************)
(* The renderer's screens together: the panel of the selected group, the   *)
(* form and the covers over the list of its members, and the service they  *)
(* all ask.  A dialog covers the panel: while one is open the user cannot  *)
(* reach what is under it, but answers and changes from other computers    *)
(* arrive.                                                                 *)
(***************************************************************************)
EXTENDS FaceEnrollment

desktopVars == <<panelVars, enrollVars, coverVars>>

Init == PanelInit /\ EnrollInit /\ CoverInit

Next ==
    \/ /\ PanelNext \/ (~form.open /\ Uncovered /\ PanelUse)
       /\ FormFollows /\ CoversFollow
    \/ /\ EnrollNext
       /\ form'.open /\ ~form.open => ListShown
       /\ UNCHANGED coverVars
    \/ CoverNext

Spec == Init /\ [][Next]_desktopVars

AtRest == loads = {} /\ refreshes = {} /\ adds = {} /\ removals = {}
          /\ \A q \in shots : q.kind # "photos"

\* When nothing is under way the panel has stopped loading, and unless it says
\* that it failed it shows the members the service has for the selected group,
\* whatever was selected, refreshed, created, deleted, added or removed meanwhile and in
\* whatever order answers came.  A refresh that is dropped because the group to fall back on
\* has changed ("dropped"), a member saved or removed without an answer ("unseen"), a refresh
\* that fails before an older load is answered ("lapsed") and a removal that is
\* put back ("undone") are the exceptions the code has.
PanelSettled ==
    AtRest /\ doubts \cap {"dropped", "unseen", "lapsed", "undone"} = {} =>
        /\ ~panel.loading /\ ~panel.refreshing /\ ~panel.pending
        /\ ~panel.error => panel.shown = IF current = None THEN {} ELSE MembersOf(current)

================================================================================

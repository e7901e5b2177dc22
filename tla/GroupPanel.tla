------------------------------ MODULE GroupPanel ------------------------------
(***************************************************************************)
(* The attendance panel of the selected group (useAttendanceGroups, the    *)
(* attendance and the group store) and the page of the group's rules       *)
(* (GroupSettings): what the renderer asks the local service, what it does *)
(* with answers that come late, twice or not at all.                       *)
(*                                                                         *)
(* The renderer is one JavaScript thread: a step is the code between two   *)
(* awaits.  A request is read by the service at one moment (Serve...) and  *)
(* answered at a later one.  While the settings are open the group store's *)
(* selected group follows the panel's (useGroupData).  Not modelled: the   *)
(* virtual group of all groups, attendance records, which are loaded with  *)
(* the members, and the overview's statistics.  Creating and deleting a    *)
(* group are answered at once.                                             *)
(***************************************************************************)
EXTENDS Integers, FiniteSets

CONSTANTS
    Groups,         \* the groups there may be
    Members,        \* members the groups have from the start
    Home,           \* the group of each of them
    MaxActs,        \* bound on what the user does, a step on the screen of a group counting twice
    MaxTroubles,    \* bound on requests that fail or lose their answer
    None            \* what is not there

ASSUME PanelAssumption ==
    /\ Groups # {} /\ IsFiniteSet(Groups) /\ IsFiniteSet(Members) /\ None \notin Groups
    /\ Home \in [Members -> Groups]
    /\ {MaxActs, MaxTroubles} \subseteq Nat

VARIABLES
    groups,         \* service: the groups it has
    gone,           \* service: the groups it had, whose ids are never used again
    people,         \* service: the members it has
    rules,          \* service: the rules of each group
    listed,         \* attendanceGroups
    told,           \* the rules they have
    current,        \* currentGroup
    settings,       \* the settings are open
    selected,       \* selectedGroup of the group store
    sheet,          \* the rules it has
    panel,          \* members shown, and the three loading flags and the error
    cache,          \* panelDataCacheRef
    loads,          \* loadSelectedGroupData, waiting
    refreshes,      \* refreshAttendanceData and other requests of the list of groups
    deleting,       \* deleteGroup waits for the list of groups
    page,           \* GroupSettings: what it shows and what is confirmed
    saves,          \* saveSettings, by every page there was
    behind,         \* history: an import has changed the page's rules since it was opened or saved
    doubts,         \* history: why panel or page may differ from the service
    acts, troubles

service == <<groups, gone, people, rules>>
lists == <<listed, told>>
following == <<selected, sheet, page>>
choice == <<lists, current, settings, cache>>
asked == <<loads, refreshes, deleting>>
saving == <<saves, behind>>
ruling == <<following, saving>>
panelVars == <<service, choice, panel, asked, ruling, doubts, acts, troubles>>

\* On the screen of a group, and in what covers it.
Act == acts + 2 <= MaxActs /\ acts' = acts + 2
Move == acts + 1 <= MaxActs /\ acts' = acts + 1
Trouble == troubles < MaxTroubles /\ troubles' = troubles + 1

(***************************************************************************)
(* The panel and its requests.                                             *)
(***************************************************************************)
EmptyPanel == [shown |-> {}, loading |-> FALSE, refreshing |-> FALSE,
               pending |-> FALSE, error |-> FALSE]

\* The service's answer to getGroupMembers.
MembersOf(g) == {p.id : p \in {q \in people : q.group = g}}

\* The group the settings are for: validInitialGroup.
Follow(cur, groupsListed) ==
    IF cur # None THEN cur ELSE IF groupsListed = {} THEN None ELSE CHOOSE g \in groupsListed : TRUE

\* The page of rules goes with the selected group; its saves go on.
PageOf(sel) == IF page.group \in {None, sel} THEN page ELSE [page EXCEPT !.group = None]

\* While the settings are open the selected group follows, with the rules it has in the list.
Follows(cur, groupsListed, known) ==
    LET sel == IF settings THEN Follow(cur, groupsListed) ELSE selected
    IN  /\ selected' = sel
        /\ sheet' = IF sel \in {None, selected} THEN sheet ELSE known[sel]
        /\ page' = PageOf(sel)

\* setSelectedGroup with rules; a page that is not saving shows them.
Selects(g, value) ==
    /\ selected' = g
    /\ sheet' = value
    /\ page' = IF page.group = g /\ \A s \in saves : s.visit # page.visit
               THEN [page EXCEPT !.confirmed = value, !.shown = value] ELSE PageOf(g)

\* setCurrentGroup clears the panel when the group is another one.
WithGroup(p, g) == IF g = current THEN p ELSE [EmptyPanel EXCEPT !.loading = g # None]

\* intent is the person a member was entered for, name what was typed.
Seed == {[id |-> m, group |-> Home[m], intent |-> m, name |-> 0] : m \in Members}

\* loadSelectedGroupData up to its await.
Begun(p, mode) ==
    CASE mode = "preserve" -> [EmptyPanel EXCEPT !.shown = p.shown, !.refreshing = TRUE]
      [] mode = "delay"    -> [EmptyPanel EXCEPT !.shown = p.shown, !.pending = TRUE]
      [] OTHER             -> [EmptyPanel EXCEPT !.loading = TRUE]

Request(g, mode) ==
    {[l EXCEPT !.latest = FALSE] : l \in loads}
        \cup {[group |-> g, latest |-> TRUE, delay |-> mode = "delay", got |-> None]}

\* A request may be answered when others have been made for the same group.
AnyRequest(l) == current = l.group
IsCurrentRequest(l) == l.latest /\ current = l.group

\* A refresh that is overtaken, by a newer one or the choice of a group, returns
\* without a trace once it is answered: requestId is not refreshRequestRef any longer.
Overtaken == {r \in refreshes : r.only}

\* refreshAttendanceData up to its await, when cur and sel are the groups of the two stores.
Refresh(cur, sel) ==
    Overtaken \cup {[captured |-> IF cur # None THEN cur ELSE sel, from |-> cur,
                     only |-> FALSE, got |-> None]}

ListRequest == [captured |-> None, from |-> None, only |-> TRUE, got |-> None]

NoPage == [group |-> None, visit |-> 0, rev |-> 0, shown |-> 0, confirmed |-> 0]

\* bootstrapShellData; the first load of the panel has begun, or is done.
PanelInit ==
    /\ groups \in SUBSET Groups /\ (groups # {} => \A m \in Members : Home[m] \in groups)
    /\ people = IF groups = {} THEN {} ELSE Seed
    /\ gone = {}
    /\ rules = [g \in Groups |-> 0]
    /\ listed = groups
    /\ told = rules
    /\ settings \in BOOLEAN
    /\ sheet = 0
    /\ current \in IF groups = {} THEN {None} ELSE groups
    /\ selected = current
    /\ \/ /\ panel = [EmptyPanel EXCEPT !.loading = current # None]
          /\ cache = [g \in Groups |-> None]
          /\ loads = IF current = None THEN {}
                     ELSE {[group |-> current, latest |-> TRUE, delay |-> FALSE, got |-> None]}
       \/ /\ current # None
          /\ panel = [EmptyPanel EXCEPT !.shown = MembersOf(current)]
          /\ cache = [g \in Groups |-> IF g = current THEN MembersOf(g) ELSE None]
          /\ loads = {}
    /\ refreshes = {}
    /\ deleting = FALSE
    /\ page \in {NoPage} \cup (IF selected = None \/ loads # {} \/ ~settings THEN {} ELSE {[NoPage EXCEPT !.group = selected]})
    /\ saves = {}
    /\ behind = FALSE
    /\ doubts = {}
    /\ acts = 0
    /\ troubles = 0

(***************************************************************************)
(* Selecting a group.                                                      *)
(***************************************************************************)
\* handleSelectGroup: what is cached is shown at once; a panel that is not
\* stays empty for a moment before it shows that it loads.
HandleSelectGroup(g) ==
    LET mode == IF cache[g] # None THEN "preserve" ELSE "delay"
        shown == IF cache[g] # None THEN [EmptyPanel EXCEPT !.shown = cache[g]]
                 ELSE WithGroup(panel, g)
    IN  /\ current' = g
        /\ panel' = Begun(shown, mode)
        /\ loads' = Request(g, mode)
        /\ refreshes' = Overtaken

SelectGroup(g) ==
    /\ Act
    /\ ~settings /\ g \in listed
    /\ HandleSelectGroup(g)
    /\ UNCHANGED <<service, lists, settings, cache, deleting, ruling, doubts, troubles>>

\* The timer of the skeleton.
ShowSkeleton(l) ==
    /\ l.delay
    /\ loads' = (loads \ {l}) \cup {[l EXCEPT !.delay = FALSE]}
    /\ panel' = IF IsCurrentRequest(l) THEN [EmptyPanel EXCEPT !.loading = TRUE, !.error = panel.error]
                ELSE panel
    /\ UNCHANGED <<service, choice, refreshes, deleting, ruling, doubts, acts, troubles>>

ServeLoad(l) ==
    /\ l.got = None
    /\ l.group \in groups
    /\ loads' = (loads \ {l}) \cup {[l EXCEPT !.got = MembersOf(l.group)]}
    /\ UNCHANGED <<service, choice, panel, refreshes, deleting, ruling, doubts, acts, troubles>>

AnswerLoad(l) ==
    /\ l.got # None
    /\ loads' = loads \ {l}
    /\ IF IsCurrentRequest(l)
       THEN /\ panel' = [EmptyPanel EXCEPT !.shown = l.got]
            /\ cache' = [cache EXCEPT ![l.group] = l.got]
       ELSE UNCHANGED <<panel, cache>>
    /\ UNCHANGED <<service, lists, current, settings, refreshes, deleting, ruling, doubts,
                   acts, troubles>>

Failed(p) == [EmptyPanel EXCEPT !.shown = p.shown, !.error = TRUE]

\* A group that is gone cannot be loaded; any other load may fail too.
FailLoad(l) ==
    /\ l.got = None
    /\ (l.group \notin groups /\ UNCHANGED troubles) \/ Trouble
    /\ loads' = loads \ {l}
    /\ panel' = IF IsCurrentRequest(l) THEN Failed(panel) ELSE panel
    /\ UNCHANGED <<service, choice, refreshes, deleting, ruling, doubts, acts>>

(***************************************************************************)
(* refreshAttendanceData.                                                  *)
(***************************************************************************)
ServeList(r) ==
    /\ r.got = None
    /\ refreshes' = (refreshes \ {r}) \cup {[r EXCEPT !.got = [groups |-> groups, rules |-> rules]]}
    /\ UNCHANGED <<service, choice, panel, loads, deleting, ruling, doubts, acts, troubles>>

Latest == IF current # None THEN current ELSE selected

\* The group the panel is for once the list of groups has come.
Resolved(r) == IF r.captured \in r.got.groups THEN r.captured ELSE CHOOSE g \in r.got.groups : TRUE

\* No group is left.
NothingLeft ==
    /\ current' = None
    /\ panel' = EmptyPanel
    /\ cache' = [g \in Groups |-> None]
    /\ UNCHANGED loads

\* The panel is loaded again; only what is cached for its group is kept, and
\* what is on display stays there while it loads if it is confirmed.
Reload(r, g) ==
    LET moved == g # r.captured
        kept == cache[g]
        base == IF ~moved THEN panel
                ELSE IF kept # None THEN [EmptyPanel EXCEPT !.shown = kept, !.refreshing = TRUE]
                ELSE WithGroup(panel, g)
        mode == IF kept # None /\ ~base.loading THEN "preserve" ELSE "skeleton"
    IN  /\ current' = g
        /\ cache' = [h \in Groups |-> IF h = g THEN kept ELSE None]
        /\ panel' = Begun(base, mode)
        /\ loads' = Request(g, mode)

\* The group it was asked for is not the panel's any longer: it is dropped, and
\* the panel goes on showing that it refreshes.
AnswerRefresh(r) ==
    /\ r.got # None /\ ~r.only
    /\ doubts' = IF Latest # r.captured THEN doubts \cup {"dropped"} ELSE doubts
    /\ refreshes' = refreshes \ {r}
    /\ IF Latest # r.captured
       THEN UNCHANGED <<lists, current, cache, following, panel, loads>>
       ELSE /\ listed' = r.got.groups
            /\ told' = r.got.rules
            /\ IF r.got.groups = {} THEN NothingLeft ELSE Reload(r, Resolved(r))
            /\ Follows(current', listed', told')
    /\ UNCHANGED <<service, settings, deleting, saving, acts, troubles>>

\* A load asked before may still be answered, and takes the failure back.
FailRefresh(r) ==
    /\ Trouble
    /\ r.got = None /\ ~r.only
    /\ refreshes' = refreshes \ {r}
    /\ panel' = IF current = r.from THEN Failed(panel) ELSE panel
    /\ doubts' = IF loads = {} THEN doubts ELSE doubts \cup {"lapsed"}
    /\ UNCHANGED <<service, choice, loads, deleting, ruling, acts>>

\* A request of the list alone: by the selectGroup event, and by deleteGroup,
\* which then refreshes.
AnswerList(r) ==
    /\ r.only
    /\ (r.got # None /\ UNCHANGED troubles) \/ (r.got = None /\ Trouble)
    /\ listed' = IF r.got = None THEN listed ELSE r.got.groups
    /\ told' = IF r.got = None THEN told ELSE r.got.rules
    /\ Follows(current, listed', told')
    /\ deleting' = FALSE
    /\ refreshes' = IF deleting THEN Refresh(current, selected') \ {r}
                    ELSE refreshes \ {r}
    /\ panel' = IF deleting THEN [panel EXCEPT !.refreshing = TRUE]
                ELSE IF r.got = None /\ current = None THEN [panel EXCEPT !.error = TRUE]
                ELSE panel
    /\ UNCHANGED <<service, current, settings, cache, loads, saving, doubts, acts>>

\* Changes of other computers are applied (onDataChanged), which may remove a
\* member or a group, or change the rules of one: the list gets them with the
\* refresh, the selected group and its page keep theirs while the id is the same.
DataChanged ==
    /\ Act
    /\ \/ /\ people' \in {people} \cup {people \ {p} : p \in people}
          /\ UNCHANGED <<groups, gone, rules, behind>>
       \/ \E g \in groups :
             /\ groups' = groups \ {g} /\ gone' = gone \cup {g}
             /\ UNCHANGED <<people, rules, behind>>
       \/ \E g \in groups :
             /\ rules' = [rules EXCEPT ![g] = acts + 1]
             /\ behind' = (behind \/ page.group = g)
             /\ UNCHANGED <<groups, gone, people>>
    /\ refreshes' = Refresh(current, selected)
    /\ panel' = [panel EXCEPT !.refreshing = TRUE]
    /\ UNCHANGED <<choice, loads, deleting, following, saves, doubts, troubles>>

\* The button next to the error.
Retry ==
    /\ Move
    /\ ~settings /\ panel.error /\ ~panel.refreshing
    /\ refreshes' = Refresh(current, selected)
    /\ panel' = [panel EXCEPT !.refreshing = TRUE]
    /\ UNCHANGED <<service, choice, loads, deleting, ruling, doubts, troubles>>

(***************************************************************************)
(* Settings: selecting, creating and deleting a group there.               *)
(***************************************************************************)
OpenSettings ==
    /\ Move
    /\ ~settings
    /\ settings' = TRUE
    /\ LET sel == Follow(current, listed)
       IN  selected' = sel /\ sheet' = IF sel \in {None, selected} THEN sheet ELSE told[sel]
    /\ UNCHANGED <<service, lists, current, cache, panel, asked, page, saving, doubts, troubles>>

CloseSettings ==
    /\ Move
    /\ settings
    /\ settings' = FALSE
    /\ page' = [page EXCEPT !.group = None]
    /\ refreshes' = Refresh(current, selected)
    /\ panel' = [panel EXCEPT !.refreshing = TRUE]
    /\ UNCHANGED <<service, lists, current, cache, loads, deleting, selected, sheet, saving, doubts,
                   troubles>>

\* Rules that are shown although the service has others by now.
Aged(g, value) == IF value = rules[g] THEN {} ELSE {"outdated"}

\* syncUpdatedGroupLocally of the settings: neither the cache nor the requests
\* of the panel hear of it, but it refreshes.
SyncUpdatedGroup(g) ==
    /\ current' = g
    /\ Selects(g, told[g])
    /\ panel' = [WithGroup(panel, g) EXCEPT !.refreshing = TRUE]
    /\ refreshes' = Refresh(g, g)

SelectInSettings(g) ==
    /\ Act
    /\ settings /\ g \in listed
    /\ SyncUpdatedGroup(g)
    /\ doubts' = doubts \cup Aged(g, told[g])
    /\ UNCHANGED <<service, lists, settings, cache, loads, deleting, saving, troubles>>

\* A group that is created on the screen of the panel is selected, in the
\* settings it comes with the refresh.
CreateGroup(g) ==
    /\ Act
    /\ g \notin groups \cup gone
    /\ groups' = groups \cup {g}
    /\ \/ ~settings /\ listed' = listed \cup {g} /\ SyncUpdatedGroup(g)
       \/ /\ settings
          /\ refreshes' = Refresh(current, selected)
          /\ panel' = [panel EXCEPT !.refreshing = TRUE]
          /\ UNCHANGED <<listed, current, following>>
    /\ UNCHANGED <<gone, people, rules, told, settings, cache, loads, deleting, saving, doubts, troubles>>

\* deleteGroup of the group store: it tells the panel that no group is selected.
DeleteGroup(g) ==
    /\ Act
    /\ settings /\ selected = g /\ g \in groups /\ ~deleting
    /\ groups' = groups \ {g}
    /\ gone' = gone \cup {g}
    /\ current' = None
    /\ Follows(None, listed, told)
    /\ panel' = EmptyPanel
    /\ refreshes' = Overtaken \cup {ListRequest}
    /\ deleting' = TRUE
    /\ UNCHANGED <<people, rules, lists, settings, cache, loads, saving, doubts, troubles>>

(***************************************************************************)
(* The rules of a group (GroupSettings.saveSettings).                      *)
(***************************************************************************)
\* The page shows what the selected group has, which may be older than the service's.
OpenRules ==
    /\ Act
    /\ settings /\ selected # None /\ page.group = None
    /\ page' = [group |-> selected, visit |-> acts + 1, rev |-> 0, shown |-> sheet, confirmed |-> sheet]
    /\ behind' = FALSE
    /\ doubts' = doubts \cup Aged(selected, sheet)
    /\ UNCHANGED <<service, choice, panel, asked, selected, sheet, saves, troubles>>

CloseRules ==
    /\ Move
    /\ page.group # None
    /\ page' = [page EXCEPT !.group = None]
    /\ UNCHANGED <<service, choice, panel, asked, selected, sheet, saving, doubts, troubles>>

\* A change of the rules is shown at once, and saved when the one before it is.
SaveSettings ==
    /\ Move
    /\ page.group # None
    /\ page' = [page EXCEPT !.rev = @ + 1, !.shown = acts + 1]
    /\ saves' = saves \cup {[group |-> page.group, visit |-> page.visit, rev |-> page.rev + 1,
                             value |-> acts + 1]}
    /\ UNCHANGED <<service, choice, panel, asked, selected, sheet, behind, doubts, troubles>>

\* Writes of one page are made one after the other.
AnyTime(s) == TRUE
ItsTurn(s) == \A t \in saves : t.visit = s.visit => t.rev >= s.rev

Mounted(s) == page.group = s.group /\ page.visit = s.visit

\* A page shows what it knows to be saved, the selected group has it, and the panel is refreshed.
Shown(s, value) ==
    IF Mounted(s) /\ page.rev = s.rev
    THEN /\ page' = [page EXCEPT !.confirmed = value, !.shown = value]
         /\ sheet' = value
         /\ refreshes' = Refresh(current, selected)
         /\ panel' = [panel EXCEPT !.refreshing = TRUE]
    ELSE /\ page' = IF Mounted(s) THEN [page EXCEPT !.confirmed = value] ELSE page
         /\ UNCHANGED <<sheet, refreshes, panel>>

Written(s) == rules' = [rules EXCEPT ![s.group] = s.value]

\* A page that is opened while the one before it saves does not learn of that,
\* and neither waits for the other.
Crossed(s) ==
    IF \/ page.group = s.group /\ page.visit # s.visit
       \/ \E t \in saves : t.group = s.group /\ t.visit # s.visit
    THEN {"crossed"} ELSE {}

SaveSettles(s) ==
    /\ ItsTurn(s)
    /\ saves' = saves \ {s}
    /\ \/ /\ Written(s) /\ Shown(s, s.value) /\ behind' = (behind /\ ~Mounted(s))
          /\ doubts' = doubts \cup Crossed(s)
          /\ UNCHANGED troubles
       \/ /\ Trouble /\ UNCHANGED <<rules, behind>> /\ Shown(s, page.confirmed)
          /\ doubts' = doubts \cup Crossed(s)
       \/ /\ Trouble /\ Written(s) /\ Shown(s, page.confirmed) /\ UNCHANGED behind
          /\ doubts' = doubts \cup {"unsure"}
    /\ UNCHANGED <<groups, gone, people, choice, loads, deleting, selected, acts>>

\* What the user does on the screen of the panel, and what happens by itself.
PanelUse ==
    \/ \E g \in Groups : SelectGroup(g) \/ SelectInSettings(g) \/ CreateGroup(g) \/ DeleteGroup(g)
    \/ Retry \/ OpenSettings \/ CloseSettings \/ OpenRules

PanelNext ==
    \/ \E l \in loads : ShowSkeleton(l) \/ ServeLoad(l) \/ AnswerLoad(l) \/ FailLoad(l)
    \/ \E r \in refreshes : ServeList(r) \/ AnswerRefresh(r) \/ FailRefresh(r) \/ AnswerList(r)
    \/ DataChanged
    \/ CloseRules \/ SaveSettings
    \/ \E s \in saves : SaveSettles(s)

(***************************************************************************)
(* What must hold.                                                         *)
(***************************************************************************)
\* When every save of the rules on display is settled, the page shows what the
\* service has: no older request has won over a newer one, and what is taken
\* back is what was saved last.  A page that is opened, or whose group is chosen
\* again, with rules older than the service's ("outdated"), one whose group's rules
\* another computer has changed since it was opened or saved (behind), one
\* that is opened while an earlier page still saves ("crossed") and a save whose
\* answer was lost ("unsure") are the exceptions the code has.
RulesAsSaved ==
    /\ page.group # None
    /\ \A s \in saves : s.group # page.group
    /\ ~behind /\ doubts \cap {"outdated", "crossed", "unsure"} = {}
    => page.shown = rules[page.group]

================================================================================

-------------------------- MODULE MainScreenProofs --------------------------
(***************************************************************************)
(* Proofs about the main screen and what goes on behind it: what the panel *)
(* lists, what the search for updates offers and how soon, to which        *)
(* location of the cloud the data of this computer may go and what the     *)
(* window knows of the connection, whom the daily reports hold, and what   *)
(* the settings file holds.  The parts share no state, and each is proved  *)
(* of its own specification.                                               *)
(***************************************************************************)
EXTENDS AttendancePanel, CloudPairing, ScheduledReports, Updates, Preferences,
        FiniteSetTheorems, SequenceTheorems, TLAPS

(***************************************************************************)
(* Updates.                                                                *)
(***************************************************************************)
Infos == [latest : Nat, hasUpdate : BOOLEAN, outcome : {"none", "ok", "failed", "offline"}]
Askers == {"background", "About", "WindowBar", "upgrade"}

UpdatesTypeOK ==
    /\ tick \in Nat /\ released \in Nat /\ installed \in Nat /\ lastCheckTime \in Nat /\ nextCheck \in Nat
    /\ tray \in Nat /\ silence \in Nat
    /\ cachedInfo \in Infos /\ updateInfo \in Infos
    /\ awaiting \in SUBSET Askers

\* The kept answer offers what is newer than what runs.
OfferedIsNewer ==
    /\ cachedInfo.hasUpdate => CompareVersions(cachedInfo.latest, installed)
    /\ ~started => cachedInfo = NoInfo /\ awaiting = {} /\ silence = 0

\* A release is not shown only since the last answer, and the next background
\* check, or the one after it, asks in time.
AskedInTime ==
    /\ silence > 0 => released > installed
    /\ cachedInfo # NoInfo => lastCheckTime + silence <= tick
    /\ started => nextCheck >= tick /\ nextCheck <= tick + Interval
    /\ started => "background" \in awaiting \/ silence + nextCheck < tick + 2 * Interval

UpdatesInv == UpdatesTypeOK /\ OfferedIsNewer /\ OffersAgree /\ AskedInTime /\ ToldInTime

LEMMA NoInfoIsInfo == NoInfo \in Infos /\ ~NoInfo.hasUpdate
BY DEF NoInfo, Infos

\* An answer is an Info, it offers what is newer, and a successful one offers
\* what has been released.
LEMMA InfoOf ==
    ASSUME NEW outcome \in {"ok", "failed", "offline"}, released \in Nat, installed \in Nat
    PROVE  /\ Info(outcome) \in Infos
           /\ Info(outcome).outcome = outcome
           /\ Info(outcome).hasUpdate => Info(outcome).latest > installed
           /\ outcome = "ok" /\ released > installed => IsShown(Info(outcome))
BY DEF Info, Infos, CompareVersions, IsShown

\* Whoever is told, the tray and the window agree or the tray is known to be behind.
LEMMA TellsAgree ==
    ASSUME NEW info \in Infos, NEW whom, Tells(info, whom),
           tray \in Nat, updateInfo \in Infos,
           ~trayBehind => tray = (IF updateInfo.hasUpdate THEN updateInfo.latest ELSE 0)
    PROVE  /\ tray' \in Nat
           /\ updateInfo' \in {info, updateInfo}
           /\ ~trayBehind' => tray' = (IF updateInfo'.hasUpdate THEN updateInfo'.latest ELSE 0)
<1>1. info.latest \in Nat /\ 0 \in Nat
  BY DEF Infos
<1>2. CASE TellsBoth(info, whom)
  BY <1>1, <1>2 DEF Tells, SetUpdateAvailable
<1>3. CASE ~TellsBoth(info, whom)
  BY <1>3 DEF Tells
<1> QED
  BY <1>2, <1>3

LEMMA UpdatesTyped ==
    ASSUME UpdatesInv, UpdatesNext
    PROVE  UpdatesTypeOK'
<1> USE DEF UpdatesInv, UpdatesTypeOK
<1> USE UpdatesAssumption, NoInfoIsInfo
<1>a. /\ ~trayBehind => tray = (IF updateInfo.hasUpdate THEN updateInfo.latest ELSE 0) \/ ~started
      /\ tick + 1 \in Nat /\ released + 1 \in Nat /\ silence + 1 \in Nat /\ tick + Interval \in Nat /\ 0 \in Nat
  BY DEF OffersAgree
<1>b. ASSUME NEW info \in Infos, NEW whom, Tells(info, whom)
      PROVE  tray' \in Nat /\ updateInfo' \in Infos
  <2>1. info.latest \in Nat /\ 0 \in Nat
    BY DEF Infos
  <2> QED
    BY <1>b, <2>1 DEF Tells, SetUpdateAvailable
<1>1. CASE SkipBackgroundCheck
  BY <1>1, <1>a DEF SkipBackgroundCheck, mainVars
<1>2. CASE RunCheck
  <2>1. tray' \in Nat /\ updateInfo' \in Infos
    <3>1. CASE Tells(cachedInfo, {"background"})
      BY <3>1, <1>b
    <3>2. CASE UNCHANGED <<tray, updateInfo, trayBehind>>
      BY <3>2
    <3> QED
      BY <1>2, <3>1, <3>2 DEF RunCheck
  <2>2. silence' \in Nat /\ awaiting' \in SUBSET Askers
    BY <1>2, <1>a DEF RunCheck, Notices, Askers
  <2> QED
    BY <1>2, <1>a, <2>1, <2>2 DEF RunCheck
<1>3. CASE HandleCheckForUpdates \/ HandleCheckUpdates \/ Upgrade
  BY <1>3 DEF HandleCheckForUpdates, HandleCheckUpdates, Upgrade, AsksForCheck, shownVars, Askers
<1>4. ASSUME NEW outcome \in {"ok", "failed", "offline"}, CheckForUpdates(outcome), silence' \in Nat
      PROVE  UpdatesTypeOK'
  <2>1. Info(outcome) \in Infos
    BY InfoOf
  <2>2. tray' \in Nat /\ updateInfo' \in Infos
    BY <1>4, <2>1, <1>b DEF CheckForUpdates
  <2>3. cachedInfo' \in Infos /\ lastCheckTime' \in Nat
    BY <1>4, <2>1 DEF CheckForUpdates
  <2> QED
    BY <1>4, <2>2, <2>3 DEF CheckForUpdates
<1>5. CASE CheckSucceeds
  <2>1. silence' \in Nat
    BY <1>5, <1>a DEF CheckSucceeds, Notices
  <2> QED
    BY <1>4, <1>5, <2>1 DEF CheckSucceeds
<1>6. CASE \E outcome \in {"failed", "offline"} : CheckFails(outcome)
  BY <1>4, <1>6 DEF CheckFails
<1>7. CASE Publish \/ TimePasses \/ AppEnds
  BY <1>7, <1>a DEF Publish, TimePasses, AppEnds, mainVars, shownVars
<1>8. CASE \E version \in 1..released : LaunchVersion(version)
  <2>1. PICK version \in 1..released : LaunchVersion(version)
    BY <1>8
  <2>2. version \in Nat
    OBVIOUS
  <2>3. updateInfo' \in Infos
    <3>1. CompareVersions(updateInfo.latest, version) \in BOOLEAN
      BY DEF CompareVersions
    <3>2. Recomputed(version) \in Infos
      BY <3>1 DEF Recomputed, Infos
    <3> QED
      BY <2>1, <3>2 DEF LaunchVersion, LoadFromStore
  <2> QED
    BY <2>1, <2>2, <2>3 DEF LaunchVersion, mainVars
<1> QED
  BY <1>1, <1>2, <1>3, <1>5, <1>6, <1>7, <1>8 DEF UpdatesNext

LEMMA UpdatesAgree ==
    ASSUME UpdatesInv, UpdatesNext
    PROVE  OfferedIsNewer' /\ OffersAgree'
<1> USE DEF UpdatesInv, UpdatesTypeOK, OfferedIsNewer, OffersAgree, CompareVersions
<1> USE UpdatesAssumption, NoInfoIsInfo
<1>1. CASE SkipBackgroundCheck
  BY <1>1 DEF SkipBackgroundCheck, mainVars
<1>2. CASE RunCheck
  <2>1. tray' \in Nat
        /\ updateInfo' \in {cachedInfo, updateInfo}
        /\ (~trayBehind' => tray' = (IF updateInfo'.hasUpdate THEN updateInfo'.latest ELSE 0))
    <3>1. CASE Tells(cachedInfo, {"background"})
      BY <3>1, <1>2, TellsAgree DEF RunCheck
    <3>2. CASE UNCHANGED <<tray, updateInfo, trayBehind>>
      BY <3>2, <1>2 DEF RunCheck
    <3> QED
      BY <1>2, <3>1, <3>2 DEF RunCheck
  <2> QED
    BY <1>2, <2>1 DEF RunCheck
<1>3. CASE HandleCheckForUpdates \/ HandleCheckUpdates \/ Upgrade
  BY <1>3 DEF HandleCheckForUpdates, HandleCheckUpdates, Upgrade, AsksForCheck, shownVars
<1>4. ASSUME NEW outcome \in {"ok", "failed", "offline"}, CheckForUpdates(outcome)
      PROVE  OfferedIsNewer' /\ OffersAgree'
  <2>1. Info(outcome) \in Infos /\ (Info(outcome).hasUpdate => Info(outcome).latest > installed)
    BY InfoOf
  <2>0. started
    BY <1>4 DEF CheckForUpdates
  <2>2. tray' \in Nat
        /\ updateInfo' \in {Info(outcome), updateInfo}
        /\ (~trayBehind' => tray' = (IF updateInfo'.hasUpdate THEN updateInfo'.latest ELSE 0))
    BY <1>4, <2>0, <2>1, TellsAgree DEF CheckForUpdates
  <2>3. cachedInfo' \in {cachedInfo, Info(outcome)} /\ installed' = installed /\ started' = started
    BY <1>4 DEF CheckForUpdates
  <2> QED
    BY <2>0, <2>1, <2>2, <2>3
<1>5. CASE CheckSucceeds
  BY <1>4, <1>5 DEF CheckSucceeds
<1>6. CASE \E outcome \in {"failed", "offline"} : CheckFails(outcome)
  BY <1>4, <1>6 DEF CheckFails
<1>7. CASE Publish \/ TimePasses \/ AppEnds
  BY <1>7 DEF Publish, TimePasses, AppEnds, mainVars, shownVars
<1>8. CASE \E version \in 1..released : LaunchVersion(version)
  <2>1. PICK version \in 1..released : LaunchVersion(version)
    BY <1>8
  <2>2. updateInfo'.hasUpdate => updateInfo'.latest > installed'
    <3>1. CASE updateInfo = NoInfo
      BY <2>1, <3>1 DEF LaunchVersion, LoadFromStore
    <3>2. CASE updateInfo # NoInfo
      BY <2>1, <3>2 DEF LaunchVersion, LoadFromStore, Recomputed, Infos
    <3> QED
      BY <3>1, <3>2
  <2> QED
    BY <2>1, <2>2 DEF LaunchVersion, mainVars
<1> QED
  BY <1>1, <1>2, <1>3, <1>5, <1>6, <1>7, <1>8 DEF UpdatesNext

\* A check that succeeds shows the release to whoever asked.
LEMMA SuccessShows ==
    ASSUME UpdatesInv, CheckSucceeds
    PROVE  silence' = 0
<1>1. CASE silence = 0
  BY <1>1 DEF CheckSucceeds, Notices
<1>2. CASE silence # 0
  <2>1. released > installed
    BY <1>2 DEF UpdatesInv, UpdatesTypeOK, AskedInTime
  <2>2. Info("ok").outcome = "ok" /\ Info("ok").hasUpdate /\ IsShown(Info("ok"))
    BY <2>1, InfoOf DEF UpdatesInv, UpdatesTypeOK, IsShown
  <2>3. TellsBoth(Info("ok"), awaiting) \/ TellsWindow(Info("ok"), awaiting)
    <3>1. awaiting # {} /\ awaiting \in SUBSET Askers
      BY DEF CheckSucceeds, CheckForUpdates, UpdatesInv, UpdatesTypeOK
    <3>2. awaiting \cap {"background", "About", "WindowBar"} # {} \/ "upgrade" \in awaiting
      BY <3>1 DEF Askers
    <3> QED
      BY <2>2, <3>2 DEF TellsBoth, TellsWindow
  <2>4. updateInfo' = Info("ok") /\ released' = released
    BY <2>3 DEF CheckSucceeds, CheckForUpdates, Tells
  <2> QED
    BY <2>2, <2>4 DEF CheckSucceeds, Notices, IsShown
<1> QED
  BY <1>1, <1>2

LEMMA UpdatesInTime ==
    ASSUME UpdatesInv, UpdatesNext
    PROVE  AskedInTime' /\ ToldInTime'
<1> USE DEF UpdatesInv, UpdatesTypeOK, AskedInTime, ToldInTime
<1>a. Interval \in Nat /\ Interval > 0
  BY UpdatesAssumption
<1>1. CASE SkipBackgroundCheck
  <2>1. /\ started' = started /\ tick = nextCheck /\ nextCheck' = tick + Interval /\ silence' = 0
        /\ UNCHANGED <<tick, released, installed, cachedInfo, lastCheckTime>>
        /\ (started /\ cachedInfo # NoInfo => lastCheckTime + silence <= tick)
    BY <1>1 DEF SkipBackgroundCheck, mainVars
  <2> QED
    BY <2>1, <1>a, <1>1 DEF SkipBackgroundCheck
<1>2. CASE RunCheck
  <2>1. /\ started /\ tick = nextCheck /\ nextCheck' = tick + Interval
        /\ silence' = 0 \/ silence' = silence
        /\ UNCHANGED <<started, tick, released, installed, cachedInfo, lastCheckTime>>
    BY <1>2 DEF RunCheck, Notices
  <2>2. CASE awaiting' = awaiting \cup {"background"}
    BY <2>1, <2>2, <1>a
  <2>3. CASE cachedInfo # NoInfo /\ Recent
    BY <2>1, <2>3, <1>a DEF Recent
  <2> QED
    BY <1>2, <2>2, <2>3 DEF RunCheck
<1>3. CASE HandleCheckForUpdates \/ HandleCheckUpdates \/ Upgrade
  <2>1. /\ awaiting \subseteq awaiting'
        /\ UNCHANGED <<started, tick, released, installed, cachedInfo, lastCheckTime, nextCheck, silence>>
    BY <1>3 DEF HandleCheckForUpdates, HandleCheckUpdates, Upgrade, AsksForCheck, shownVars
  <2> QED
    BY <2>1
<1>4. ASSUME NEW outcome \in {"ok", "failed", "offline"}, CheckForUpdates(outcome), silence' = 0
      PROVE  AskedInTime' /\ ToldInTime'
  <2>1. /\ UNCHANGED <<started, tick, released, installed, nextCheck>>
        /\ (lastCheckTime' = lastCheckTime /\ cachedInfo' = cachedInfo) \/ lastCheckTime' = tick
    BY <1>4 DEF CheckForUpdates
  <2> QED
    BY <1>4, <2>1, <1>a
<1>5. CASE CheckSucceeds
  BY <1>4, <1>5, SuccessShows DEF CheckSucceeds
<1>6. CASE \E outcome \in {"failed", "offline"} : CheckFails(outcome)
  BY <1>4, <1>6 DEF CheckFails
<1>7. CASE Publish
  BY <1>7 DEF Publish, mainVars, shownVars
<1>8. CASE TimePasses
  <2>1. /\ tick' = tick + 1 /\ (started => tick # nextCheck) /\ awaiting = {}
        /\ UNCHANGED <<started, released, installed, cachedInfo, lastCheckTime, nextCheck, awaiting>>
        /\ silence' = 0 \/ (silence' = silence + 1 /\ started /\ released > installed)
    BY <1>8 DEF TimePasses, mainVars
  <2> QED
    BY <2>1, <1>a
<1>9. CASE AppEnds
  BY <1>9, <1>a DEF AppEnds
<1>10. CASE \E version \in 1..released : LaunchVersion(version)
  <2>1. /\ ~started /\ started' /\ nextCheck' = tick
        /\ UNCHANGED <<tick, released, cachedInfo, lastCheckTime, awaiting, silence>>
    BY <1>10 DEF LaunchVersion, mainVars
  <2>2. silence = 0 /\ cachedInfo = NoInfo
    BY <2>1 DEF OfferedIsNewer
  <2> QED
    BY <2>1, <2>2, <1>a
<1> QED
  BY <1>1, <1>2, <1>3, <1>5, <1>6, <1>7, <1>8, <1>9, <1>10 DEF UpdatesNext

LEMMA UpdatesInductive == UpdatesSpec => []UpdatesInv
<1>1. UpdatesInit => UpdatesInv
  <2>1. Interval \in Nat /\ Interval > 0
    BY UpdatesAssumption
  <2>2. UpdatesInit => UpdatesTypeOK
    BY NoInfoIsInfo DEF UpdatesInit, UpdatesTypeOK, Askers
  <2>3. UpdatesInit => OfferedIsNewer /\ OffersAgree
    BY NoInfoIsInfo DEF UpdatesInit, OfferedIsNewer, OffersAgree
  <2>4. UpdatesInit => AskedInTime /\ ToldInTime
    BY <2>1 DEF UpdatesInit, AskedInTime, ToldInTime
  <2> QED
    BY <2>2, <2>3, <2>4 DEF UpdatesInv
<1>2. UpdatesInv /\ [UpdatesNext]_updateVars => UpdatesInv'
  <2>1. CASE UpdatesInv /\ UpdatesNext
    BY <2>1, UpdatesTyped, UpdatesAgree, UpdatesInTime DEF UpdatesInv
  <2>2. CASE UpdatesInv /\ UNCHANGED updateVars
    BY <2>2 DEF UpdatesInv, updateVars, mainVars, shownVars, countVars, UpdatesTypeOK, OfferedIsNewer,
                OffersAgree, AskedInTime, ToldInTime
  <2> QED
    BY <2>1, <2>2
<1> QED
  BY <1>1, <1>2, PTL DEF UpdatesSpec

\* What is offered is newer than what runs, and the window and the tray offer
\* the same, whoever asks for a check when and with whatever outcome, across
\* launches of other versions (updater.ts, UpdaterService.ts).
THEOREM UpdateIsNewer == UpdatesSpec => []OffersAgree
BY UpdatesInductive, PTL DEF UpdatesInv

\* For every interval: background checks that find a recent answer and skip the
\* request never keep a release from the user for two intervals (updater.ts).
THEOREM UpdateToldInTime == UpdatesSpec => []ToldInTime
BY UpdatesInductive, PTL DEF UpdatesInv

(***************************************************************************)
(* CloudPairing: its state.                                                *)
(***************************************************************************)
SitesOrNone == Sites \cup {Nobody}
Scopes == {OrgOf[s] : s \in Sites} \cup {Nobody}
Rows == [of : SitesOrNone, scope : Scopes]
Stores == [site : SitesOrNone, enabled : BOOLEAN, server : Servers]
DeviceCodes == [server : Servers, state : {"pending", "approved", "denied", "expired"}, site : SitesOrNone]
Sheets(ids) == [open : BOOLEAN, draft : Servers, code : {Nobody} \cup ids, asking : BOOLEAN, failed : BOOLEAN,
                busy : BOOLEAN]
Stages == {"ask", "verify", "assign", "sync", "queued"}

CodeTasks(ids) == [kind : {"code"}, live : BOOLEAN, server : Servers, got : {Nobody, Refused} \cup ids]
PollTasks(ids) == [kind : {"poll"}, live : BOOLEAN, code : ids, at : Stages, site : SitesOrNone]
PairTasks == [kind : {"pair"}, live : BOOLEAN, at : Stages, site : SitesOrNone]
DisconnectTasks == [kind : {"disconnect"}, live : BOOLEAN, at : {"suspend", "remote"}, site : SitesOrNone]
NowTasks == [kind : {"now"}, live : BOOLEAN, waits : BOOLEAN]

\* A handler that pairs knows its location, from the start or once it was answered.
KnowsSite(t) == t.kind = "pair" \/ (t.kind = "poll" /\ t.at # "ask") => t.site \in Sites
Tasks(ids) == {t \in CodeTasks(ids) \cup PollTasks(ids) \cup PairTasks \cup DisconnectTasks \cup NowTasks : KnowsSite(t)}

CodesOK == codes \in Seq(DeviceCodes) /\ \A c \in DOMAIN codes : codes[c].state = "approved" => codes[c].site \in Sites

PairingTypeOK ==
    /\ store \in Stores /\ origin \in SitesOrNone /\ local \subseteq Rows
    /\ exchange \in [at : {"idle", "push", "pull"}, site : SitesOrNone]
    /\ snap \in [ready : BOOLEAN, connected : BOOLEAN, server : Servers]
    /\ CodesOK
    /\ sheetOpen \in Sheets(DOMAIN codes)
    /\ tasks \subseteq Tasks(DOMAIN codes)

LEMMA OverdueTyped ==
    ASSUME NEW ids, NEW ts \in SUBSET Tasks(ids), NEW kinds
    PROVE  Overdue(ts, kinds) \in SUBSET Tasks(ids)
<1> SUFFICES ASSUME NEW t \in Tasks(ids)
             PROVE  [t EXCEPT !.live = FALSE] \in Tasks(ids)
  BY DEF Overdue
<1> QED
  BY DEF Tasks, KnowsSite, CodeTasks, PollTasks, PairTasks, DisconnectTasks, NowTasks

\* More codes do no harm.
LEMMA TasksGrow ==
    ASSUME NEW ids, NEW more, ids \subseteq more
    PROVE  Tasks(ids) \subseteq Tasks(more) /\ Sheets(ids) \subseteq Sheets(more)
<1>1. CodeTasks(ids) \subseteq CodeTasks(more)
  BY DEF CodeTasks
<1>2. PollTasks(ids) \subseteq PollTasks(more)
  BY DEF PollTasks
<1> QED
  BY <1>1, <1>2 DEF Tasks, Sheets

LEMMA SiteScope == \A s \in Stores : Scope(s) \in Scopes /\ (Scope(s) = Nobody \/ s.site \in Sites)
BY DEF Stores, Scope, Scopes, SitesOrNone

\* What changes on the page: the draft, the code and what it waits for.
LEMMA EffectsTyped ==
    ASSUME NEW ids, NEW p \in Sheets(ids), NEW s, s.server \in Servers
    PROVE  Effects(p, s) \in Sheets(ids)
<1> DEFINE draft == IF s.server # snap.server THEN s.server ELSE p.draft
           stays == draft = p.draft /\ s.ready /\ ~s.connected
           gone == p.failed /\ draft = p.draft /\ ~s.connected
           awaits == stays /\ p.asking
<1>1. draft \in Servers /\ awaits \in BOOLEAN /\ gone \in BOOLEAN
  BY DEF Sheets
<1>2. [p EXCEPT !.draft = draft, !.code = IF stays THEN @ ELSE Nobody, !.asking = awaits, !.failed = gone] \in Sheets(ids)
  BY <1>1 DEF Sheets
<1> QED
  BY <1>2 DEF Effects

LEMMA PageShowsTyped ==
    ASSUME PairingTypeOK, NEW s \in [ready : BOOLEAN, connected : BOOLEAN, server : Servers], PageShows(s)
    PROVE  /\ snap' \in [ready : BOOLEAN, connected : BOOLEAN, server : Servers]
           /\ sheetOpen' \in Sheets(DOMAIN codes)
           /\ tasks' \in SUBSET Tasks(DOMAIN codes)
<1>1. Effects(page, s) \in Sheets(DOMAIN codes)
  BY EffectsTyped DEF PairingTypeOK, page
<1>2. Overdue(tasks, {"code", "poll"}) \in SUBSET Tasks(DOMAIN codes)
  BY OverdueTyped DEF PairingTypeOK
<1> QED
  BY <1>1, <1>2 DEF PageShows, PairingTypeOK

LEMMA AsksTyped ==
    ASSUME NEW ids, NEW p \in Sheets(ids), NEW ts \in SUBSET Tasks(ids), Asks(p, ts)
    PROVE  sheetOpen' \in Sheets(ids) /\ tasks' \in SUBSET Tasks(ids)
<1> DEFINE t == [kind |-> "code", live |-> TRUE, server |-> p.draft, got |-> IF Connected THEN Refused ELSE Nobody]
<1>1. t \in Tasks(ids)
  BY DEF Tasks, KnowsSite, CodeTasks, Sheets
<1>2. Overdue(ts, {"code"}) \in SUBSET Tasks(ids)
  BY OverdueTyped
<1> QED
  BY <1>1, <1>2 DEF Asks, Sheets

LEMMA ReplyTyped ==
    ASSUME PairingTypeOK, NEW t \in tasks, NEW answer, Reply(t, answer)
    PROVE  sheetOpen' \in Sheets(DOMAIN codes) /\ tasks' \in SUBSET Tasks(DOMAIN codes)
<1> DEFINE rest == tasks \ {t}
<1>1. page \in Sheets(DOMAIN codes) /\ rest \in SUBSET Tasks(DOMAIN codes)
  BY DEF PairingTypeOK, page
<1>2. Overdue(rest, {"poll"}) \in SUBSET Tasks(DOMAIN codes)
  BY <1>1, OverdueTyped
<1>3. /\ [page EXCEPT !.busy = FALSE] \in Sheets(DOMAIN codes)
      /\ [page EXCEPT !.failed = TRUE, !.code = Nobody] \in Sheets(DOMAIN codes)
  BY <1>1 DEF Sheets
<1>4. CASE Asks(page, rest)
  BY <1>1, <1>4, AsksTyped
<1> QED
  BY <1>1, <1>2, <1>3, <1>4 DEF Reply

\* One task takes the place of another.
LEMMA InsteadTyped ==
    ASSUME PairingTypeOK, NEW t \in tasks, NEW u \in Tasks(DOMAIN codes), Instead(t, u)
    PROVE  tasks' \in SUBSET Tasks(DOMAIN codes)
BY DEF Instead, PairingTypeOK

LEMMA StagesTyped ==
    ASSUME NEW ids, NEW t \in Tasks(ids), t.kind \in {"poll", "pair"}
    PROVE  /\ \A at \in Stages : t.at # "ask" => [t EXCEPT !.at = at] \in Tasks(ids)
           /\ \A at \in Stages, site \in Sites : [t EXCEPT !.at = at, !.site = site] \in Tasks(ids)
           /\ t.at # "ask" => t.site \in Sites
           /\ t.kind = "pair" => t.site \in Sites
           /\ t.kind = "poll" => t.code \in ids
<1>1. t \in PollTasks(ids) \cup PairTasks /\ KnowsSite(t)
  BY DEF Tasks, CodeTasks, DisconnectTasks, NowTasks
<1> QED
  BY <1>1 DEF PollTasks, PairTasks, KnowsSite, Tasks, SitesOrNone

LEMMA DisconnectTyped ==
    ASSUME NEW ids, NEW t \in Tasks(ids), t.kind = "disconnect"
    PROVE  [t EXCEPT !.at = "remote"] \in Tasks(ids) /\ t.site \in SitesOrNone
<1>1. t \in DisconnectTasks
  BY DEF Tasks, CodeTasks, PollTasks, PairTasks, NowTasks
<1> QED
  BY <1>1 DEF DisconnectTasks, KnowsSite, Tasks

\* The exchange goes on as it is, begins for what is connected, or ends.
LEMMA ExchangeTyped ==
    ASSUME PairingTypeOK, exchange' \in {exchange, Begun, NoExchange}
    PROVE  exchange' \in [at : {"idle", "push", "pull"}, site : SitesOrNone]
BY DEF PairingTypeOK, Begun, NoExchange, Stores, SitesOrNone

LEMMA RowsTyped ==
    ASSUME PairingTypeOK
    PROVE  /\ \A site \in Sites : Taken(site) \subseteq Rows
           /\ {IF Scope(store) \in {r.scope, Nobody} THEN [r EXCEPT !.scope = Nobody] ELSE r : r \in local} \subseteq Rows
           /\ \A site \in SitesOrNone : [of |-> site, scope |-> Scope(store)] \in Rows
           /\ \A site \in SitesOrNone :
                  {IF r \in InScope /\ r.of = Nobody THEN [r EXCEPT !.of = site] ELSE r : r \in local} \subseteq Rows
<1> USE DEF PairingTypeOK
<1>1. \A site \in Sites : Taken(site) \subseteq Rows
  BY DEF Taken, Rows, Scopes
<1>2. {IF Scope(store) \in {r.scope, Nobody} THEN [r EXCEPT !.scope = Nobody] ELSE r : r \in local} \subseteq Rows
  BY DEF Rows, Scopes
<1>3. \A site \in SitesOrNone : [of |-> site, scope |-> Scope(store)] \in Rows
  BY SiteScope DEF Rows
<1>4. \A site \in SitesOrNone :
          {IF r \in InScope /\ r.of = Nobody THEN [r EXCEPT !.of = site] ELSE r : r \in local} \subseteq Rows
  BY DEF Rows
<1> QED
  BY <1>1, <1>2, <1>3, <1>4

LEMMA ConnectsTyped ==
    ASSUME PairingTypeOK, NEW t \in tasks, t.kind \in {"poll", "pair"}, NEW site \in Sites, Connects(t, site)
    PROVE  store' \in Stores /\ origin' \in SitesOrNone /\ tasks' \in SUBSET Tasks(DOMAIN codes)
<1>1. [t EXCEPT !.at = "assign", !.site = site] \in Tasks(DOMAIN codes)
  BY StagesTyped DEF Stages, PairingTypeOK
<1>2. tasks' \in SUBSET Tasks(DOMAIN codes)
  BY <1>1, InsteadTyped DEF Connects
<1> QED
  BY <1>2, PairingAssumption DEF Connects, Stores, SitesOrNone

LEMMA ValidatedTyped ==
    ASSUME PairingTypeOK, NEW t \in tasks, t.kind \in {"poll", "pair"}, NEW site \in Sites, Validated(t, site)
    PROVE  /\ store' \in Stores /\ origin' \in SitesOrNone
           /\ sheetOpen' \in Sheets(DOMAIN codes) /\ tasks' \in SUBSET Tasks(DOMAIN codes)
<1>1. CASE HandlerFails(t) /\ UNCHANGED <<store, origin, slips, failures>>
  BY <1>1, ReplyTyped DEF HandlerFails, PairingTypeOK
<1>2. CASE Connects(t, site)
  BY <1>2, ConnectsTyped DEF Connects, PairingTypeOK
<1>3. CASE /\ Instead(t, [t EXCEPT !.at = "verify", !.site = site])
           /\ UNCHANGED <<store, origin, slips, stale, sheetOpen, failures>>
  <2>1. [t EXCEPT !.at = "verify", !.site = site] \in Tasks(DOMAIN codes)
    BY StagesTyped DEF Stages, PairingTypeOK
  <2> QED
    BY <1>3, <2>1, InsteadTyped DEF PairingTypeOK
<1> QED
  BY <1>1, <1>2, <1>3 DEF Validated

LEMMA PageTyped ==
    ASSUME PairingTypeOK,
           \/ OpenPage \/ ClosePage \/ (\E s \in Servers : EditFields(s))
           \/ AutoInitiate \/ RefreshCode \/ RetryPairing \/ Poll
    PROVE  PairingTypeOK'
<1> USE DEF PairingTypeOK, mainState, others, view
<1>1. CASE OpenPage
  <2>1. sheetOpen' \in Sheets(DOMAIN codes)
    BY <1>1 DEF OpenPage, NoPageOpen, Sheets
  <2> QED
    BY <1>1, <2>1 DEF OpenPage, CodesOK
<1>2. CASE ClosePage
  <2>1. NoPageOpen \in Sheets(DOMAIN codes)
    BY PairingAssumption DEF NoPageOpen, Sheets
  <2>2. tasks' \in SUBSET Tasks(DOMAIN codes)
    BY <1>2, OverdueTyped DEF ClosePage
  <2> QED
    BY <1>2, <2>1, <2>2 DEF ClosePage, CodesOK
<1>3. ASSUME NEW s \in Servers, EditFields(s)
      PROVE  PairingTypeOK'
  <2>1. sheetOpen' \in Sheets(DOMAIN codes)
    BY <1>3 DEF EditFields, page, Sheets
  <2>2. tasks' \in SUBSET Tasks(DOMAIN codes)
    BY <1>3, OverdueTyped DEF EditFields
  <2> QED
    BY <1>3, <2>1, <2>2 DEF EditFields, CodesOK
<1>4. CASE AutoInitiate \/ RefreshCode \/ RetryPairing
  <2>1. Asks(page, tasks)
    BY <1>4 DEF AutoInitiate, RefreshCode, RetryPairing
  <2>2. sheetOpen' \in Sheets(DOMAIN codes) /\ tasks' \in SUBSET Tasks(DOMAIN codes)
    BY <2>1, AsksTyped DEF page
  <2> QED
    BY <1>4, <2>2 DEF AutoInitiate, RefreshCode, RetryPairing, CodesOK
<1>5. CASE Poll
  <2>1. page.code \in DOMAIN codes
    BY <1>5 DEF Poll, page, Sheets
  <2>2. [kind |-> "poll", live |-> TRUE, code |-> page.code, at |-> "ask", site |-> Nobody] \in Tasks(DOMAIN codes)
    BY <2>1 DEF Tasks, PollTasks, KnowsSite, Stages, SitesOrNone
  <2> QED
    BY <1>5, <2>2 DEF Poll, CodesOK
<1> QED
  BY <1>1, <1>2, <1>3, <1>4, <1>5

\* Codes are only added, so that what names one stays typed.
LEMMA CodesTyped ==
    ASSUME PairingTypeOK,
           \/ \E t \in tasks : ServeCode(t) \/ CodeAnswered(t)
           \/ \E c \in DOMAIN codes : Decide(c)
    PROVE  PairingTypeOK'
<1> USE DEF PairingTypeOK, mainState, others, view
<1>1. ASSUME NEW t \in tasks, t.kind = "code"
      PROVE  t \in CodeTasks(DOMAIN codes)
  BY <1>1 DEF Tasks, PollTasks, PairTasks, DisconnectTasks, NowTasks
<1>2. ASSUME NEW t \in tasks, ServeCode(t)
      PROVE  PairingTypeOK'
  <2>0. t \in CodeTasks(DOMAIN codes)
    BY <1>1, <1>2 DEF ServeCode
  <2>1. CASE /\ codes' = Append(codes, [server |-> t.server, state |-> "pending", site |-> Nobody])
             /\ tasks' = (tasks \ {t}) \cup {[t EXCEPT !.got = Len(codes) + 1]}
    <3>1. [server |-> t.server, state |-> "pending", site |-> Nobody] \in DeviceCodes
      BY <2>0 DEF CodeTasks, DeviceCodes, SitesOrNone
    <3>2. /\ codes' \in Seq(DeviceCodes) /\ Len(codes') = Len(codes) + 1 /\ DOMAIN codes' = 1..(Len(codes) + 1)
          /\ DOMAIN codes = 1..Len(codes) /\ Len(codes) \in Nat
          /\ \A c \in DOMAIN codes : codes'[c] = codes[c]
          /\ codes'[Len(codes) + 1].state = "pending"
      BY <2>1, <3>1 DEF CodesOK
    <3>3. DOMAIN codes \subseteq DOMAIN codes' /\ Len(codes) + 1 \in DOMAIN codes'
      BY <3>2
    <3>4. CodesOK'
      BY <3>2 DEF CodesOK
    <3>5. [t EXCEPT !.got = Len(codes) + 1] \in Tasks(DOMAIN codes')
      BY <2>0, <3>3 DEF CodeTasks, Tasks, KnowsSite
    <3>6. tasks' \subseteq Tasks(DOMAIN codes') /\ sheetOpen' \in Sheets(DOMAIN codes')
      BY <1>2, <2>1, <3>3, <3>5, TasksGrow DEF ServeCode
    <3> QED
      BY <1>2, <3>4, <3>6 DEF ServeCode
  <2>2. CASE tasks' = (tasks \ {t}) \cup {[t EXCEPT !.got = Refused]} /\ UNCHANGED codes
    <3>1. [t EXCEPT !.got = Refused] \in Tasks(DOMAIN codes)
      BY <2>0 DEF CodeTasks, Tasks, KnowsSite
    <3> QED
      BY <1>2, <2>2, <3>1 DEF ServeCode, CodesOK
  <2> QED
    BY <1>2, <2>1, <2>2 DEF ServeCode
<1>3. ASSUME NEW t \in tasks, CodeAnswered(t)
      PROVE  PairingTypeOK'
  <2>0. t \in CodeTasks(DOMAIN codes)
    BY <1>1, <1>3 DEF CodeAnswered
  <2>1. tasks' \subseteq Tasks(DOMAIN codes)
    BY <1>3, OverdueTyped DEF CodeAnswered
  <2>2. sheetOpen' \in Sheets(DOMAIN codes)
    BY <1>3, <2>0 DEF CodeAnswered, CodeTasks, page, Sheets
  <2> QED
    BY <1>3, <2>1, <2>2 DEF CodeAnswered, CodesOK
<1>4. ASSUME NEW c \in DOMAIN codes, Decide(c)
      PROVE  PairingTypeOK'
  <2>0. \A d \in DOMAIN codes : codes[d] \in DeviceCodes
    BY DEF CodesOK
  <2>1. CASE \E s \in Sites : codes' = [codes EXCEPT ![c].state = "approved", ![c].site = s]
    <3>1. PICK s \in Sites : codes' = [codes EXCEPT ![c].state = "approved", ![c].site = s]
      BY <2>1
    <3>2. codes' = [codes EXCEPT ![c] = [codes[c] EXCEPT !.state = "approved", !.site = s]]
      BY <3>1, <2>0 DEF DeviceCodes, CodesOK
    <3>3. [codes[c] EXCEPT !.state = "approved", !.site = s] \in DeviceCodes
      BY <2>0 DEF DeviceCodes, SitesOrNone
    <3>4. codes' \in Seq(DeviceCodes) /\ DOMAIN codes' = DOMAIN codes
      BY <3>2, <3>3 DEF CodesOK
    <3>5. CodesOK'
      BY <3>2, <3>4, <2>0 DEF CodesOK, DeviceCodes
    <3> QED
      BY <1>4, <3>4, <3>5 DEF Decide
  <2>2. CASE \E s \in {"denied", "expired"} : codes' = [codes EXCEPT ![c].state = s]
    <3>1. PICK s \in {"denied", "expired"} : codes' = [codes EXCEPT ![c].state = s]
      BY <2>2
    <3>3. [codes[c] EXCEPT !.state = s] \in DeviceCodes
      BY <2>0 DEF DeviceCodes
    <3>4. codes' \in Seq(DeviceCodes) /\ DOMAIN codes' = DOMAIN codes
      BY <3>1, <3>3 DEF CodesOK
    <3>5. CodesOK'
      BY <3>1, <3>4, <2>0 DEF CodesOK, DeviceCodes
    <3> QED
      BY <1>4, <3>4, <3>5 DEF Decide
  <2> QED
    BY <1>4, <2>1, <2>2 DEF Decide
<1> QED
  BY <1>2, <1>3, <1>4

LEMMA ButtonsTyped ==
    ASSUME PairingTypeOK,
           \/ (\E s \in Sites : HandlePair(s)) \/ HandleDisconnect \/ HandleSaveConfig \/ HandleManualSync
           \/ (\E t \in tasks : ManualSyncAnswered(t) \/ FirstSynced(t))
           \/ SnapshotRefreshed \/ RefreshFailed \/ RetryLoad \/ SyncTimer
    PROVE  PairingTypeOK'
<1> USE DEF PairingTypeOK, mainState, others, view
<1>0. /\ [page EXCEPT !.busy = TRUE] \in Sheets(DOMAIN codes)
      /\ [page EXCEPT !.busy = FALSE] \in Sheets(DOMAIN codes)
      /\ [page EXCEPT !.code = Nobody, !.failed = FALSE] \in Sheets(DOMAIN codes)
  BY DEF page, Sheets
<1>1. ASSUME NEW s \in Sites, HandlePair(s)
      PROVE  PairingTypeOK'
  <2>1. [kind |-> "pair", live |-> TRUE, at |-> "ask", site |-> s] \in Tasks(DOMAIN codes)
    BY DEF Tasks, KnowsSite, PairTasks, Stages, SitesOrNone
  <2>2. Overdue(tasks, {"poll"}) \subseteq Tasks(DOMAIN codes)
    BY OverdueTyped
  <2> QED
    BY <1>0, <1>1, <2>1, <2>2 DEF HandlePair, Busy, CodesOK
<1>2. CASE HandleDisconnect
  <2>1. [kind |-> "disconnect", live |-> TRUE, at |-> "suspend", site |-> store.site] \in Tasks(DOMAIN codes)
    BY DEF Tasks, KnowsSite, DisconnectTasks, Stores
  <2> QED
    BY <1>0, <1>2, <2>1 DEF HandleDisconnect, Busy, CodesOK
<1>3. CASE HandleSaveConfig
  <2>1. tasks' \subseteq Tasks(DOMAIN codes)
    BY <1>3, OverdueTyped DEF HandleSaveConfig
  <2>2. store' \in Stores
    BY <1>3 DEF HandleSaveConfig, Stores, page, Sheets
  <2> QED
    BY <1>0, <1>3, <2>1, <2>2 DEF HandleSaveConfig, CodesOK
<1>4. CASE HandleManualSync
  <2>1. Waits(manager) \in BOOLEAN
    BY DEF Waits
  <2>2. [kind |-> "now", live |-> TRUE, waits |-> Waits(manager)] \in Tasks(DOMAIN codes)
    BY <2>1 DEF Tasks, KnowsSite, NowTasks
  <2>3. exchange' \in [at : {"idle", "push", "pull"}, site : SitesOrNone]
    BY <1>4, ExchangeTyped DEF HandleManualSync, Syncs
  <2> QED
    BY <1>0, <1>4, <2>2, <2>3 DEF HandleManualSync, Busy, CodesOK
<1>5. ASSUME NEW t \in tasks, ManualSyncAnswered(t)
      PROVE  PairingTypeOK'
  BY <1>0, <1>5 DEF ManualSyncAnswered, CodesOK, page
<1>6. ASSUME NEW t \in tasks, FirstSynced(t)
      PROVE  PairingTypeOK'
  BY <1>6, ReplyTyped DEF FirstSynced, CodesOK
<1>7. CASE SnapshotRefreshed
  <2>1. Status \in [ready : BOOLEAN, connected : BOOLEAN, server : Servers]
    BY DEF Status, Connected, Stores
  <2> QED
    BY <1>7, <2>1, PageShowsTyped DEF SnapshotRefreshed, CodesOK
<1>8. CASE RefreshFailed
  BY <1>8, PageShowsTyped DEF RefreshFailed, CodesOK
<1>9. CASE RetryLoad
  BY <1>9 DEF RetryLoad, CodesOK
<1>10. CASE SyncTimer
  BY <1>10, ExchangeTyped DEF SyncTimer, Syncs, CodesOK
<1> QED
  BY <1>1, <1>2, <1>3, <1>4, <1>5, <1>6, <1>7, <1>8, <1>9, <1>10

LEMMA HandlersTyped ==
    ASSUME PairingTypeOK, NEW t \in tasks,
           ServePoll(t) \/ ServePair(t) \/ Verified(t) \/ Assigned(t)
    PROVE  PairingTypeOK'
<1> USE DEF PairingTypeOK
<1>1. CASE ServePoll(t)
  <2>1. t.code \in DOMAIN codes
    BY <1>1, StagesTyped DEF ServePoll
  <2>2. CASE codes[t.code].state = "approved" /\ Validated(t, codes[t.code].site)
    BY <1>1, <2>1, <2>2, ValidatedTyped DEF ServePoll, CodesOK
  <2>3. CASE /\ Reply(t, codes[t.code].state)
             /\ UNCHANGED <<store, origin, slips, stale, failures>>
    BY <1>1, <2>3, ReplyTyped DEF ServePoll, CodesOK
  <2>4. CASE HandlerFails(t) /\ UNCHANGED <<store, origin, slips>>
    BY <1>1, <2>4, ReplyTyped DEF ServePoll, HandlerFails, CodesOK
  <2> QED
    BY <1>1, <2>2, <2>3, <2>4 DEF ServePoll
<1>2. CASE ServePair(t)
  <2>1. CASE Validated(t, t.site)
    BY <1>2, <2>1, StagesTyped, ValidatedTyped DEF ServePair, CodesOK
  <2>2. CASE HandlerFails(t) /\ UNCHANGED <<store, origin, slips>>
    BY <1>2, <2>2, ReplyTyped DEF ServePair, HandlerFails, CodesOK
  <2> QED
    BY <1>2, <2>1, <2>2 DEF ServePair
<1>3. CASE Verified(t)
  <2>1. t.site \in Sites
    BY <1>3, StagesTyped DEF Verified
  <2>2. CASE Connects(t, t.site)
    BY <1>3, <2>1, <2>2, ConnectsTyped DEF Verified, Connects, CodesOK
  <2>3. CASE HandlerFails(t) /\ UNCHANGED <<store, origin, slips>>
    BY <1>3, <2>3, ReplyTyped DEF Verified, HandlerFails, CodesOK
  <2> QED
    BY <1>3, <2>2, <2>3 DEF Verified
<1>4. CASE Assigned(t)
  <2>1. t.site \in Sites
    BY <1>4, StagesTyped DEF Assigned
  <2>2. Taken(t.site) \subseteq Rows
    BY <2>1, RowsTyped
  <2>3. CASE /\ local' = Taken(t.site) /\ Syncs(Running(store))
             /\ Instead(t, [t EXCEPT !.at = IF Waits(Running(store)) THEN "sync" ELSE "queued"])
             /\ UNCHANGED <<store, slips, stale, sheetOpen, failures>>
    <3>1. \A at \in Stages : at # "ask" => [t EXCEPT !.at = at] \in Tasks(DOMAIN codes)
      BY <1>4, StagesTyped DEF Assigned
    <3>2. PICK at \in {"sync", "queued"} : Instead(t, [t EXCEPT !.at = at])
      BY <2>3
    <3>3. tasks' \subseteq Tasks(DOMAIN codes)
      BY <3>1, <3>2, InsteadTyped DEF Stages
    <3>4. exchange' \in [at : {"idle", "push", "pull"}, site : SitesOrNone]
      BY <2>3, ExchangeTyped DEF Syncs
    <3> QED
      BY <1>4, <2>2, <2>3, <3>3, <3>4 DEF Assigned, CodesOK
  <2>4. CASE /\ local' \in {local, Taken(t.site)} /\ store' = [store EXCEPT !.enabled = FALSE]
             /\ HandlerFails(t) /\ UNCHANGED <<manager, exchange>>
    <3>1. store' \in Stores
      BY <2>4 DEF Stores
    <3>2. local' \subseteq Rows
      BY <2>2, <2>4
    <3>3. sheetOpen' \in Sheets(DOMAIN codes) /\ tasks' \subseteq Tasks(DOMAIN codes)
      BY <2>4, ReplyTyped DEF HandlerFails
    <3> QED
      BY <1>4, <2>4, <3>1, <3>2, <3>3 DEF Assigned, CodesOK
  <2> QED
    BY <1>4, <2>3, <2>4 DEF Assigned
<1> QED
  BY <1>1, <1>2, <1>3, <1>4

LEMMA DisconnectingTyped ==
    ASSUME PairingTypeOK, NEW t \in tasks, Unpaired(t) \/ Disconnected(t)
    PROVE  PairingTypeOK'
<1> USE DEF PairingTypeOK
<1>0. t.kind = "disconnect"
  BY DEF Unpaired, Disconnected
<1>00. /\ [page EXCEPT !.busy = FALSE] \in Sheets(DOMAIN codes)
       /\ [page EXCEPT !.busy = FALSE, !.code = Nobody, !.failed = FALSE] \in Sheets(DOMAIN codes)
       /\ page \in Sheets(DOMAIN codes)
  BY DEF page, Sheets
<1>1. CASE Unpaired(t)
  <2> DEFINE left == {IF Scope(store) \in {r.scope, Nobody} THEN [r EXCEPT !.scope = Nobody] ELSE r : r \in local}
  <2>1. left \subseteq Rows
    BY RowsTyped
  <2> HIDE DEF left
  <2>2. CASE /\ local' = left
             /\ Instead(t, [t EXCEPT !.at = "remote"])
             /\ origin' = IF t.site # Nobody THEN t.site ELSE origin
             /\ UNCHANGED <<manager, sheetOpen, stale, failures>>
    <3>1. tasks' \subseteq Tasks(DOMAIN codes) /\ origin' \in SitesOrNone
      BY <1>0, <2>2, DisconnectTyped, InsteadTyped
    <3> QED
      BY <1>1, <2>1, <2>2, <3>1 DEF Unpaired, CodesOK
  <2>3. CASE /\ local' \in {local, left} /\ tasks' = tasks \ {t}
             /\ sheetOpen' = IF t.live THEN [page EXCEPT !.busy = FALSE] ELSE page
             /\ UNCHANGED <<origin, stale>>
    BY <1>1, <1>00, <2>1, <2>3 DEF Unpaired, CodesOK
  <2> QED
    BY <1>1, <2>2, <2>3 DEF Unpaired, left
<1>2. CASE Disconnected(t)
  <2> DEFINE code(c) == IF codes[c].site = t.site THEN [codes[c] EXCEPT !.state = "expired"] ELSE codes[c]
  <2>1. store' \in Stores
    BY <1>2 DEF Disconnected, Stores, SitesOrNone
  <2>2. \A c \in DOMAIN codes : code(c) \in DeviceCodes /\ (code(c).state = "approved" => code(c).site \in Sites)
    <3>1. ASSUME NEW c \in DOMAIN codes
          PROVE  codes[c] \in DeviceCodes /\ (codes[c].state = "approved" => codes[c].site \in Sites)
      BY DEF CodesOK
    <3>2. \A c \in DOMAIN codes : LET expired == [codes[c] EXCEPT !.state = "expired"]
                                  IN  expired \in DeviceCodes /\ expired.state = "expired"
      BY <3>1 DEF DeviceCodes
    <3> QED
      BY <3>1, <3>2
  <2>3. codes' = [c \in DOMAIN codes |-> code(c)]
    BY <1>2 DEF Disconnected
  <2>4. DOMAIN codes = 1..Len(codes) /\ Len(codes) \in Nat
    BY DEF CodesOK
  <2>5. codes' \in Seq(DeviceCodes) /\ DOMAIN codes' = DOMAIN codes
    BY <2>2, <2>3, <2>4
  <2>6. CodesOK'
    BY <2>2, <2>3, <2>5 DEF CodesOK
  <2>7. sheetOpen' \in Sheets(DOMAIN codes) /\ tasks' \subseteq Tasks(DOMAIN codes)
    BY <1>2, <1>00 DEF Disconnected
  <2> QED
    BY <1>2, <2>1, <2>5, <2>6, <2>7 DEF Disconnected
<1> QED
  BY <1>1, <1>2

LEMMA ExchangesTyped ==
    ASSUME PairingTypeOK, Push \/ Pull \/ Work \/ Relaunch
    PROVE  PairingTypeOK'
<1> USE DEF PairingTypeOK, view
<1>1. CASE Push
  <2>1. exchange' \in {exchange, Begun, NoExchange} \/ exchange' = [exchange EXCEPT !.at = "pull"]
    BY <1>1 DEF Push, ExchangeEnds
  <2>2. exchange' \in [at : {"idle", "push", "pull"}, site : SitesOrNone]
    BY <2>1, ExchangeTyped
  <2>3. local' \subseteq Rows
    BY <1>1, RowsTyped DEF Push
  <2> QED
    BY <1>1, <2>2, <2>3 DEF Push, CodesOK
<1>2. CASE Pull
  <2>1. exchange' \in [at : {"idle", "push", "pull"}, site : SitesOrNone]
    BY <1>2, ExchangeTyped DEF Pull, ExchangeEnds
  <2>2. [of |-> exchange.site, scope |-> Scope(store)] \in Rows
    BY RowsTyped
  <2>3. local' \subseteq Rows
    BY <1>2, <2>2 DEF Pull
  <2> QED
    BY <1>2, <2>1, <2>3 DEF Pull, CodesOK
<1>3. CASE Work
  <2>1. [of |-> IF Connected THEN store.site ELSE origin, scope |-> Scope(store)] \in Rows
    BY RowsTyped DEF Stores
  <2> QED
    BY <1>3, <2>1 DEF Work, mainState, CodesOK
<1>4. CASE Relaunch
  <2>1. Status \in [ready : BOOLEAN, connected : BOOLEAN, server : Servers]
    BY DEF Status, Connected, Stores
  <2>2. NoPageOpen \in Sheets(DOMAIN codes)
    BY PairingAssumption DEF NoPageOpen, Sheets
  <2>3. exchange' \in [at : {"idle", "push", "pull"}, site : SitesOrNone]
    BY <1>4, ExchangeTyped DEF Relaunch
  <2> QED
    BY <1>4, <2>1, <2>2, <2>3 DEF Relaunch, CodesOK
<1> QED
  BY <1>1, <1>2, <1>3, <1>4

LEMMA PairingTyped ==
    ASSUME PairingTypeOK, [PairingNext]_pairingVars
    PROVE  PairingTypeOK'
<1>1. CASE UNCHANGED pairingVars
  BY <1>1 DEF pairingVars, PairingTypeOK, CodesOK
<1>2. CASE PairingNext
  BY <1>2, PageTyped, CodesTyped, ButtonsTyped, HandlersTyped, DisconnectingTyped, ExchangesTyped DEF PairingNext
<1> QED
  BY <1>1, <1>2

(***************************************************************************)
(* CloudPairing: where the data goes.  Between two pairings the computer   *)
(* holds data of one location alone, in the scope of the store's location  *)
(* or in none: in none from the time the rows have left the scope until    *)
(* the connection is cleared.  An exchange is of the location the store    *)
(* names as long as it runs.                                               *)
(***************************************************************************)
Slipped == slips \cap {"twice", "crossed", "resumed", "worked"} # {}

\* The locations that handlers are about to assign the local rows to, and
\* whether one waits for the cloud to disconnect.
Assigns(ts) == {t.site : t \in {u \in ts : u.kind \in {"poll", "pair"} /\ u.at = "assign"}}
Leaves(ts) == \E t \in ts : t.kind = "disconnect" /\ t.at = "remote"

HeldForOrigin ==
    /\ Connected => origin = store.site
    /\ \A r \in local : r.of \in {Nobody, origin} /\ r.scope \in {Nobody, Scope(store)}
LeftScope == Leaves(tasks) => \A r \in local : r.scope = Nobody
ExchangesHere == exchange.at # "idle" => Connected /\ exchange.site = store.site
AssignsHere == \A s \in Assigns(tasks) : s = store.site /\ s \in Sites
OneAtATime == Leaves(tasks) => Assigns(tasks) = {}
CopiedHome == \A c \in copied : c[1] \in {Nobody, c[2]}

Origins == ~Slipped => HeldForOrigin /\ LeftScope /\ ExchangesHere /\ AssignsHere /\ OneAtATime /\ CopiedHome

LEMMA Waiting == (Disconnecting <=> Leaves(tasks)) /\ (Connecting <=> Assigns(tasks) # {})
BY DEF Disconnecting, Connecting, Leaves, Assigns

\* No handler gets to one of these points.
Continues(us, ts) == Assigns(us) \subseteq Assigns(ts) /\ (Leaves(us) => Leaves(ts))

LEMMA OverdueContinues ==
    ASSUME NEW ids, NEW ts \in SUBSET Tasks(ids), NEW kinds
    PROVE  Continues(Overdue(ts, kinds), ts)
<1>1. ASSUME NEW u \in Overdue(ts, kinds)
      PROVE  \E t \in ts : u.kind = t.kind /\ (t.kind \in {"poll", "pair", "disconnect"} => u.at = t.at /\ u.site = t.site)
  <2>1. ASSUME NEW t \in Tasks(ids), NEW v, v = [t EXCEPT !.live = FALSE]
        PROVE  v.kind = t.kind /\ (t.kind \in {"poll", "pair", "disconnect"} => v.at = t.at /\ v.site = t.site)
    BY <2>1 DEF Tasks, CodeTasks, PollTasks, PairTasks, DisconnectTasks, NowTasks
  <2>2. PICK t \in ts : u = IF t.kind \in kinds THEN [t EXCEPT !.live = FALSE] ELSE t
    BY DEF Overdue
  <2> QED
    BY <2>1, <2>2
<1> QED
  BY <1>1 DEF Continues, Assigns, Leaves

LEMMA FewerContinue ==
    ASSUME NEW ts, NEW us, us \subseteq ts
    PROVE  Continues(us, ts)
BY DEF Continues, Assigns, Leaves

LEMMA OneMoreContinues ==
    ASSUME NEW ts, NEW us, NEW u, Continues(us, ts),
           u.kind \in {"poll", "pair"} => u.at # "assign", u.kind = "disconnect" => u.at # "remote"
    PROVE  Continues(us \cup {u}, ts)
BY DEF Continues, Assigns, Leaves

LEMMA ContinuesOn ==
    ASSUME NEW ts, NEW us, NEW vs, Continues(vs, us), Continues(us, ts)
    PROVE  Continues(vs, ts)
BY DEF Continues

\* Such a step changes nothing of it.
Quiet ==
    /\ UNCHANGED <<origin, local, copied>> /\ slips \subseteq slips'
    /\ store'.site = store.site
    /\ exchange' \in {exchange, Begun, NoExchange}
    /\ Continues(tasks', tasks)

LEMMA QuietKeeps ==
    ASSUME Origins, Quiet
    PROVE  Origins'
<1> SUFFICES ASSUME ~Slipped'
             PROVE  (HeldForOrigin /\ LeftScope /\ ExchangesHere /\ AssignsHere /\ OneAtATime /\ CopiedHome)'
  BY DEF Origins
<1>1. HeldForOrigin /\ LeftScope /\ ExchangesHere /\ AssignsHere /\ OneAtATime /\ CopiedHome
  BY DEF Origins, Quiet, Slipped
<1>2. Scope(store') = Scope(store) /\ (Connected' <=> Connected)
  BY DEF Quiet, Scope, Connected
<1>3. HeldForOrigin' /\ CopiedHome'
  BY <1>1, <1>2 DEF HeldForOrigin, CopiedHome, Quiet
<1>4. LeftScope' /\ AssignsHere' /\ OneAtATime'
  BY <1>1 DEF LeftScope, AssignsHere, OneAtATime, Quiet, Continues
<1>5. ExchangesHere'
  BY <1>1, <1>2 DEF ExchangesHere, Quiet, Begun, NoExchange, Connected
<1> QED
  BY <1>3, <1>4, <1>5

LEMMA AsksContinue ==
    ASSUME NEW ids, NEW p, NEW ts \in SUBSET Tasks(ids), Asks(p, ts)
    PROVE  Continues(tasks', ts)
BY OverdueContinues, OneMoreContinues DEF Asks

LEMMA ReplyContinues ==
    ASSUME PairingTypeOK, NEW t \in tasks, NEW answer, Reply(t, answer)
    PROVE  Continues(tasks', tasks)
<1> DEFINE rest == tasks \ {t}
<1>1. rest \in SUBSET Tasks(DOMAIN codes) /\ Continues(rest, tasks)
  BY FewerContinue DEF PairingTypeOK
<1>2. Continues(Overdue(rest, {"poll"}), rest)
  BY <1>1, OverdueContinues
<1>3. CASE Asks(page, rest)
  BY <1>1, <1>3, AsksContinue, ContinuesOn
<1>4. CASE tasks' = rest \/ tasks' = Overdue(rest, {"poll"})
  BY <1>1, <1>2, <1>4, ContinuesOn
<1> QED
  BY <1>3, <1>4 DEF Reply

LEMMA QuietPage ==
    ASSUME PairingTypeOK,
           \/ OpenPage \/ ClosePage \/ (\E s \in Servers : EditFields(s))
           \/ AutoInitiate \/ RefreshCode \/ RetryPairing \/ Poll
           \/ (\E t \in tasks : ServeCode(t) \/ CodeAnswered(t)) \/ (\E c \in DOMAIN codes : Decide(c))
    PROVE  Quiet
<1> USE DEF mainState, others, view
<1>0. tasks \in SUBSET Tasks(DOMAIN codes) /\ Continues(tasks, tasks)
  BY FewerContinue DEF PairingTypeOK
<1>1. CASE OpenPage \/ (\E c \in DOMAIN codes : Decide(c))
  BY <1>0, <1>1 DEF OpenPage, Decide, Quiet
<1>2. CASE ClosePage
  BY <1>0, <1>2, OverdueContinues DEF ClosePage, Quiet
<1>3. ASSUME NEW s \in Servers, EditFields(s)
      PROVE  Quiet
  <2>1. Continues(tasks', tasks)
    BY <1>0, <1>3, OverdueContinues DEF EditFields
  <2> QED
    BY <1>3, <2>1 DEF EditFields, Quiet
<1>4. CASE AutoInitiate \/ RefreshCode \/ RetryPairing
  <2>1. Asks(page, tasks)
    BY <1>4 DEF AutoInitiate, RefreshCode, RetryPairing
  <2> QED
    BY <1>0, <1>4, <2>1, AsksContinue DEF AutoInitiate, RefreshCode, RetryPairing, Quiet
<1>5. CASE Poll
  <2>1. Continues(tasks', tasks)
    BY <1>0, <1>5, OneMoreContinues DEF Poll
  <2> QED
    BY <1>5, <2>1 DEF Poll, Quiet
<1>6. ASSUME NEW t \in tasks, ServeCode(t)
      PROVE  Quiet
  <2>1. t \in CodeTasks(DOMAIN codes)
    BY <1>0, <1>6 DEF ServeCode, Tasks, PollTasks, PairTasks, DisconnectTasks, NowTasks
  <2>2. PICK got : tasks' = (tasks \ {t}) \cup {[t EXCEPT !.got = got]}
    BY <1>6 DEF ServeCode
  <2>3. [t EXCEPT !.got = got].kind = "code"
    BY <2>1 DEF CodeTasks
  <2>4. Continues(tasks \ {t}, tasks)
    BY FewerContinue
  <2>5. Continues(tasks', tasks)
    BY <2>2, <2>3, <2>4, OneMoreContinues
  <2> QED
    BY <1>6, <2>5 DEF ServeCode, Quiet
<1>7. ASSUME NEW t \in tasks, CodeAnswered(t)
      PROVE  Quiet
  <2>1. tasks \ {t} \in SUBSET Tasks(DOMAIN codes) /\ Continues(tasks \ {t}, tasks)
    BY <1>0, FewerContinue
  <2>2. Continues(tasks', tasks)
    BY <1>7, <2>1, OverdueContinues, ContinuesOn DEF CodeAnswered
  <2> QED
    BY <1>7, <2>2 DEF CodeAnswered, Quiet
<1> QED
  BY <1>1, <1>2, <1>3, <1>4, <1>5, <1>6, <1>7

LEMMA QuietButtons ==
    ASSUME PairingTypeOK,
           \/ (\E s \in Sites : HandlePair(s)) \/ HandleDisconnect \/ HandleSaveConfig \/ HandleManualSync
           \/ (\E t \in tasks : ManualSyncAnswered(t) \/ FirstSynced(t))
           \/ SnapshotRefreshed \/ RefreshFailed \/ RetryLoad \/ SyncTimer
    PROVE  Quiet
<1> USE DEF mainState, others, view
<1>0. tasks \in SUBSET Tasks(DOMAIN codes) /\ Continues(tasks, tasks)
  BY FewerContinue DEF PairingTypeOK
<1>1. CASE \E s \in Sites : HandlePair(s)
  <2>1. Continues(Overdue(tasks, {"poll"}), tasks)
    BY <1>0, OverdueContinues
  <2>2. Continues(tasks', tasks)
    BY <1>1, <2>1, OneMoreContinues DEF HandlePair
  <2> QED
    BY <1>1, <2>2 DEF HandlePair, Quiet
<1>2. CASE HandleDisconnect
  <2>1. Continues(tasks', tasks)
    BY <1>0, <1>2, OneMoreContinues DEF HandleDisconnect
  <2> QED
    BY <1>2, <2>1 DEF HandleDisconnect, Quiet
<1>3. CASE HandleSaveConfig
  <2>1. store'.site = store.site
    BY <1>3 DEF HandleSaveConfig, PairingTypeOK, Stores
  <2>2. Continues(tasks', tasks)
    BY <1>0, <1>3, OverdueContinues DEF HandleSaveConfig
  <2> QED
    BY <1>3, <2>1, <2>2 DEF HandleSaveConfig, Quiet
<1>4. CASE HandleManualSync
  <2>1. Continues(tasks', tasks)
    BY <1>0, <1>4, OneMoreContinues DEF HandleManualSync
  <2> QED
    BY <1>4, <2>1 DEF HandleManualSync, Syncs, Quiet
<1>5. ASSUME NEW t \in tasks, ManualSyncAnswered(t)
      PROVE  Quiet
  <2>1. Continues(tasks', tasks)
    BY <1>5, FewerContinue DEF ManualSyncAnswered
  <2> QED
    BY <1>5, <2>1 DEF ManualSyncAnswered, Quiet
<1>6. ASSUME NEW t \in tasks, FirstSynced(t)
      PROVE  Quiet
  <2>1. Continues(tasks', tasks)
    BY <1>6, ReplyContinues DEF FirstSynced
  <2> QED
    BY <1>6, <2>1 DEF FirstSynced, Quiet
<1>7. ASSUME NEW s, PageShows(s)
      PROVE  Continues(tasks', tasks)
  BY <1>0, <1>7, OverdueContinues DEF PageShows
<1>8. CASE SnapshotRefreshed \/ RefreshFailed
  BY <1>7, <1>8 DEF SnapshotRefreshed, RefreshFailed, Quiet
<1>9. CASE RetryLoad \/ SyncTimer
  BY <1>0, <1>9 DEF RetryLoad, SyncTimer, Syncs, Quiet
<1> QED
  BY <1>1, <1>2, <1>3, <1>4, <1>5, <1>6, <1>8, <1>9

\* A location is connected when nothing else is, and it is that of the rows or
\* there are none.
LEMMA ConnectsKeeps ==
    ASSUME PairingTypeOK, Origins, NEW t \in tasks, t.kind \in {"poll", "pair"}, NEW site \in Sites,
           Connects(t, site), UNCHANGED <<local, exchange, copied>>,
           ~Slipped => (FromHere(site) \/ InScope = {})
    PROVE  Origins'
<1> SUFFICES ASSUME ~Slipped'
             PROVE  (HeldForOrigin /\ LeftScope /\ ExchangesHere /\ AssignsHere /\ OneAtATime /\ CopiedHome)'
  BY DEF Origins
<1>1. ~Slipped /\ ~Connected /\ ~Leaves(tasks)
  BY Waiting DEF Connects, Slipped
<1>2. HeldForOrigin /\ ExchangesHere /\ AssignsHere /\ CopiedHome
  BY <1>1 DEF Origins
<1>3. store'.site = site /\ origin' = site /\ site # Nobody /\ Connected' /\ Scope(store) = Nobody
  BY <1>1, PairingAssumption DEF Connects, Connected, Scope
<1>4. \A r \in local : r.scope = Nobody /\ r.of \in {Nobody, site}
  <2>1. \A r \in local : r.scope = Nobody /\ r.of \in {Nobody, origin}
    BY <1>2, <1>3 DEF HeldForOrigin
  <2> QED
    BY <1>1, <1>3, <2>1 DEF FromHere, InScope
<1>5. HeldForOrigin' /\ CopiedHome' /\ ExchangesHere'
  BY <1>1, <1>2, <1>3, <1>4 DEF HeldForOrigin, CopiedHome, ExchangesHere
<1>6. \A s \in Assigns(tasks) : FALSE
  BY <1>1, <1>2, PairingAssumption DEF AssignsHere, Connected
<1>7. Assigns(tasks') \subseteq {site} /\ ~Leaves(tasks')
  <2>1. t \in PollTasks(DOMAIN codes) \cup PairTasks
    BY DEF PairingTypeOK, Tasks, CodeTasks, DisconnectTasks, NowTasks
  <2> DEFINE u == [t EXCEPT !.at = "assign", !.site = site]
  <2>2. u.kind = t.kind /\ u.site = site
    BY <2>1 DEF PollTasks, PairTasks
  <2>3. tasks' = (tasks \ {t}) \cup {u}
    BY DEF Connects, Instead
  <2> HIDE DEF u
  <2> QED
    BY <1>1, <1>6, <2>2, <2>3 DEF Assigns, Leaves
<1>8. LeftScope' /\ AssignsHere' /\ OneAtATime'
  BY <1>3, <1>7 DEF LeftScope, AssignsHere, OneAtATime
<1> QED
  BY <1>5, <1>8

LEMMA FailsQuiet ==
    ASSUME PairingTypeOK, NEW t \in tasks, HandlerFails(t), UNCHANGED <<origin, local, copied, exchange>>,
           slips \subseteq slips', store'.site = store.site
    PROVE  Quiet
BY ReplyContinues DEF HandlerFails, Quiet

LEMMA ValidatedKeeps ==
    ASSUME PairingTypeOK, Origins, NEW t \in tasks, t.kind \in {"poll", "pair"}, NEW site \in Sites,
           Validated(t, site), UNCHANGED <<local, exchange, copied>>
    PROVE  Origins'
<1>1. CASE HandlerFails(t) /\ UNCHANGED <<store, origin, slips, failures>>
  BY <1>1, FailsQuiet, QuietKeeps
<1>2. CASE FromHere(site) /\ Connects(t, site)
  BY <1>2, ConnectsKeeps
<1>3. CASE /\ Instead(t, [t EXCEPT !.at = "verify", !.site = site])
           /\ UNCHANGED <<store, origin, slips, stale, sheetOpen, failures>>
  <2>1. t \in PollTasks(DOMAIN codes) \cup PairTasks
    BY DEF PairingTypeOK, Tasks, CodeTasks, DisconnectTasks, NowTasks
  <2> DEFINE u == [t EXCEPT !.at = "verify", !.site = site]
  <2>2. u.kind = t.kind /\ u.at = "verify"
    BY <2>1 DEF PollTasks, PairTasks
  <2>3. Continues(tasks \ {t}, tasks)
    BY FewerContinue
  <2>4. tasks' = (tasks \ {t}) \cup {u}
    BY <1>3 DEF Instead
  <2> HIDE DEF u
  <2>5. Continues(tasks', tasks)
    BY <2>2, <2>3, <2>4, OneMoreContinues
  <2> QED
    BY <1>3, <2>5, QuietKeeps DEF Quiet
<1> QED
  BY <1>1, <1>2, <1>3 DEF Validated

LEMMA PairingKeeps ==
    ASSUME PairingTypeOK, Origins, NEW t \in tasks, ServePoll(t) \/ ServePair(t) \/ Verified(t)
    PROVE  Origins'
<1>1. CASE ServePoll(t)
  <2>1. t.code \in DOMAIN codes
    BY <1>1, StagesTyped DEF ServePoll, PairingTypeOK
  <2>2. CASE codes[t.code].state = "approved" /\ Validated(t, codes[t.code].site)
    BY <1>1, <2>1, <2>2, ValidatedKeeps DEF ServePoll, CodesOK, PairingTypeOK
  <2>3. CASE Reply(t, codes[t.code].state) /\ UNCHANGED <<store, origin, slips, stale, failures>>
    BY <1>1, <2>3, ReplyContinues, QuietKeeps DEF ServePoll, Quiet
  <2>4. CASE HandlerFails(t) /\ UNCHANGED <<store, origin, slips>>
    BY <1>1, <2>4, FailsQuiet, QuietKeeps DEF ServePoll
  <2> QED
    BY <1>1, <2>2, <2>3, <2>4 DEF ServePoll
<1>2. CASE ServePair(t)
  <2>1. CASE Validated(t, t.site)
    BY <1>2, <2>1, StagesTyped, ValidatedKeeps DEF ServePair, PairingTypeOK
  <2>2. CASE HandlerFails(t) /\ UNCHANGED <<store, origin, slips>>
    BY <1>2, <2>2, FailsQuiet, QuietKeeps DEF ServePair
  <2> QED
    BY <1>2, <2>1, <2>2 DEF ServePair
<1>3. CASE Verified(t)
  <2>1. CASE InScope = {} /\ Connects(t, t.site)
    BY <1>3, <2>1, StagesTyped, ConnectsKeeps DEF Verified, PairingTypeOK
  <2>2. CASE HandlerFails(t) /\ UNCHANGED <<store, origin, slips>>
    BY <1>3, <2>2, FailsQuiet, QuietKeeps DEF Verified
  <2> QED
    BY <1>3, <2>1, <2>2 DEF Verified
<1> QED
  BY <1>1, <1>2, <1>3

\* The rows are assigned to the location they are held for.
LEMMA TakenHeld ==
    ASSUME PairingTypeOK, HeldForOrigin, AssignsHere, NEW t \in tasks, t.kind \in {"poll", "pair"}, t.at = "assign"
    PROVE  /\ \A r \in Taken(t.site) : r.of \in {Nobody, origin} /\ r.scope \in {Nobody, Scope(store)}
           /\ store.site = t.site /\ t.site \in Sites
<1>1. store.site = t.site /\ t.site \in Sites
  BY DEF AssignsHere, Assigns
<1>2. Scope(store) = OrgOf[t.site]
  BY <1>1, PairingAssumption DEF Scope
<1>3. ASSUME NEW r \in local
      PROVE  LET row == IF r.scope = Nobody THEN [r EXCEPT !.scope = OrgOf[t.site]] ELSE r
             IN  row.of \in {Nobody, origin} /\ row.scope \in {Nobody, Scope(store)}
  BY <1>2 DEF HeldForOrigin, PairingTypeOK, Rows
<1> QED
  BY <1>1, <1>3 DEF Taken

LEMMA AssignedKeeps ==
    ASSUME PairingTypeOK, Origins, NEW t \in tasks, Assigned(t)
    PROVE  Origins'
<1> SUFFICES ASSUME ~Slipped'
             PROVE  (HeldForOrigin /\ LeftScope /\ ExchangesHere /\ AssignsHere /\ OneAtATime /\ CopiedHome)'
  BY DEF Origins
<1>1. ~Slipped
  BY DEF Assigned, Slipped
<1>2. HeldForOrigin /\ LeftScope /\ ExchangesHere /\ AssignsHere /\ OneAtATime /\ CopiedHome
  BY <1>1 DEF Origins
<1>3. t.kind \in {"poll", "pair"} /\ t.at = "assign"
  BY DEF Assigned
<1>4. ~Leaves(tasks)
  BY <1>2, <1>3 DEF OneAtATime, Assigns
<1>5. store'.site = store.site /\ UNCHANGED <<origin, copied>> /\ local' \in {local, Taken(t.site)}
  BY DEF Assigned, PairingTypeOK, Stores
<1>6. Scope(store') = Scope(store) /\ (Connected' <=> Connected)
  BY <1>5 DEF Scope, Connected
<1>7. HeldForOrigin'
  BY <1>2, <1>3, <1>5, <1>6, TakenHeld DEF HeldForOrigin
<1>8. CopiedHome'
  BY <1>2, <1>5 DEF CopiedHome
<1>9. exchange' \in {exchange, Begun, NoExchange}
  BY DEF Assigned, Syncs
<1>10. ExchangesHere'
  BY <1>2, <1>5, <1>6, <1>9 DEF ExchangesHere, Begun, NoExchange, Connected
<1>11. Continues(tasks', tasks)
  <2>1. CASE Instead(t, [t EXCEPT !.at = IF Waits(Running(store)) THEN "sync" ELSE "queued"])
    <3>1. PICK at \in {"sync", "queued"} : Instead(t, [t EXCEPT !.at = at])
      BY <2>1
    <3>2. t \in PollTasks(DOMAIN codes) \cup PairTasks
      BY <1>3 DEF PairingTypeOK, Tasks, CodeTasks, DisconnectTasks, NowTasks
    <3> DEFINE u == [t EXCEPT !.at = at]
    <3>3. u.kind = t.kind /\ u.at # "assign"
      BY <3>2 DEF PollTasks, PairTasks
    <3>4. tasks' = (tasks \ {t}) \cup {u} /\ Continues(tasks \ {t}, tasks)
      BY <3>1, FewerContinue DEF Instead
    <3> HIDE DEF u
    <3> QED
      BY <1>3, <3>3, <3>4, OneMoreContinues
  <2>2. CASE HandlerFails(t)
    BY <2>2, ReplyContinues DEF HandlerFails
  <2> QED
    BY <2>1, <2>2 DEF Assigned
<1>12. LeftScope' /\ AssignsHere' /\ OneAtATime'
  BY <1>2, <1>4, <1>5, <1>11 DEF LeftScope, AssignsHere, OneAtATime, Continues
<1> QED
  BY <1>7, <1>8, <1>10, <1>12

\* The rows leave the scope, and nothing takes them back before the connection
\* is cleared.
LEMMA UnpairedKeeps ==
    ASSUME PairingTypeOK, Origins, NEW t \in tasks, Unpaired(t)
    PROVE  Origins'
<1> DEFINE left == {IF Scope(store) \in {r.scope, Nobody} THEN [r EXCEPT !.scope = Nobody] ELSE r : r \in local}
<1> SUFFICES ASSUME ~Slipped'
             PROVE  (HeldForOrigin /\ LeftScope /\ ExchangesHere /\ AssignsHere /\ OneAtATime /\ CopiedHome)'
  BY DEF Origins
<1>1. ~Slipped /\ slips \subseteq slips'
  BY DEF Unpaired, Slipped
<1>2. HeldForOrigin /\ LeftScope /\ ExchangesHere /\ AssignsHere /\ OneAtATime /\ CopiedHome
  BY <1>1 DEF Origins
<1>3. \A r \in left : r.of \in {Nobody, origin} /\ r.scope = Nobody
  <2>1. ASSUME NEW r \in local
        PROVE  LET row == IF Scope(store) \in {r.scope, Nobody} THEN [r EXCEPT !.scope = Nobody] ELSE r
               IN  row.of \in {Nobody, origin} /\ row.scope = Nobody
    BY <1>2 DEF HeldForOrigin, PairingTypeOK, Rows
  <2> QED
    BY <2>1
<1> HIDE DEF left
<1>4. UNCHANGED <<store, exchange, copied>> /\ exchange.at = "idle"
  BY DEF Unpaired
<1>5. Scope(store') = Scope(store) /\ (Connected' <=> Connected)
  BY <1>4 DEF Connected
<1>6. CASE /\ local' = left
           /\ Instead(t, [t EXCEPT !.at = "remote"])
           /\ slips' = IF origin' # origin \/ Connecting THEN slips \cup {"crossed"} ELSE slips
  <2>1. origin' = origin /\ Assigns(tasks) = {}
    BY <1>6, Waiting DEF Slipped
  <2>2. HeldForOrigin' /\ LeftScope'
    BY <1>2, <1>3, <1>4, <1>5, <1>6, <2>1 DEF HeldForOrigin, LeftScope
  <2>3. Assigns(tasks') = {}
    <3>1. t \in DisconnectTasks
      BY DEF Unpaired, PairingTypeOK, Tasks, CodeTasks, PollTasks, PairTasks, NowTasks
    <3> DEFINE u == [t EXCEPT !.at = "remote"]
    <3>2. u.kind = "disconnect"
      BY <3>1 DEF DisconnectTasks
    <3>3. tasks' = (tasks \ {t}) \cup {u}
      BY <1>6 DEF Instead
    <3> HIDE DEF u
    <3> QED
      BY <2>1, <3>2, <3>3 DEF Assigns
  <2> QED
    BY <1>2, <1>4, <1>5, <2>2, <2>3 DEF ExchangesHere, AssignsHere, OneAtATime, CopiedHome
<1>7. CASE local' \in {local, left} /\ tasks' = tasks \ {t} /\ origin' = origin
  <2>1. Continues(tasks', tasks)
    BY <1>7, FewerContinue
  <2>2. HeldForOrigin' /\ LeftScope'
    BY <1>2, <1>3, <1>4, <1>5, <1>7, <2>1 DEF HeldForOrigin, LeftScope, Continues
  <2> QED
    BY <1>2, <1>4, <1>5, <2>1, <2>2 DEF ExchangesHere, AssignsHere, OneAtATime, CopiedHome, Continues
<1> QED
  BY <1>6, <1>7 DEF Unpaired, left

LEMMA DisconnectedKeeps ==
    ASSUME PairingTypeOK, Origins, NEW t \in tasks, Disconnected(t)
    PROVE  Origins'
<1> SUFFICES ASSUME ~Slipped'
             PROVE  (HeldForOrigin /\ LeftScope /\ ExchangesHere /\ AssignsHere /\ OneAtATime /\ CopiedHome)'
  BY DEF Origins
<1>1. ~Slipped /\ exchange.at = "idle"
  BY DEF Disconnected, Slipped
<1>2. HeldForOrigin /\ LeftScope /\ ExchangesHere /\ AssignsHere /\ OneAtATime /\ CopiedHome
  BY <1>1 DEF Origins
<1>3. Leaves(tasks)
  BY DEF Disconnected, Leaves
<1>4. ~Connected' /\ Scope(store') = Nobody /\ UNCHANGED <<exchange, origin, local, copied>> /\ tasks' = tasks \ {t}
  BY DEF Disconnected, Connected, Scope, PairingTypeOK, Stores
<1>5. Assigns(tasks') = {}
  BY <1>2, <1>3, <1>4 DEF OneAtATime, Assigns
<1>6. HeldForOrigin'
  BY <1>2, <1>3, <1>4 DEF HeldForOrigin, LeftScope
<1> QED
  BY <1>1, <1>2, <1>3, <1>4, <1>5, <1>6 DEF LeftScope, ExchangesHere, AssignsHere, OneAtATime, CopiedHome

LEMMA ExchangesKeep ==
    ASSUME PairingTypeOK, Origins, Push \/ Pull
    PROVE  Origins'
<1> SUFFICES ASSUME ~Slipped'
             PROVE  (HeldForOrigin /\ LeftScope /\ ExchangesHere /\ AssignsHere /\ OneAtATime /\ CopiedHome)'
  BY DEF Origins
<1>1. ~Slipped
  BY DEF Push, Pull, Slipped
<1>2. HeldForOrigin /\ LeftScope /\ ExchangesHere /\ AssignsHere /\ OneAtATime /\ CopiedHome
  BY <1>1 DEF Origins
<1>3. UNCHANGED <<store, origin, tasks>> /\ exchange.site = store.site /\ store.site = origin
  BY <1>2 DEF Push, Pull, view, ExchangesHere, HeldForOrigin
<1>4. Scope(store') = Scope(store) /\ (Connected' <=> Connected)
  BY <1>3 DEF Connected
<1>5. exchange' \in {exchange, Begun, NoExchange} \/ exchange' = [exchange EXCEPT !.at = "pull"]
  BY DEF Push, Pull, ExchangeEnds
<1>6. ExchangesHere'
  <2>1. exchange'.at # "idle" => exchange'.site = store.site /\ Connected
    BY <1>2, <1>3, <1>5 DEF ExchangesHere, Begun, NoExchange, Connected, PairingTypeOK, Push, Pull
  <2> QED
    BY <1>3, <1>4, <2>1 DEF ExchangesHere
<1>7. CASE UNCHANGED <<local, copied>>
  BY <1>2, <1>3, <1>4, <1>6, <1>7 DEF HeldForOrigin, LeftScope, AssignsHere, OneAtATime, CopiedHome
<1>8. CASE /\ Push
           /\ copied' = copied \cup {<<r.of, exchange.site>> : r \in InScope}
           /\ local' = {IF r \in InScope /\ r.of = Nobody THEN [r EXCEPT !.of = exchange.site] ELSE r : r \in local}
  <2>1. \A r \in local : r.of \in {Nobody, exchange.site}
    BY <1>2, <1>3 DEF HeldForOrigin
  <2>2. CopiedHome'
    BY <1>2, <1>8, <2>1 DEF CopiedHome, InScope
  <2>3. ASSUME NEW r \in local
        PROVE  LET row == IF r \in InScope /\ r.of = Nobody THEN [r EXCEPT !.of = exchange.site] ELSE r
               IN  row.of \in {Nobody, origin} /\ row.scope = r.scope
    BY <1>2, <1>3 DEF HeldForOrigin, PairingTypeOK, Rows
  <2>4. \A row \in local' : row.of \in {Nobody, origin} /\ \E r \in local : row.scope = r.scope
    BY <1>8, <2>3
  <2>5. HeldForOrigin' /\ LeftScope'
    BY <1>2, <1>3, <1>4, <2>4 DEF HeldForOrigin, LeftScope
  <2> QED
    BY <1>2, <1>3, <1>6, <2>2, <2>5 DEF AssignsHere, OneAtATime
<1>9. CASE Pull /\ local' = local \cup {[of |-> exchange.site, scope |-> Scope(store)]}
  <2>1. ~Leaves(tasks) /\ UNCHANGED copied
    BY <1>9, Waiting DEF Pull, Slipped
  <2>2. HeldForOrigin' /\ LeftScope'
    BY <1>2, <1>3, <1>4, <1>9, <2>1 DEF HeldForOrigin, LeftScope
  <2> QED
    BY <1>2, <1>3, <1>6, <2>1, <2>2 DEF AssignsHere, OneAtATime, CopiedHome
<1> QED
  BY <1>7, <1>8, <1>9 DEF Push, Pull

LEMMA OthersKeep ==
    ASSUME PairingTypeOK, Origins, Work \/ Relaunch
    PROVE  Origins'
<1> SUFFICES ASSUME ~Slipped'
             PROVE  (HeldForOrigin /\ LeftScope /\ ExchangesHere /\ AssignsHere /\ OneAtATime /\ CopiedHome)'
  BY DEF Origins
<1>1. ~Slipped
  BY DEF Work, Relaunch, Slipped
<1>2. HeldForOrigin /\ LeftScope /\ ExchangesHere /\ AssignsHere /\ OneAtATime /\ CopiedHome
  BY <1>1 DEF Origins
<1>3. UNCHANGED <<store, origin, copied>>
  BY DEF Work, Relaunch, mainState
<1>4. Scope(store') = Scope(store) /\ (Connected' <=> Connected)
  BY <1>3 DEF Connected
<1>5. CASE Work
  <2>1. ~Leaves(tasks) /\ UNCHANGED <<exchange, tasks>>
    BY <1>5, Waiting DEF Work, mainState, Slipped
  <2>2. local' = local \cup {[of |-> origin, scope |-> Scope(store)]}
    BY <1>2, <1>5 DEF Work, HeldForOrigin
  <2>3. HeldForOrigin' /\ LeftScope'
    BY <1>2, <1>3, <1>4, <2>1, <2>2 DEF HeldForOrigin, LeftScope
  <2> QED
    BY <1>2, <1>3, <1>4, <2>1, <2>3 DEF ExchangesHere, AssignsHere, OneAtATime, CopiedHome
<1>6. CASE Relaunch
  <2>1. tasks' = {} /\ exchange'.at = "idle" /\ UNCHANGED local
    BY <1>6 DEF Relaunch, NoExchange
  <2>2. Assigns(tasks') = {} /\ ~Leaves(tasks')
    BY <2>1 DEF Assigns, Leaves
  <2> QED
    BY <1>2, <1>3, <1>4, <2>1, <2>2
       DEF HeldForOrigin, LeftScope, ExchangesHere, AssignsHere, OneAtATime, CopiedHome
<1> QED
  BY <1>5, <1>6

PairingInv == PairingTypeOK /\ Origins

LEMMA PairingInductive == PairingSpec => []PairingInv
<1>1. PairingInit => PairingInv
  <2> SUFFICES ASSUME PairingInit
               PROVE  PairingInv
    OBVIOUS
  <2> USE DEF PairingInit
  <2>1. store \in Stores /\ origin \in SitesOrNone /\ (Connected => origin = store.site)
    <3>1. Nobody \in SitesOrNone /\ Sites \subseteq SitesOrNone /\ Nobody \notin Sites /\ Official \in Servers
      BY PairingAssumption DEF SitesOrNone
    <3>2. CASE store = [site |-> Nobody, enabled |-> FALSE, server |-> Official]
      <4>1. store.site = Nobody /\ store \in Stores
        BY <3>1, <3>2 DEF Stores
      <4> QED
        BY <3>1, <4>1 DEF Connected, SitesOrNone
    <3>3. CASE store \in [site : Sites, enabled : {TRUE}, server : {Official}]
      <4>1. store.site \in Sites /\ store \in Stores
        BY <3>1, <3>3 DEF Stores
      <4> QED
        BY <3>1, <4>1 DEF Connected
    <3> QED
      BY <3>2, <3>3
  <2>2. [of |-> origin, scope |-> Scope(store)] \in Rows
    BY <2>1, SiteScope DEF Rows
  <2>3. snap \in [ready : BOOLEAN, connected : BOOLEAN, server : Servers]
    BY <2>1 DEF Status, Connected, Stores
  <2>4. sheetOpen \in Sheets(DOMAIN codes) /\ CodesOK
    BY PairingAssumption DEF NoPageOpen, Sheets, CodesOK
  <2>5. exchange \in [at : {"idle", "push", "pull"}, site : SitesOrNone] /\ exchange.at = "idle"
    BY DEF NoExchange, SitesOrNone
  <2>6. PairingTypeOK
    BY <2>1, <2>2, <2>3, <2>4, <2>5 DEF PairingTypeOK
  <2>7. Assigns(tasks) = {} /\ ~Leaves(tasks)
    BY DEF Assigns, Leaves
  <2>8. HeldForOrigin
    BY <2>1 DEF HeldForOrigin
  <2> QED
    BY <2>5, <2>6, <2>7, <2>8 DEF PairingInv, Origins, LeftScope, ExchangesHere, AssignsHere, OneAtATime, CopiedHome
<1>2. PairingInv /\ [PairingNext]_pairingVars => PairingInv'
  <2> SUFFICES ASSUME PairingInv, [PairingNext]_pairingVars
               PROVE  Origins'
    BY PairingTyped DEF PairingInv
  <2>1. CASE UNCHANGED pairingVars
    BY <2>1 DEF pairingVars, PairingInv, Origins, Slipped, HeldForOrigin, LeftScope, ExchangesHere, AssignsHere,
                OneAtATime, CopiedHome, Connected
  <2>2. CASE PairingNext
    BY <2>2, QuietPage, QuietButtons, QuietKeeps, PairingKeeps, AssignedKeeps, UnpairedKeeps, DisconnectedKeeps,
       ExchangesKeep, OthersKeep DEF PairingNext, PairingInv
  <2> QED
    BY <2>1, <2>2
<1> QED
  BY <1>1, <1>2, PTL DEF PairingSpec

\* For any locations, organizations and servers, and any number of pairings,
\* codes, failures and launches: what belongs to a location is sent to no other
\* (validatePairingDestination in syncHandlers.ts), but for the named exceptions.
THEOREM DataStaysWithLocation == PairingSpec => []OriginKept
<1>1. PairingInv => OriginKept
  BY DEF PairingInv, Origins, Slipped, CopiedHome, OriginKept
<1> QED
  BY <1>1, PairingInductive, PTL

(***************************************************************************)
(* CloudPairing: handlers that will still do something for what is seen.   *)
(* One that pairs assigns the local rows, runs an exchange and has the     *)
(* window told; one that disconnects clears the connection.                *)
(***************************************************************************)
\* Such a handler stays where it is, whether its page is open or not.
Awaits(t, ats) == t.kind \in {"poll", "pair", "disconnect"} /\ t.at \in ats
Stay(us, ts, ats) == \A t \in ts : Awaits(t, ats) => \E u \in us : u.kind = t.kind /\ u.at = t.at /\ u.site = t.site

LEMMA OverdueStay ==
    ASSUME NEW ids, NEW ts \in SUBSET Tasks(ids), NEW kinds, NEW ats
    PROVE  Stay(Overdue(ts, kinds), ts, ats)
<1> SUFFICES ASSUME NEW t \in ts, Awaits(t, ats)
             PROVE  \E u \in Overdue(ts, kinds) : u.kind = t.kind /\ u.at = t.at /\ u.site = t.site
  BY DEF Stay
<1>1. t \in PollTasks(ids) \cup PairTasks \cup DisconnectTasks
  BY DEF Awaits, Tasks, CodeTasks, NowTasks
<1> DEFINE late == [t EXCEPT !.live = FALSE]
<1>2. late.kind = t.kind /\ late.at = t.at /\ late.site = t.site
  BY <1>1 DEF PollTasks, PairTasks, DisconnectTasks
<1>3. late \in Overdue(ts, kinds) \/ t \in Overdue(ts, kinds)
  BY DEF Overdue
<1> QED
  BY <1>2, <1>3

LEMMA OthersStay ==
    ASSUME NEW ts, NEW us, NEW t, NEW ats, ts \ {t} \subseteq us, ~Awaits(t, ats)
    PROVE  Stay(us, ts, ats)
BY DEF Stay

LEMMA AllStay ==
    ASSUME NEW ts, NEW us, NEW ats, ts \subseteq us
    PROVE  Stay(us, ts, ats)
BY DEF Stay

LEMMA StayOn ==
    ASSUME NEW ts, NEW us, NEW vs, NEW ats, Stay(us, ts, ats), Stay(vs, us, ats)
    PROVE  Stay(vs, ts, ats)
<1> SUFFICES ASSUME NEW t \in ts, Awaits(t, ats)
             PROVE  \E v \in vs : v.kind = t.kind /\ v.at = t.at /\ v.site = t.site
  BY DEF Stay
<1>1. PICK u \in us : u.kind = t.kind /\ u.at = t.at /\ u.site = t.site
  BY DEF Stay
<1>2. Awaits(u, ats)
  BY <1>1 DEF Awaits
<1> QED
  BY <1>1, <1>2 DEF Stay

LEMMA AsksStay ==
    ASSUME NEW ids, NEW p, NEW ts \in SUBSET Tasks(ids), NEW ats, Asks(p, ts)
    PROVE  Stay(tasks', ts, ats)
<1>1. Stay(Overdue(ts, {"code"}), ts, ats)
  BY OverdueStay
<1>2. Overdue(ts, {"code"}) \subseteq tasks'
  BY DEF Asks
<1> QED
  BY <1>1, <1>2, AllStay, StayOn

LEMMA ReplyStay ==
    ASSUME PairingTypeOK, NEW t \in tasks, NEW answer, NEW ats, ~Awaits(t, ats), Reply(t, answer)
    PROVE  Stay(tasks', tasks, ats)
<1> DEFINE rest == tasks \ {t}
<1>1. rest \in SUBSET Tasks(DOMAIN codes) /\ Stay(rest, tasks, ats)
  BY OthersStay DEF PairingTypeOK
<1>2. Stay(Overdue(rest, {"poll"}), rest, ats)
  BY <1>1, OverdueStay
<1>3. CASE Asks(page, rest)
  BY <1>1, <1>3, AsksStay, StayOn
<1>4. CASE tasks' = rest \/ tasks' = Overdue(rest, {"poll"})
  BY <1>1, <1>2, <1>4, StayOn
<1> QED
  BY <1>3, <1>4 DEF Reply

\* What the page and its buttons do ends none of them.
LEMMA PageStay ==
    ASSUME PairingTypeOK, NEW ats,
           \/ OpenPage \/ ClosePage \/ (\E s \in Servers : EditFields(s))
           \/ AutoInitiate \/ RefreshCode \/ RetryPairing \/ Poll
           \/ (\E t \in tasks : ServeCode(t) \/ CodeAnswered(t) \/ ManualSyncAnswered(t))
           \/ (\E c \in DOMAIN codes : Decide(c))
           \/ (\E s \in Sites : HandlePair(s)) \/ HandleDisconnect \/ HandleSaveConfig \/ HandleManualSync
           \/ SnapshotRefreshed \/ RefreshFailed \/ RetryLoad \/ SyncTimer \/ Push \/ Pull \/ Work
    PROVE  Stay(tasks', tasks, ats)
<1> USE DEF mainState, others, view
<1>0. tasks \in SUBSET Tasks(DOMAIN codes) /\ \A kinds : Stay(Overdue(tasks, kinds), tasks, ats)
  BY OverdueStay DEF PairingTypeOK
<1>1. CASE OpenPage \/ (\E c \in DOMAIN codes : Decide(c)) \/ RetryLoad \/ SyncTimer \/ Push \/ Pull \/ Work
  BY <1>1, AllStay DEF OpenPage, Decide, RetryLoad, SyncTimer, Push, Pull, Work
<1>2. CASE ClosePage \/ (\E s \in Servers : EditFields(s)) \/ HandleSaveConfig
  BY <1>0, <1>2 DEF ClosePage, EditFields, HandleSaveConfig
<1>3. CASE AutoInitiate \/ RefreshCode \/ RetryPairing
  BY <1>0, <1>3, AsksStay DEF AutoInitiate, RefreshCode, RetryPairing
<1>4. CASE Poll \/ HandleDisconnect \/ HandleManualSync
  BY <1>4, AllStay DEF Poll, HandleDisconnect, HandleManualSync
<1>5. CASE \E s \in Sites : HandlePair(s)
  <2>1. Overdue(tasks, {"poll"}) \subseteq tasks'
    BY <1>5 DEF HandlePair
  <2> QED
    BY <1>0, <2>1, AllStay, StayOn
<1>6. CASE SnapshotRefreshed \/ RefreshFailed
  BY <1>0, <1>6, AllStay DEF SnapshotRefreshed, RefreshFailed, PageShows
<1>7. ASSUME NEW t \in tasks, ServeCode(t) \/ ManualSyncAnswered(t)
      PROVE  Stay(tasks', tasks, ats)
  <2>1. ~Awaits(t, ats) /\ tasks \ {t} \subseteq tasks'
    BY <1>7 DEF ServeCode, ManualSyncAnswered, Awaits
  <2> QED
    BY <2>1, OthersStay
<1>8. ASSUME NEW t \in tasks, CodeAnswered(t)
      PROVE  Stay(tasks', tasks, ats)
  <2> DEFINE rest == tasks \ {t}
  <2>1. rest \in SUBSET Tasks(DOMAIN codes) /\ Stay(rest, tasks, ats)
    BY <1>0, <1>8, OthersStay DEF CodeAnswered, Awaits
  <2>2. \A kinds : Stay(Overdue(rest, kinds), rest, ats)
    BY <2>1, OverdueStay
  <2> QED
    BY <1>8, <2>1, <2>2, StayOn DEF CodeAnswered
<1> QED
  BY <1>1, <1>2, <1>3, <1>4, <1>5, <1>6, <1>7, <1>8

\* Every refresh of the window that is owed for the connection is under way, or
\* a handler that has connected will ask for it.
Pairs == {"assign", "sync", "queued"}
Owed(ts) == \E t \in ts : t.kind \in {"poll", "pair"} /\ t.at \in Pairs
ViewKept == "untold" \in slips \/ ~snap.ready \/ stale \/ Owed(tasks) \/ snap = Status

\* Unless a handler moves the rows, the application sees all of them.
InSight ==
    slips = {} /\ ~Leaves(tasks) /\ Assigns(tasks) = {} => \A r \in local : r.scope = Scope(store)

LEMMA ViewUndisturbed ==
    ASSUME ViewKept, Stay(tasks', tasks, Pairs), UNCHANGED snap, store'.site = store.site, store'.server = store.server,
           stale => stale', slips \subseteq slips'
    PROVE  ViewKept'
<1>1. Status' = Status
  BY DEF Status, Connected
<1>2. Owed(tasks) => Owed(tasks')
  <2> SUFFICES ASSUME NEW t \in tasks, t.kind \in {"poll", "pair"}, t.at \in Pairs
               PROVE  Owed(tasks')
    BY DEF Owed
  <2>1. PICK u \in tasks' : u.kind = t.kind /\ u.at = t.at
    BY DEF Stay, Awaits
  <2> QED
    BY <2>1 DEF Owed
<1> QED
  BY <1>1, <1>2 DEF ViewKept

LEMMA SightUndisturbed ==
    ASSUME InSight, Stay(tasks', tasks, {"assign", "remote"}), store'.site = store.site, slips \subseteq slips',
           \A row \in local' : row.scope = Scope(store) \/ \E r \in local : row.scope = r.scope
    PROVE  InSight'
<1>1. Scope(store') = Scope(store)
  BY DEF Scope
<1>2. Leaves(tasks) => Leaves(tasks')
  <2> SUFFICES ASSUME NEW t \in tasks, t.kind = "disconnect", t.at = "remote"
               PROVE  Leaves(tasks')
    BY DEF Leaves
  <2>1. PICK u \in tasks' : u.kind = t.kind /\ u.at = t.at
    BY DEF Stay, Awaits
  <2> QED
    BY <2>1 DEF Leaves
<1>3. Assigns(tasks) \subseteq Assigns(tasks')
  <2> SUFFICES ASSUME NEW t \in tasks, t.kind \in {"poll", "pair"}, t.at = "assign"
               PROVE  t.site \in Assigns(tasks')
    BY DEF Assigns
  <2>1. PICK u \in tasks' : u.kind = t.kind /\ u.at = t.at /\ u.site = t.site
    BY DEF Stay, Awaits
  <2> QED
    BY <2>1 DEF Assigns
<1> QED
  BY <1>1, <1>2, <1>3 DEF InSight

\* A handler that connects owes the rows and the window, one that does not
\* leaves both as they are.
LEMMA ConnectsOwes ==
    ASSUME PairingTypeOK, NEW t \in tasks, t.kind \in {"poll", "pair"}, NEW site \in Sites, Connects(t, site)
    PROVE  Owed(tasks') /\ Assigns(tasks') # {}
<1>1. t \in PollTasks(DOMAIN codes) \cup PairTasks
  BY DEF PairingTypeOK, Tasks, CodeTasks, DisconnectTasks, NowTasks
<1> DEFINE u == [t EXCEPT !.at = "assign", !.site = site]
<1>2. u.kind = t.kind /\ u.at = "assign"
  BY <1>1 DEF PollTasks, PairTasks
<1>3. u \in tasks'
  BY DEF Connects, Instead
<1> HIDE DEF u
<1> QED
  BY <1>2, <1>3 DEF Owed, Pairs, Assigns

LEMMA ServedOwes ==
    ASSUME PairingTypeOK, NEW t \in tasks, ServePoll(t) \/ ServePair(t) \/ Verified(t)
    PROVE  \/ Owed(tasks') /\ Assigns(tasks') # {}
           \/ UNCHANGED store /\ \A ats : ats \cap {"ask", "verify"} = {} => Stay(tasks', tasks, ats)
<1>1. t.kind \in {"poll", "pair"} /\ t.at \in {"ask", "verify"}
  BY DEF ServePoll, ServePair, Verified
<1>2. ASSUME NEW answer, Reply(t, answer), NEW ats, ats \cap {"ask", "verify"} = {}
      PROVE  Stay(tasks', tasks, ats)
  <2>1. ~Awaits(t, ats)
    BY <1>1, <1>2 DEF Awaits
  <2> QED
    BY <1>2, <2>1, ReplyStay
<1>3. ASSUME NEW u, Instead(t, u), NEW ats, ats \cap {"ask", "verify"} = {}
      PROVE  Stay(tasks', tasks, ats)
  <2>1. ~Awaits(t, ats) /\ tasks \ {t} \subseteq tasks'
    BY <1>1, <1>3 DEF Awaits, Instead
  <2> QED
    BY <2>1, OthersStay
<1>4. ASSUME NEW site \in Sites, Validated(t, site)
      PROVE  \/ Owed(tasks') /\ Assigns(tasks') # {}
             \/ UNCHANGED store /\ \A ats : ats \cap {"ask", "verify"} = {} => Stay(tasks', tasks, ats)
  <2>1. CASE Connects(t, site)
    BY <1>1, <2>1, ConnectsOwes
  <2>2. CASE HandlerFails(t) /\ UNCHANGED store
    BY <1>2, <2>2 DEF HandlerFails
  <2>3. CASE Instead(t, [t EXCEPT !.at = "verify", !.site = site]) /\ UNCHANGED store
    BY <1>3, <2>3
  <2> QED
    BY <1>4, <2>1, <2>2, <2>3 DEF Validated
<1>5. CASE ServePoll(t)
  <2>1. t.code \in DOMAIN codes
    BY <1>5, StagesTyped DEF ServePoll, PairingTypeOK
  <2>2. CASE codes[t.code].state = "approved" /\ Validated(t, codes[t.code].site)
    BY <1>4, <2>1, <2>2 DEF CodesOK, PairingTypeOK
  <2>3. CASE Reply(t, codes[t.code].state) /\ UNCHANGED store
    BY <1>2, <2>3
  <2>4. CASE HandlerFails(t) /\ UNCHANGED store
    BY <1>2, <2>4 DEF HandlerFails
  <2> QED
    BY <1>5, <2>2, <2>3, <2>4 DEF ServePoll
<1>6. CASE ServePair(t)
  <2>1. t.site \in Sites
    BY <1>6, StagesTyped DEF ServePair, PairingTypeOK
  <2>2. CASE HandlerFails(t) /\ UNCHANGED store
    BY <1>2, <2>2 DEF HandlerFails
  <2> QED
    BY <1>4, <1>6, <2>1, <2>2 DEF ServePair
<1>7. CASE Verified(t)
  <2>1. t.site \in Sites
    BY <1>7, StagesTyped DEF Verified, PairingTypeOK
  <2>2. CASE HandlerFails(t) /\ UNCHANGED store
    BY <1>2, <2>2 DEF HandlerFails
  <2> QED
    BY <1>1, <1>7, <2>1, <2>2, ConnectsOwes DEF Verified
<1> QED
  BY <1>5, <1>6, <1>7

LEMMA ServedKeeps ==
    ASSUME PairingTypeOK, ViewKept, InSight, NEW t \in tasks, ServePoll(t) \/ ServePair(t) \/ Verified(t)
    PROVE  ViewKept' /\ InSight'
<1>1. UNCHANGED <<snap, local>>
  BY DEF ServePoll, ServePair, Verified
<1>2. (stale => stale') /\ slips \subseteq slips'
  <2>0. HandlerFails(t) => (stale => stale')
    BY Zenon DEF HandlerFails
  <2>1. ASSUME NEW site, Validated(t, site)
        PROVE  (stale => stale') /\ slips \subseteq slips'
    <3>1. CASE HandlerFails(t) /\ UNCHANGED slips
      BY <3>1, <2>0
    <3>2. CASE Connects(t, site)
      <4>1. stale' = stale
        BY <3>2 DEF Connects
      <4>2. slips \subseteq slips'
        BY <3>2 DEF Connects
      <4> QED
        BY <4>1, <4>2
    <3>3. CASE UNCHANGED <<store, origin, slips, stale, sheetOpen, failures>>
      BY <3>3
    <3> QED
      BY <2>1, <3>1, <3>2, <3>3 DEF Validated
  <2>2. ASSUME HandlerFails(t) /\ UNCHANGED slips
        PROVE  (stale => stale') /\ slips \subseteq slips'
    BY <2>0, <2>2
  <2>3. CASE ServePoll(t)
    BY <2>1, <2>2, <2>3 DEF ServePoll
  <2>4. CASE ServePair(t)
    BY <2>1, <2>2, <2>4 DEF ServePair
  <2>5. CASE Verified(t)
    BY <2>2, <2>5 DEF Verified, Connects
  <2> QED
    BY <2>3, <2>4, <2>5
<1>3. CASE Owed(tasks') /\ Assigns(tasks') # {}
  BY <1>3 DEF ViewKept, InSight
<1>4. CASE UNCHANGED store /\ \A ats : ats \cap {"ask", "verify"} = {} => Stay(tasks', tasks, ats)
  <2>1. Stay(tasks', tasks, Pairs) /\ Stay(tasks', tasks, {"assign", "remote"})
    BY <1>4 DEF Pairs
  <2> QED
    BY <1>1, <1>2, <1>4, <2>1, ViewUndisturbed, SightUndisturbed
<1> QED
  BY <1>3, <1>4, ServedOwes

LEMMA AssignedShows ==
    ASSUME PairingTypeOK, Origins, ViewKept, InSight, NEW t \in tasks, Assigned(t)
    PROVE  ViewKept' /\ InSight'
<1>1. t.kind \in {"poll", "pair"} /\ t.at = "assign"
  BY DEF Assigned
<1>2. CASE /\ local' = Taken(t.site) /\ UNCHANGED <<store, slips>>
           /\ Instead(t, [t EXCEPT !.at = IF Waits(Running(store)) THEN "sync" ELSE "queued"])
  <2>1. Owed(tasks')
    <3>1. PICK at \in {"sync", "queued"} : Instead(t, [t EXCEPT !.at = at])
      BY <1>2
    <3>2. t \in PollTasks(DOMAIN codes) \cup PairTasks
      BY <1>1 DEF PairingTypeOK, Tasks, CodeTasks, DisconnectTasks, NowTasks
    <3> DEFINE u == [t EXCEPT !.at = at]
    <3>3. u.kind = t.kind /\ u.at = at
      BY <3>2 DEF PollTasks, PairTasks
    <3>4. u \in tasks'
      BY <3>1 DEF Instead
    <3> HIDE DEF u
    <3> QED
      BY <1>1, <3>3, <3>4 DEF Owed, Pairs
  <2>2. ASSUME slips = {}, NEW row \in Taken(t.site)
        PROVE  row.scope = Scope(store)
    <3>1. HeldForOrigin /\ AssignsHere
      BY <2>2 DEF Origins, Slipped
    <3>2. Scope(store) = OrgOf[t.site]
      BY <1>1, <3>1, TakenHeld, PairingAssumption DEF Scope
    <3>3. PICK r \in local : row = IF r.scope = Nobody THEN [r EXCEPT !.scope = OrgOf[t.site]] ELSE r
      BY <2>2 DEF Taken
    <3>4. r \in Rows /\ r.scope \in {Nobody, Scope(store)}
      BY <3>1 DEF HeldForOrigin, PairingTypeOK
    <3> QED
      BY <3>2, <3>3, <3>4 DEF Rows
  <2> QED
    BY <1>2, <2>1, <2>2 DEF ViewKept, InSight
<1>3. CASE HandlerFails(t) /\ slips' = slips \cup {IF t.kind = "poll" THEN "untold" ELSE "unassigned"}
  <2>1. "untold" \in slips' \/ stale'
    BY <1>1, <1>3 DEF HandlerFails
  <2> QED
    BY <1>3, <2>1 DEF ViewKept, InSight
<1> QED
  BY <1>2, <1>3 DEF Assigned

LEMMA DisconnectShows ==
    ASSUME PairingTypeOK, Origins, ViewKept, InSight, NEW t \in tasks, Unpaired(t) \/ Disconnected(t)
    PROVE  ViewKept' /\ InSight'
<1>1. CASE Unpaired(t)
  <2>1. \A ats : "suspend" \notin ats => ~Awaits(t, ats)
    BY <1>1 DEF Unpaired, Awaits
  <2>2. tasks \ {t} \subseteq tasks'
    BY <1>1 DEF Unpaired, Instead
  <2>3. Stay(tasks', tasks, Pairs) /\ Stay(tasks', tasks, {"assign", "remote"})
    BY <2>1, <2>2, OthersStay DEF Pairs
  <2>4. UNCHANGED <<store, snap, stale>> /\ slips \subseteq slips'
    BY <1>1 DEF Unpaired
  <2>5. ViewKept'
    BY <2>3, <2>4, ViewUndisturbed
  <2>6. CASE Instead(t, [t EXCEPT !.at = "remote"])
    <3>1. t \in DisconnectTasks
      BY <1>1 DEF Unpaired, PairingTypeOK, Tasks, CodeTasks, PollTasks, PairTasks, NowTasks
    <3> DEFINE u == [t EXCEPT !.at = "remote"]
    <3>2. u.kind = "disconnect" /\ u.at = "remote"
      BY <3>1 DEF DisconnectTasks
    <3>3. u \in tasks'
      BY <2>6 DEF Instead
    <3> HIDE DEF u
    <3> QED
      BY <2>5, <3>2, <3>3 DEF InSight, Leaves
  <2>7. CASE slips' = IF local' # local THEN slips \cup {"unanswered"} ELSE slips
    <3>1. CASE local' = local
      BY <2>3, <2>4, <2>5, <3>1, SightUndisturbed
    <3>2. CASE local' # local
      BY <2>5, <2>7, <3>2 DEF InSight
    <3> QED
      BY <3>1, <3>2
  <2> QED
    BY <1>1, <2>6, <2>7 DEF Unpaired
<1>2. CASE Disconnected(t)
  <2>1. ViewKept'
    BY <1>2 DEF Disconnected, ViewKept
  <2>2. ASSUME slips' = {}
        PROVE  \A r \in local' : r.scope = Nobody
    <3>1. Leaves(tasks) /\ slips = {} /\ local' = local
      BY <1>2, <2>2 DEF Disconnected, Leaves
    <3> QED
      BY <3>1 DEF Origins, Slipped, LeftScope
  <2>3. Scope(store') = Nobody
    BY <1>2 DEF Disconnected, Scope, PairingTypeOK, Stores
  <2> QED
    BY <2>1, <2>2, <2>3 DEF InSight
<1> QED
  BY <1>1, <1>2

LEMMA PageShowsAll ==
    ASSUME PairingTypeOK, ViewKept, InSight,
           \/ OpenPage \/ ClosePage \/ (\E s \in Servers : EditFields(s))
           \/ AutoInitiate \/ RefreshCode \/ RetryPairing \/ Poll
           \/ (\E t \in tasks : ServeCode(t) \/ CodeAnswered(t) \/ ManualSyncAnswered(t))
           \/ (\E c \in DOMAIN codes : Decide(c))
           \/ (\E s \in Sites : HandlePair(s)) \/ HandleDisconnect \/ HandleSaveConfig \/ HandleManualSync
           \/ SnapshotRefreshed \/ RefreshFailed \/ RetryLoad \/ SyncTimer \/ Push \/ Pull \/ Work
    PROVE  ViewKept' /\ InSight'
<1> USE DEF mainState, others, view
<1>1. Stay(tasks', tasks, Pairs) /\ Stay(tasks', tasks, {"assign", "remote"})
  BY PageStay
<1>2. store'.site = store.site /\ slips \subseteq slips'
  <2>1. CASE HandleSaveConfig
    BY <2>1 DEF HandleSaveConfig, PairingTypeOK, Stores
  <2>2. CASE Push \/ Pull \/ Work
    BY <2>2 DEF Push, Pull, Work
  <2>3. CASE \/ OpenPage \/ ClosePage \/ (\E s \in Servers : EditFields(s))
             \/ AutoInitiate \/ RefreshCode \/ RetryPairing \/ Poll
    BY <2>3 DEF OpenPage, ClosePage, EditFields, AutoInitiate, RefreshCode, RetryPairing, Poll
  <2>4. CASE \/ (\E t \in tasks : ServeCode(t) \/ CodeAnswered(t) \/ ManualSyncAnswered(t))
             \/ (\E c \in DOMAIN codes : Decide(c))
    BY <2>4 DEF ServeCode, CodeAnswered, ManualSyncAnswered, Decide
  <2>5. CASE (\E s \in Sites : HandlePair(s)) \/ HandleDisconnect \/ HandleManualSync
    BY <2>5 DEF HandlePair, HandleDisconnect, HandleManualSync
  <2>6. CASE SnapshotRefreshed \/ RefreshFailed \/ RetryLoad \/ SyncTimer
    BY <2>6 DEF SnapshotRefreshed, RefreshFailed, RetryLoad, SyncTimer
  <2> QED
    BY <2>1, <2>2, <2>3, <2>4, <2>5, <2>6
<1>3. InSight'
  <2>1. CASE UNCHANGED local
    BY <1>1, <1>2, <2>1, SightUndisturbed
  <2>2. CASE Pull \/ Work
    <3>1. \A row \in local' : row \in local \/ row.scope = Scope(store)
      BY <2>2 DEF Pull, Work
    <3> QED
      BY <1>1, <1>2, <3>1, SightUndisturbed
  <2>3. CASE local' = {IF r \in InScope /\ r.of = Nobody THEN [r EXCEPT !.of = exchange.site] ELSE r : r \in local}
    <3>1. \A r \in local : [r EXCEPT !.of = exchange.site].scope = r.scope
      BY DEF PairingTypeOK, Rows
    <3>2. \A row \in local' : \E r \in local : row.scope = r.scope
      BY <2>3, <3>1
    <3> QED
      BY <1>1, <1>2, <3>2, SightUndisturbed
  <2>4. CASE HandleSaveConfig \/ Push
    BY <2>1, <2>3, <2>4 DEF HandleSaveConfig, Push
  <2>5. CASE \/ OpenPage \/ ClosePage \/ (\E s \in Servers : EditFields(s))
             \/ AutoInitiate \/ RefreshCode \/ RetryPairing \/ Poll
    BY <2>1, <2>5 DEF OpenPage, ClosePage, EditFields, AutoInitiate, RefreshCode, RetryPairing, Poll
  <2>6. CASE \/ (\E t \in tasks : ServeCode(t) \/ CodeAnswered(t) \/ ManualSyncAnswered(t))
             \/ (\E c \in DOMAIN codes : Decide(c))
    BY <2>1, <2>6 DEF ServeCode, CodeAnswered, ManualSyncAnswered, Decide
  <2>7. CASE (\E s \in Sites : HandlePair(s)) \/ HandleDisconnect \/ HandleManualSync
    BY <2>1, <2>7 DEF HandlePair, HandleDisconnect, HandleManualSync
  <2>8. CASE SnapshotRefreshed \/ RefreshFailed \/ RetryLoad \/ SyncTimer
    BY <2>1, <2>8 DEF SnapshotRefreshed, RefreshFailed, RetryLoad, SyncTimer
  <2> QED
    BY <2>2, <2>4, <2>5, <2>6, <2>7, <2>8
<1>4. ViewKept'
  <2>1. CASE UNCHANGED <<snap, store>> /\ (stale => stale')
    BY <1>1, <1>2, <2>1, ViewUndisturbed
  <2>2. CASE HandleSaveConfig
    BY <2>2 DEF HandleSaveConfig, ViewKept
  <2>3. CASE SnapshotRefreshed
    BY <2>3 DEF SnapshotRefreshed, PageShows, ViewKept, Status, Connected
  <2>4. CASE RefreshFailed
    BY <2>4 DEF RefreshFailed, PageShows, ViewKept, PairingTypeOK
  <2>5. CASE \/ OpenPage \/ ClosePage \/ (\E s \in Servers : EditFields(s))
             \/ AutoInitiate \/ RefreshCode \/ RetryPairing \/ Poll
    BY <2>1, <2>5 DEF OpenPage, ClosePage, EditFields, AutoInitiate, RefreshCode, RetryPairing, Poll
  <2>6. CASE \/ (\E t \in tasks : ServeCode(t) \/ CodeAnswered(t) \/ ManualSyncAnswered(t))
             \/ (\E c \in DOMAIN codes : Decide(c))
    BY <2>1, <2>6 DEF ServeCode, CodeAnswered, ManualSyncAnswered, Decide
  <2>7. CASE (\E s \in Sites : HandlePair(s)) \/ HandleDisconnect \/ HandleManualSync
    BY <2>1, <2>7 DEF HandlePair, HandleDisconnect, HandleManualSync
  <2>8. CASE RetryLoad \/ SyncTimer \/ Push \/ Work
    BY <2>1, <2>8 DEF RetryLoad, SyncTimer, Push, Work
  <2>9. CASE Pull
    <3>1. UNCHANGED <<snap, store>> /\ stale' = (stale \/ ~manager.suspended)
      BY <2>9 DEF Pull
    <3>2. stale => stale'
      BY <3>1, Zenon
    <3> QED
      BY <2>1, <3>1, <3>2
  <2> QED
    BY <2>2, <2>3, <2>4, <2>5, <2>6, <2>7, <2>8, <2>9
<1> QED
  BY <1>3, <1>4

LEMMA EndsShow ==
    ASSUME PairingTypeOK, ViewKept, InSight, (\E t \in tasks : FirstSynced(t)) \/ Relaunch
    PROVE  ViewKept' /\ InSight'
<1> USE DEF mainState, others, view
<1>1. ASSUME NEW t \in tasks, FirstSynced(t)
      PROVE  ViewKept' /\ InSight'
  <2>1. ~Awaits(t, {"assign", "remote"}) /\ Reply(t, "approved")
    BY <1>1 DEF FirstSynced, Awaits
  <2>2. Stay(tasks', tasks, {"assign", "remote"})
    BY <2>1, ReplyStay
  <2> QED
    BY <1>1, <2>2, SightUndisturbed DEF FirstSynced, ViewKept
<1>2. CASE Relaunch
  <2>1. snap' = Status' /\ UNCHANGED <<store, local>>
    BY <1>2 DEF Relaunch, Status, Connected
  <2>2. slips' = {} => slips = {} /\ ~Leaves(tasks) /\ Assigns(tasks) = {}
    BY <1>2, Waiting DEF Relaunch
  <2> QED
    BY <2>1, <2>2 DEF ViewKept, InSight
<1> QED
  BY <1>1, <1>2

LEMMA SeenInductive == PairingSpec => [](ViewKept /\ InSight)
<1>1. PairingInit => ViewKept /\ InSight
  BY DEF PairingInit, ViewKept, InSight
<1>2. PairingInv /\ ViewKept /\ InSight /\ [PairingNext]_pairingVars => (ViewKept /\ InSight)'
  <2> SUFFICES ASSUME PairingInv, ViewKept, InSight, [PairingNext]_pairingVars
               PROVE  ViewKept' /\ InSight'
    OBVIOUS
  <2>1. CASE UNCHANGED pairingVars
    BY <2>1 DEF pairingVars, ViewKept, InSight, Status, Connected
  <2>2. CASE PairingNext
    BY <2>2, PageShowsAll, EndsShow, ServedKeeps, AssignedShows, DisconnectShows DEF PairingNext, PairingInv
  <2> QED
    BY <2>1, <2>2
<1> QED
  BY <1>1, <1>2, PairingInductive, PTL DEF PairingSpec

\* However pairings, disconnections and failures follow each other: once
\* nothing is under way, every row of this computer is in the scope the
\* application asks in (assign_organization_id, unassign_organization_id), but for the
\* named exceptions.
THEOREM NoRowIsStranded == PairingSpec => []NothingStranded
<1>1. InSight => NothingStranded
  BY DEF InSight, NothingStranded, Leaves, Assigns, InScope
<1> QED
  BY <1>1, SeenInductive, PTL

\* Every change of the connection reaches the window (cloudSyncState.ts), but
\* for that of a poll that could not assign the rows.
THEOREM ConnectionIsShown == PairingSpec => []ViewSettles
<1>1. PairingTypeOK /\ ViewKept => ViewSettles
  BY DEF ViewKept, ViewSettles, Owed
<1> QED
  BY <1>1, PairingInductive, SeenInductive, PTL DEF PairingInv

(***************************************************************************)
(* ScheduledReports: what the daily report owes to whom.  A slot is past   *)
(* or not, a job asks for every group from its first slot on, and once the *)
(* day's report is written it is either owed already or holds what an      *)
(* "Export now" promised.                                                  *)
(***************************************************************************)
Attended == [group : ReportGroups, slot : Nat, day : Int]
Exports == [enabled : BOOLEAN, time : 0 .. DaySlots - 1, directory : Folders, format : {"one", "each"},
            lastExportedDate : Int]
Jobs == [at : {"idle", "fetch", "write"}, day : Int, since : Int, format : {"one", "each"},
         directory : Folders \cup {Never}, left : SUBSET ReportGroups, rows : SUBSET Attended, byHand : BOOLEAN]
ReportFiles == [directory : Folders \cup {Never}, day : Int, of : SUBSET ReportGroups, rows : SUBSET Attended]

ReportsTypeOK ==
    /\ minute \in Nat
    /\ autoExport \in Exports
    /\ job \in Jobs
    /\ attended \subseteq Attended
    /\ reports \subseteq ReportFiles
    /\ owed \subseteq [day : Int, upTo : Int]
    /\ holdsUpTo \in Int

Due(d, t) == {e \in attended : e.day = d /\ e.slot < t}
Held(d) == UNION {r.rows : r \in ReportsOf(d)}
Exporting == job.at # "idle"

OwedPast == \A o \in owed : o.upTo <= minute

JobOfItsDay ==
    /\ ~Exporting => job = NoJob
    /\ Exporting => job.since \in Nat /\ job.day = job.since \div DaySlots /\ job.since <= minute

\* What a job will not ask for again it has, and it began when all was past
\* that is owed of its day.
JobComplete ==
    /\ Exporting => \A o \in owed : o.day = job.day => o.upTo <= job.since
    /\ Exporting /\ ~job.byHand => \E o \in owed : o.day = job.day
    /\ Exporting => \A e \in attended : e.slot < job.since /\ e.day = job.day => e.group \in job.left \/ e \in job.rows
    /\ job.at = "write" => job.left = {}

OwedHeld ==
    \A o \in owed : \/ Due(o.day, o.upTo) \subseteq Held(o.day)
                    \/ Exporting /\ job.day = o.day /\ autoExport.lastExportedDate # o.day

\* Today's report is not written again by the timer: it is owed, or holds what
\* the "Export now" found that wrote it.
HeldByHand ==
    /\ holdsUpTo <= minute /\ Due(Today, holdsUpTo) \subseteq Held(Today)
    /\ Exporting /\ job.day = Today => holdsUpTo <= job.since

WrittenToday ==
    /\ autoExport.lastExportedDate <= Today
    /\ autoExport.lastExportedDate = Today => (\E o \in owed : o.day = Today) \/ HeldByHand

GroupsApart == \A r \in reports : \A e \in r.rows : e.group \in r.of

ReportsKept == OwedPast /\ JobOfItsDay /\ JobComplete /\ OwedHeld /\ WrittenToday /\ GroupsApart
ReportsInv == ReportsTypeOK /\ ReportsKept

\* Slots and days.
LEMMA SlotOfDay == \A n \in Nat : n \div DaySlots \in Nat /\ n % DaySlots \in Nat /\ n % DaySlots < DaySlots
BY ReportsAssumption

LEMMA DaysInOrder == \A n, m \in Nat : n <= m => n \div DaySlots <= m \div DaySlots
BY ReportsAssumption

LEMMA NextSlot ==
    \A n \in Nat : IF (n + 1) % DaySlots = 0 THEN (n + 1) \div DaySlots > n \div DaySlots
                                             ELSE (n + 1) \div DaySlots = n \div DaySlots
BY ReportsAssumption

(***************************************************************************)
(* Types.                                                                  *)
(***************************************************************************)
LEMMA StartedTyped ==
    ASSUME ReportsTypeOK, NEW byHand \in BOOLEAN, Started(byHand)
    PROVE  /\ job' \in Jobs /\ job'.at = "fetch" /\ job'.day = Today /\ job'.since = minute
           /\ job'.left = ReportGroups /\ job'.byHand = byHand
<1>1. Today \in Int
  BY SlotOfDay DEF Today, ReportsTypeOK
<1>2. autoExport.format \in {"one", "each"} /\ autoExport.directory \in Folders \cup {Never} /\ minute \in Int
  BY DEF ReportsTypeOK, Exports
<1> QED
  BY <1>1, <1>2 DEF Started, Jobs

LEMMA OwesAdds ==
    ASSUME ReportsTypeOK, JobOfItsDay, Owes
    PROVE  \/ UNCHANGED owed
           \/ \E upTo \in Int :
                 /\ owed' = owed \cup {[day |-> Today, upTo |-> upTo]}
                 /\ upTo <= minute /\ upTo <= holdsUpTo /\ (job.byHand => upTo <= job.since)
                 /\ autoExport.enabled /\ TimeOfDay >= autoExport.time /\ job.day \in {Never, Today}
                 /\ \A o \in owed : o.day # Today
<1> DEFINE ends == {DueAt, holdsUpTo} \cup (IF job.byHand THEN {job.since} ELSE {})
<1>1. DueAt \in Int /\ holdsUpTo \in Int /\ job.since \in Int /\ minute \in Int
  <2>1. minute \in Int /\ TimeOfDay \in Int /\ autoExport.time \in Int
    BY SlotOfDay, ReportsAssumption DEF TimeOfDay, ReportsTypeOK, Exports
  <2> QED
    BY <2>1 DEF DueAt, ReportsTypeOK, Jobs
<1>2. TimeOfDay >= autoExport.time => DueAt <= minute
  <2>1. minute \in Int /\ TimeOfDay \in Int /\ autoExport.time \in Int
    BY SlotOfDay, ReportsAssumption DEF TimeOfDay, ReportsTypeOK, Exports
  <2> QED
    BY <2>1 DEF DueAt
<1>3. ends \subseteq Int
  BY <1>1
<1>4. DueAt \in ends /\ holdsUpTo \in ends /\ (job.byHand => job.since \in ends)
  OBVIOUS
<1>5. CASE UNCHANGED owed
  BY <1>5
<1>6. CASE /\ autoExport.enabled /\ TimeOfDay >= autoExport.time
           /\ job.day \in {Never, Today} /\ \A o \in owed : o.day # Today
           /\ \E upTo \in ends : (\A t \in ends : upTo <= t) /\ owed' = owed \cup {[day |-> Today, upTo |-> upTo]}
  <2>1. PICK upTo \in ends : (\A t \in ends : upTo <= t) /\ owed' = owed \cup {[day |-> Today, upTo |-> upTo]}
    BY <1>6
  <2> HIDE DEF ends
  <2>2. upTo \in Int /\ upTo <= DueAt /\ upTo <= holdsUpTo /\ (job.byHand => upTo <= job.since)
    BY <1>3, <1>4, <2>1
  <2>3. upTo <= minute
    BY <1>1, <1>2, <1>6, <2>2
  <2> QED
    BY <1>6, <2>1, <2>2, <2>3
<1> QED
  BY <1>5, <1>6 DEF Owes

LEMMA ReplacesTyped ==
    ASSUME ReportsTypeOK, NEW f \in SUBSET ReportGroups, NEW rows \in SUBSET Attended, Replaces(f, rows)
    PROVE  reports' \subseteq ReportFiles
<1>1. [directory |-> job.directory, day |-> job.day, of |-> f, rows |-> rows] \in ReportFiles
  BY DEF ReportsTypeOK, Jobs, ReportFiles
<1> QED
  BY <1>1 DEF Replaces, ReportsTypeOK

LEMMA FilesOfGroups == \A f \in Files : f \subseteq ReportGroups
BY DEF Files

LEMMA FetchedTyped ==
    ASSUME ReportsTypeOK, NEW g \in ReportGroups, FetchGroup(g)
    PROVE  /\ job' \in Jobs
           /\ job'.day = job.day /\ job'.since = job.since /\ job'.byHand = job.byHand
           /\ job'.left = job.left \ {g} /\ job'.at \in {"fetch", "write"}
           /\ job'.at = "write" => job'.left = {}
           /\ job'.rows = job.rows \cup {e \in attended : e.group = g /\ e.day = job.day}
<1> DEFINE got == job.rows \cup {e \in attended : e.group = g /\ e.day = job.day}
           rest == job.left \ {g}
<1>1. PICK at : at = IF job.left = {g} THEN "write" ELSE "fetch"
  OBVIOUS
<1>2. job' = [job EXCEPT !.rows = got, !.left = rest, !.at = at]
  BY <1>1 DEF FetchGroup
<1>3. got \in SUBSET Attended /\ rest \in SUBSET ReportGroups /\ at \in {"fetch", "write"}
  BY <1>1 DEF ReportsTypeOK, Jobs
<1>4. at = "write" => rest = {}
  BY <1>1
<1> HIDE DEF got, rest
<1>5. /\ job' \in Jobs /\ job'.day = job.day /\ job'.since = job.since /\ job'.byHand = job.byHand
      /\ job'.left = rest /\ job'.at = at /\ job'.rows = got
  BY <1>2, <1>3 DEF ReportsTypeOK, Jobs
<1> QED
  BY <1>3, <1>4, <1>5 DEF got, rest

LEMMA InterruptedTyped ==
    ASSUME ReportsTypeOK, Interrupted
    PROVE  job' \in Jobs /\ reports' \subseteq ReportFiles /\ owed' \subseteq owed /\ holdsUpTo' \in Int
<1>1. job' \in Jobs
  BY DEF Interrupted, NoJob, Jobs, Never
<1>2. ASSUME NEW f \in Files, Replaces(f, {})
      PROVE  reports' \subseteq ReportFiles
  BY <1>2, FilesOfGroups, ReplacesTyped
<1>3. owed' \subseteq owed /\ holdsUpTo' \in {holdsUpTo, 0}
  BY DEF Interrupted
<1> QED
  BY <1>1, <1>2, <1>3 DEF Interrupted, ReportsTypeOK

LEMMA SettingsTyped ==
    ASSUME ReportsTypeOK, HandleUpdateAutoExport
    PROVE  autoExport' \in Exports /\ autoExport'.lastExportedDate = autoExport.lastExportedDate
<1>1. CASE Switched
  BY <1>1 DEF Switched, ReportsTypeOK, Exports
<1>2. CASE TimeSet
  BY <1>2 DEF TimeSet, ReportsTypeOK, Exports
<1>3. CASE FormatSet
  BY <1>3 DEF FormatSet, ReportsTypeOK, Exports
<1>4. CASE FolderSet
  BY <1>4 DEF FolderSet, ReportsTypeOK, Exports
<1> QED
  BY <1>1, <1>2, <1>3, <1>4 DEF HandleUpdateAutoExport

LEMMA ExportedTyped ==
    ASSUME ReportsTypeOK, JobOfItsDay, Exported
    PROVE  /\ autoExport' \in Exports /\ autoExport'.lastExportedDate = job.day
           /\ job' \in Jobs /\ holdsUpTo' \in Int
<1>1. job.day \in Int /\ job.since \in Int
  BY DEF ReportsTypeOK, Jobs
<1>2. autoExport' \in Exports /\ autoExport'.lastExportedDate = job.day
  BY <1>1 DEF Exported, ReportsTypeOK, Exports
<1>3. job' \in Jobs
  BY DEF Exported, NoJob, Jobs, Never
<1>4. holdsUpTo' \in {holdsUpTo, job.since}
  BY DEF Exported
<1> QED
  BY <1>1, <1>2, <1>3, <1>4 DEF ReportsTypeOK

(***************************************************************************)
(* The steps.                                                              *)
(***************************************************************************)
\* Nothing of it changes.
LEMMA SettingsKeepReports ==
    ASSUME ReportsInv, UNCHANGED <<minute, job, attended, reports, owed, holdsUpTo>>,
           autoExport' \in Exports, autoExport'.lastExportedDate = autoExport.lastExportedDate
    PROVE  ReportsInv'
<1> USE DEF ReportsInv, ReportsKept
<1>1. ReportsTypeOK'
  BY DEF ReportsTypeOK
<1>2. Today' = Today /\ \A d : Held(d)' = Held(d)
  BY DEF Today, Held, ReportsOf
<1>3. \A d, t : Due(d, t)' = Due(d, t)
  BY DEF Due
<1>4. OwedPast' /\ JobOfItsDay' /\ JobComplete' /\ GroupsApart'
  BY DEF OwedPast, JobOfItsDay, JobComplete, GroupsApart, Exporting
<1>5. OwedHeld'
  BY <1>2, <1>3 DEF OwedHeld, Exporting
<1>6. WrittenToday'
  BY <1>2, <1>3 DEF WrittenToday, HeldByHand, Exporting
<1> QED
  BY <1>1, <1>4, <1>5, <1>6

\* A job that begins asks for everybody, and all that is owed is past.
LEMMA ByHandKeeps ==
    ASSUME ReportsInv, ~Exporting, Started(TRUE), UNCHANGED <<minute, autoExport, attended, reports, owed, holdsUpTo>>
    PROVE  ReportsInv'
<1> USE DEF ReportsInv, ReportsKept
<1>1. /\ job' \in Jobs /\ job'.at = "fetch" /\ job'.day = Today /\ job'.since = minute
      /\ job'.left = ReportGroups /\ job'.byHand = TRUE
  BY StartedTyped
<1>2. ReportsTypeOK'
  BY <1>1 DEF ReportsTypeOK
<1>3. Today' = Today /\ (\A d : Held(d)' = Held(d)) /\ (\A d, t : Due(d, t)' = Due(d, t))
  BY DEF Today, Held, ReportsOf, Due
<1>4. OwedPast' /\ GroupsApart'
  BY DEF OwedPast, GroupsApart
<1>5. JobOfItsDay'
  BY <1>1 DEF JobOfItsDay, Exporting, ReportsTypeOK, Today
<1>6. JobComplete'
  <2>1. \A e \in attended : e.group \in ReportGroups
    BY DEF ReportsTypeOK, Attended
  <2> QED
    BY <1>1, <2>1 DEF JobComplete, Exporting, OwedPast
<1>7. OwedHeld'
  BY <1>3 DEF OwedHeld
<1>8. WrittenToday'
  BY <1>1, <1>3 DEF WrittenToday, HeldByHand
<1> QED
  BY <1>2, <1>4, <1>5, <1>6, <1>7, <1>8

\* A check: what it adds to what is owed is past, and it is held or asked for.
LEMMA ChecksKeep ==
    ASSUME ReportsInv, Checks, UNCHANGED <<minute, autoExport, attended, reports, holdsUpTo>>
    PROVE  ReportsInv'
<1> USE DEF ReportsInv, ReportsKept
<1>1. Today' = Today /\ (\A d : Held(d)' = Held(d)) /\ (\A d, t : Due(d, t)' = Due(d, t))
  BY DEF Today, Held, ReportsOf, Due
<1>2. Today \in Nat /\ TimeOfDay \in Nat /\ minute \in Nat /\ autoExport.time \in Nat
  BY SlotOfDay, ReportsAssumption DEF Today, TimeOfDay, ReportsTypeOK, Exports
<1>3. ASSUME Exporting
      PROVE  job.day # Never /\ job.day = job.since \div DaySlots /\ job.since \in Nat
  BY <1>3, SlotOfDay DEF JobOfItsDay, Never
<1>4. owed \subseteq owed' /\ owed' \subseteq [day : Int, upTo : Int] /\ OwedPast'
  <2>1. ASSUME NEW upTo \in Int, owed' = owed \cup {[day |-> Today, upTo |-> upTo]}, upTo <= minute
        PROVE  owed \subseteq owed' /\ owed' \subseteq [day : Int, upTo : Int] /\ OwedPast'
    <3>1. [day |-> Today, upTo |-> upTo] \in [day : Int, upTo : Int]
      BY <1>2
    <3> QED
      BY <2>1, <3>1 DEF OwedPast, ReportsTypeOK
  <2>2. CASE UNCHANGED owed
    BY <2>2 DEF OwedPast, ReportsTypeOK
  <2> QED
    BY <2>1, <2>2, OwesAdds DEF Checks
<1>5. GroupsApart'
  BY DEF GroupsApart
<1>6. CASE autoExport.enabled /\ job.at = "idle" /\ IsDue /\ autoExport.lastExportedDate # Today
  <2>1. /\ job' \in Jobs /\ job'.at = "fetch" /\ job'.day = Today /\ job'.since = minute
        /\ job'.left = ReportGroups /\ job'.byHand = FALSE
    BY <1>6, StartedTyped DEF Checks
  <2>2. ~Exporting /\ job = NoJob
    BY <1>6 DEF JobOfItsDay, Exporting
  <2>3. \E o \in owed' : o.day = Today
    <3>1. job.day = Never /\ autoExport.enabled /\ TimeOfDay >= autoExport.time
      BY <1>6, <2>2 DEF NoJob, IsDue
    <3>2. CASE \A o \in owed : o.day # Today
      <4>1. PICK upTo : owed' = owed \cup {[day |-> Today, upTo |-> upTo]}
        BY <3>1, <3>2 DEF Checks, Owes
      <4> DEFINE new == [day |-> Today, upTo |-> upTo]
      <4>2. new.day = Today /\ new \in owed'
        BY <4>1
      <4> HIDE DEF new
      <4> QED
        BY <4>2
    <3> QED
      BY <1>4, <3>2
  <2>4. ReportsTypeOK'
    BY <1>4, <2>1 DEF ReportsTypeOK
  <2>5. JobOfItsDay'
    BY <1>2, <2>1 DEF JobOfItsDay, Exporting, Today
  <2>6. JobComplete'
    <3>1. \A e \in attended : e.group \in ReportGroups
      BY DEF ReportsTypeOK, Attended
    <3>2. \A o \in owed' : o.upTo <= minute
      BY <1>4 DEF OwedPast
    <3> QED
      BY <2>1, <2>3, <3>1, <3>2 DEF JobComplete, Exporting
  <2>7. OwedHeld'
    <3>1. \A o \in owed' : o \in owed \/ o.day = Today
      BY OwesAdds DEF Checks
    <3>2. \A o \in owed : Due(o.day, o.upTo) \subseteq Held(o.day)
      BY <2>2 DEF OwedHeld
    <3> QED
      BY <1>1, <1>6, <2>1, <3>1, <3>2 DEF OwedHeld, Exporting
  <2>8. WrittenToday'
    BY <1>1, <1>6 DEF WrittenToday
  <2> QED
    BY <1>4, <1>5, <2>4, <2>5, <2>6, <2>7, <2>8
<1>7. CASE ~(autoExport.enabled /\ job.at = "idle" /\ IsDue /\ autoExport.lastExportedDate # Today)
  <2>1. UNCHANGED job
    BY <1>7 DEF Checks
  <2>2. CASE UNCHANGED owed
    BY <2>1, <2>2, SettingsKeepReports DEF ReportsTypeOK
  <2>3. ASSUME NEW upTo \in Int, owed' = owed \cup {[day |-> Today, upTo |-> upTo]},
               upTo <= holdsUpTo, job.byHand => upTo <= job.since,
               autoExport.enabled, TimeOfDay >= autoExport.time, job.day \in {Never, Today},
               \A o \in owed : o.day # Today
        PROVE  ReportsInv'
    <3> DEFINE new == [day |-> Today, upTo |-> upTo]
    <3>0. new.day = Today /\ new.upTo = upTo /\ owed' = owed \cup {new}
      BY <2>3
    <3> HIDE DEF new
    <3>1. ReportsTypeOK' /\ JobOfItsDay'
      BY <1>4, <2>1 DEF ReportsTypeOK, JobOfItsDay, Exporting
    <3>2. ASSUME Exporting
          PROVE  upTo <= job.since
      <4>1. job.day = Today
        BY <1>3, <2>3, <3>2
      <4>2. job.byHand
        BY <2>3, <3>2, <4>1 DEF JobComplete
      <4> QED
        BY <2>3, <4>2
    <3>3. JobComplete'
      BY <2>1, <3>0, <3>2 DEF JobComplete, Exporting
    <3>4. \/ Due(Today, upTo) \subseteq Held(Today)
          \/ Exporting /\ job.day = Today /\ autoExport.lastExportedDate # Today
      <4>1. CASE autoExport.lastExportedDate # Today
        <5>1. Exporting
          BY <1>7, <2>3, <4>1 DEF IsDue, Exporting
        <5> QED
          BY <1>3, <2>3, <4>1, <5>1
      <4>2. CASE autoExport.lastExportedDate = Today
        <5>1. Due(Today, holdsUpTo) \subseteq Held(Today)
          BY <2>3, <4>2 DEF WrittenToday, HeldByHand
        <5>2. Due(Today, upTo) \subseteq Due(Today, holdsUpTo)
          <6>1. ASSUME NEW e \in Due(Today, upTo)
                PROVE  e \in Due(Today, holdsUpTo)
            <7>1. e \in attended /\ e.day = Today /\ e.slot < upTo /\ e.slot \in Nat /\ holdsUpTo \in Int
              BY <6>1 DEF Due, ReportsTypeOK, Attended
            <7>2. e.slot < holdsUpTo
              BY <2>3, <7>1
            <7> QED
              BY <7>1, <7>2 DEF Due
          <6> QED
            BY <6>1
        <5> QED
          BY <5>1, <5>2
      <4> QED
        BY <4>1, <4>2
    <3>5. OwedHeld'
      BY <1>1, <2>1, <3>0, <3>4 DEF OwedHeld, Exporting
    <3>6. WrittenToday'
      BY <1>1, <3>0 DEF WrittenToday
    <3> QED
      BY <1>4, <1>5, <3>1, <3>3, <3>5, <3>6
  <2> QED
    BY <2>2, <2>3, OwesAdds DEF Checks
<1> QED
  BY <1>6, <1>7

LEMMA FetchKeeps ==
    ASSUME ReportsInv, NEW g \in ReportGroups, FetchGroup(g)
    PROVE  ReportsInv'
<1> USE DEF ReportsInv, ReportsKept
<1>1. /\ job' \in Jobs
      /\ job'.day = job.day /\ job'.since = job.since /\ job'.byHand = job.byHand
      /\ job'.left = job.left \ {g} /\ job'.at \in {"fetch", "write"}
      /\ job'.at = "write" => job'.left = {}
      /\ job'.rows = job.rows \cup {e \in attended : e.group = g /\ e.day = job.day}
  BY FetchedTyped
<1>2. Exporting /\ UNCHANGED <<minute, autoExport, attended, reports, holdsUpTo, owed>>
  BY DEF FetchGroup, Exporting
<1>3. Exporting'
  BY <1>1 DEF Exporting
<1>4. Today' = Today /\ (\A d : Held(d)' = Held(d)) /\ (\A d, t : Due(d, t)' = Due(d, t))
  BY <1>2 DEF Today, Held, ReportsOf, Due
<1>5. ReportsTypeOK' /\ OwedPast' /\ GroupsApart'
  BY <1>1, <1>2 DEF ReportsTypeOK, OwedPast, GroupsApart
<1>6. JobOfItsDay'
  BY <1>1, <1>2, <1>3 DEF JobOfItsDay
<1>7. JobComplete'
  <2>1. ASSUME NEW e \in attended, e.slot < job.since, e.day = job.day
        PROVE  e.group \in job'.left \/ e \in job'.rows
    <3>1. e.group \in job.left \/ e \in job.rows
      BY <1>2, <2>1 DEF JobComplete
    <3> QED
      BY <1>1, <2>1, <3>1
  <2> QED
    BY <1>1, <1>2, <1>3, <2>1 DEF JobComplete
<1>8. OwedHeld'
  BY <1>1, <1>2, <1>3, <1>4 DEF OwedHeld
<1>9. WrittenToday'
  BY <1>1, <1>2, <1>3, <1>4 DEF WrittenToday, HeldByHand
<1> QED
  BY <1>5, <1>6, <1>7, <1>8, <1>9

\* Who is recorded now was not recorded before now.
LEMMA RecordKeeps ==
    ASSUME ReportsInv, NEW g \in ReportGroups, Record(g)
    PROVE  ReportsInv'
<1> USE DEF ReportsInv, ReportsKept
<1>1. PICK new \in Attended : new.slot = minute /\ attended' = attended \cup {new}
  <2>1. PICK ahead \in Zones, back \in {0, 1} :
            attended' = attended \cup {[group |-> g, slot |-> minute, day |-> AttendanceDay(ahead) - back]}
    BY DEF Record
  <2>2. AttendanceDay(ahead) - back \in Int
    BY ReportsAssumption DEF AttendanceDay, ReportsTypeOK
  <2>3. PICK day \in Int : day = AttendanceDay(ahead) - back
    BY <2>2
  <2>4. [group |-> g, slot |-> minute, day |-> day] \in Attended
    BY DEF Attended, ReportsTypeOK
  <2> QED
    BY <2>1, <2>3, <2>4
<1>2. UNCHANGED <<minute, autoExport, job, reports, holdsUpTo, owed>> /\ minute \in Nat
  BY DEF Record, ReportsTypeOK
<1>3. Today' = Today /\ (\A d : Held(d)' = Held(d))
  BY <1>2 DEF Today, Held, ReportsOf
<1>4. ASSUME NEW d, NEW t \in Int, t <= minute
      PROVE  Due(d, t)' = Due(d, t)
  <2>1. ~(new.slot < t)
    BY <1>1, <1>2, <1>4
  <2> QED
    BY <1>1, <2>1 DEF Due
<1>5. ReportsTypeOK' /\ OwedPast' /\ GroupsApart' /\ JobOfItsDay'
  BY <1>1, <1>2 DEF ReportsTypeOK, OwedPast, GroupsApart, JobOfItsDay, Exporting
<1>6. JobComplete'
  <2>1. Exporting => ~(new.slot < job.since)
    BY <1>1, <1>2 DEF JobOfItsDay
  <2> QED
    BY <1>1, <1>2, <2>1 DEF JobComplete, Exporting
<1>7. OwedHeld'
  <2>1. \A o \in owed : Due(o.day, o.upTo)' = Due(o.day, o.upTo)
    BY <1>4 DEF OwedPast, ReportsTypeOK
  <2> QED
    BY <1>2, <1>3, <2>1 DEF OwedHeld, Exporting
<1>8. WrittenToday'
  <2>1. holdsUpTo <= minute => Due(Today, holdsUpTo)' = Due(Today, holdsUpTo)
    BY <1>2, <1>3, <1>4 DEF ReportsTypeOK
  <2> QED
    BY <1>2, <1>3, <2>1 DEF WrittenToday, HeldByHand, Exporting
<1> QED
  BY <1>5, <1>6, <1>7, <1>8

\* A file written anew holds whoever was in it before the job began.
LEMMA ReplacedHolds ==
    ASSUME ReportsInv, NEW f \in SUBSET ReportGroups, WriteFile(f), job.at = "write"
    PROVE  /\ \A d : \A t \in Int : (d = job.day => t <= job.since) /\ Due(d, t) \subseteq Held(d) => Due(d, t) \subseteq Held(d)'
           /\ GroupsApart' /\ reports' \subseteq ReportFiles
<1> USE DEF ReportsInv, ReportsKept
<1> DEFINE new == [directory |-> job.directory, day |-> job.day, of |-> f, rows |-> RowsOf(f)]
           stays == {r \in reports : r.directory # job.directory \/ r.day # job.day \/ r.of # f}
<1>1. PICK row, left : row = new /\ left = stays
  OBVIOUS
<1>2. reports' = left \cup {row} /\ row.day = job.day /\ row.of = f /\ row.rows = RowsOf(f)
  BY <1>1 DEF WriteFile, Replaces
<1>3. left \subseteq reports /\ \A r \in reports : r \in left \/ (r.day = job.day /\ r.of = f)
  BY <1>1
<1> HIDE DEF new, stays
<1>4. \A e \in RowsOf(f) : e.group \in f
  BY DEF RowsOf
<1>5. GroupsApart'
  BY <1>2, <1>3, <1>4 DEF GroupsApart
<1>6. reports' \subseteq ReportFiles
  <2>1. RowsOf(f) \in SUBSET Attended
    BY DEF RowsOf, ReportsTypeOK, Jobs
  <2> QED
    BY <2>1, ReplacesTyped DEF WriteFile
<1>7. ASSUME NEW d, NEW t \in Int, d = job.day => t <= job.since, NEW e \in Due(d, t), e \in Held(d)
      PROVE  \E r \in reports' : r.day = d /\ e \in r.rows
  <2>1. PICK r \in reports : r.day = d /\ e \in r.rows
    BY <1>7 DEF Held, ReportsOf
  <2>2. CASE r \in left
    BY <1>2, <2>1, <2>2
  <2>3. CASE r \notin left
    <3>1. e.group \in f /\ d = job.day
      BY <1>3, <2>1, <2>3 DEF GroupsApart
    <3>2. e \in attended /\ e.slot \in Nat /\ e.day = job.day /\ e.slot < job.since
      BY <1>7, <3>1 DEF Due, ReportsTypeOK, Attended, Jobs
    <3>3. e \in job.rows
      BY <3>2 DEF JobComplete, Exporting
    <3>4. e \in row.rows
      BY <1>2, <3>1, <3>3 DEF RowsOf
    <3> QED
      BY <1>2, <3>1, <3>4
  <2> QED
    BY <2>2, <2>3
<1>8. ASSUME NEW d, NEW t \in Int, d = job.day => t <= job.since, Due(d, t) \subseteq Held(d)
      PROVE  Due(d, t) \subseteq Held(d)'
  <2>1. \A e \in Due(d, t) : \E r \in reports' : r.day = d /\ e \in r.rows
    BY <1>7, <1>8
  <2> QED
    BY <2>1 DEF Held, ReportsOf
<1> QED
  BY <1>5, <1>6, <1>8

LEMMA WriteKeeps ==
    ASSUME ReportsInv, NEW f \in SUBSET ReportGroups, WriteExportFile(f)
    PROVE  ReportsInv'
<1> USE DEF ReportsInv, ReportsKept
<1>1. UNCHANGED <<minute, autoExport, job, attended, holdsUpTo, owed>> /\ job.at = "write" /\ WriteFile(f)
  BY DEF WriteExportFile
<1>2. /\ \A d : \A t \in Int : (d = job.day => t <= job.since) /\ Due(d, t) \subseteq Held(d) => Due(d, t) \subseteq Held(d)'
      /\ GroupsApart' /\ reports' \subseteq ReportFiles
  BY <1>1, ReplacedHolds
<1>3. Today' = Today /\ (\A d, t : Due(d, t)' = Due(d, t))
  BY <1>1 DEF Today, Due
<1>4. ReportsTypeOK' /\ OwedPast' /\ JobOfItsDay' /\ JobComplete'
  BY <1>1, <1>2 DEF ReportsTypeOK, OwedPast, JobOfItsDay, JobComplete, Exporting
<1>5. OwedHeld'
  <2>1. ASSUME NEW o \in owed
        PROVE  \/ Due(o.day, o.upTo) \subseteq Held(o.day)'
               \/ Exporting /\ job.day = o.day /\ autoExport.lastExportedDate # o.day
    <3>1. o.upTo \in Int /\ (o.day = job.day => o.upTo <= job.since)
      BY <1>1 DEF JobComplete, Exporting, ReportsTypeOK
    <3>2. CASE Due(o.day, o.upTo) \subseteq Held(o.day)
      BY <1>2, <3>1, <3>2
    <3> QED
      BY <3>2 DEF OwedHeld
  <2> QED
    BY <1>1, <1>3, <2>1 DEF OwedHeld, Exporting
<1>6. WrittenToday'
  <2>1. ASSUME HeldByHand
        PROVE  HeldByHand'
    <3>1. PICK t \in Int : t = holdsUpTo
      BY DEF ReportsTypeOK
    <3>2. PICK d : d = Today
      OBVIOUS
    <3>3. Due(d, t) \subseteq Held(d) /\ (d = job.day => t <= job.since)
      BY <1>1, <2>1, <3>1, <3>2 DEF HeldByHand, Exporting
    <3>4. Due(d, t) \subseteq Held(d)'
      BY <1>2, <3>3
    <3> QED
      BY <1>1, <1>3, <2>1, <3>1, <3>2, <3>4 DEF HeldByHand, Exporting
  <2> QED
    BY <1>1, <1>3, <2>1 DEF WrittenToday
<1> QED
  BY <1>2, <1>4, <1>5, <1>6

\* What was asked for is in the files once they are written.
LEMMA ExportedHolds ==
    ASSUME ReportsInv, job.at = "write", AllWritten, NEW t \in Int, t <= job.since, NEW e \in Due(job.day, t)
    PROVE  e \in Held(job.day)
<1> USE DEF ReportsInv, ReportsKept
<1>1. e \in attended /\ e.slot \in Nat /\ e.group \in ReportGroups /\ e.day = job.day /\ e.slot < job.since
  BY DEF Due, ReportsTypeOK, Attended, Jobs
<1>2. e \in job.rows
  BY <1>1 DEF JobComplete, Exporting
<1>3. PICK f \in Files : e.group \in f
  BY <1>1 DEF Files
<1>4. PICK r \in reports : r.of = f /\ r.day = job.day /\ r.rows = RowsOf(r.of)
  BY DEF AllWritten, Written
<1>5. e \in r.rows
  BY <1>2, <1>3, <1>4 DEF RowsOf
<1> QED
  BY <1>4, <1>5 DEF Held, ReportsOf

LEMMA ExportedKeeps ==
    ASSUME ReportsInv, Exported
    PROVE  ReportsInv'
<1> USE DEF ReportsInv, ReportsKept
<1>1. /\ autoExport' \in Exports /\ autoExport'.lastExportedDate = job.day
      /\ job' \in Jobs /\ holdsUpTo' \in Int
  BY ExportedTyped
<1>2. job.at = "write" /\ Exporting /\ AllWritten /\ UNCHANGED <<minute, attended, reports, owed>>
  BY DEF Exported, Exporting
<1>3. job' = NoJob /\ ~Exporting'
  BY DEF Exported, NoJob, Exporting
<1>4. Today' = Today /\ (\A d : Held(d)' = Held(d)) /\ (\A d, t : Due(d, t)' = Due(d, t))
  BY <1>2 DEF Today, Held, ReportsOf, Due
<1>5. ReportsTypeOK' /\ OwedPast' /\ GroupsApart'
  BY <1>1, <1>2 DEF ReportsTypeOK, OwedPast, GroupsApart
<1>6. JobOfItsDay' /\ JobComplete'
  <2>1. job'.at # "write"
    BY <1>3 DEF NoJob
  <2> QED
    BY <1>3, <2>1 DEF JobOfItsDay, JobComplete
<1>7. OwedHeld'
  <2>1. ASSUME NEW o \in owed
        PROVE  Due(o.day, o.upTo) \subseteq Held(o.day)
    <3>1. CASE o.day = job.day
      <4>1. o.upTo \in Int /\ o.upTo <= job.since
        BY <1>2, <3>1 DEF JobComplete, ReportsTypeOK
      <4> QED
        BY <1>2, <3>1, <4>1, ExportedHolds
    <3>2. CASE o.day # job.day
      BY <3>2 DEF OwedHeld
    <3> QED
      BY <3>1, <3>2
  <2> QED
    BY <1>2, <1>4, <2>1 DEF OwedHeld
<1>8. WrittenToday'
  <2>1. job.since \in Nat /\ minute \in Nat /\ job.since <= minute /\ job.day = job.since \div DaySlots
    BY <1>2 DEF JobOfItsDay, ReportsTypeOK
  <2>2. job.day <= Today
    BY <2>1, DaysInOrder DEF Today
  <2>3. ASSUME job.day = Today, \A o \in owed : o.day # Today
        PROVE  HeldByHand'
    <3>1. job.byHand
      BY <1>2, <2>3 DEF JobComplete
    <3>2. holdsUpTo' <= job.since
      BY <2>1, <2>3, <3>1 DEF Exported, ReportsTypeOK
    <3>3. holdsUpTo' <= minute
      BY <1>1, <2>1, <3>2
    <3>4. PICK t \in Int : t = holdsUpTo'
      BY <1>1
    <3>5. PICK d : d = Today
      OBVIOUS
    <3>6. Due(d, t) \subseteq Held(d)
      BY <1>2, <2>3, <3>2, <3>4, <3>5, ExportedHolds
    <3> QED
      BY <1>2, <1>3, <1>4, <3>3, <3>4, <3>5, <3>6 DEF HeldByHand
  <2> QED
    BY <1>1, <1>2, <1>4, <2>2, <2>3 DEF WrittenToday
<1> QED
  BY <1>5, <1>6, <1>7, <1>8

\* An export that ends early leaves what was written before, or nothing is owed.
LEMMA InterruptedKeeps ==
    ASSUME ReportsInv, Interrupted, UNCHANGED <<minute, autoExport, attended>>
    PROVE  ReportsInv'
<1> USE DEF ReportsInv, ReportsKept
<1>1. job' \in Jobs /\ reports' \subseteq ReportFiles /\ owed' \subseteq owed /\ holdsUpTo' \in Int
  BY InterruptedTyped
<1>2. job' = NoJob /\ ~Exporting' /\ job'.at # "write"
  BY DEF Interrupted, NoJob, Exporting
<1>3. Today' = Today /\ (\A d, t : Due(d, t)' = Due(d, t)) /\ Today \in Nat
  BY SlotOfDay DEF Today, Due, ReportsTypeOK
<1>4. /\ GroupsApart'
      /\ \A d : d # job.day \/ job.at # "write" => Held(d)' = Held(d)
  <2>1. CASE UNCHANGED reports
    BY <2>1 DEF GroupsApart, Held, ReportsOf
  <2>2. ASSUME job.at = "write", NEW f \in Files, Replaces(f, {})
        PROVE  GroupsApart' /\ \A d : d # job.day => Held(d)' = Held(d)
    <3> DEFINE new == [directory |-> job.directory, day |-> job.day, of |-> f, rows |-> {}]
               stays == {r \in reports : r.directory # job.directory \/ r.day # job.day \/ r.of # f}
    <3>1. PICK row, left : row = new /\ left = stays
      OBVIOUS
    <3>2. reports' = left \cup {row} /\ row.day = job.day /\ row.rows = {}
      BY <2>2, <3>1 DEF Replaces
    <3>3. left \subseteq reports /\ \A r \in reports : r \in left \/ r.day = job.day
      BY <3>1
    <3> HIDE DEF new, stays
    <3>4. GroupsApart'
      BY <3>2, <3>3 DEF GroupsApart
    <3>5. ASSUME NEW d, d # job.day
          PROVE  Held(d)' = Held(d)
      <4>1. {r \in reports' : r.day = d} = {r \in reports : r.day = d}
        BY <3>2, <3>3, <3>5
      <4> QED
        BY <4>1 DEF Held, ReportsOf
    <3> QED
      BY <3>4, <3>5
  <2> QED
    BY <2>1, <2>2 DEF Interrupted
<1>5. ReportsTypeOK' /\ OwedPast'
  BY <1>1 DEF ReportsTypeOK, OwedPast
<1>6. JobOfItsDay' /\ JobComplete'
  BY <1>2 DEF JobOfItsDay, JobComplete
<1>7. OwedHeld'
  <2>1. ASSUME NEW o \in owed'
        PROVE  Due(o.day, o.upTo) \subseteq Held(o.day)'
    <3>1. o \in owed /\ (o.day = job.day => WrittenBefore /\ job.at = "fetch")
      BY DEF Interrupted
    <3>2. Due(o.day, o.upTo) \subseteq Held(o.day)
      BY <3>1 DEF OwedHeld, WrittenBefore
    <3>3. Held(o.day)' = Held(o.day)
      BY <1>4, <3>1
    <3> QED
      BY <3>2, <3>3
  <2> QED
    BY <1>3, <2>1 DEF OwedHeld
<1>8. WrittenToday'
  <2> SUFFICES ASSUME autoExport.lastExportedDate = Today, \A o \in owed' : o.day # Today
               PROVE  HeldByHand'
    BY <1>3 DEF WrittenToday
  <2>1. CASE job.at = "write" /\ job.day = Today
    <3>1. holdsUpTo' = 0
      BY <2>1 DEF Interrupted, WrittenBefore
    <3>2. \A d : Due(d, 0) = {}
      BY DEF Due, ReportsTypeOK, Attended
    <3>3. 0 <= minute
      BY DEF ReportsTypeOK
    <3> QED
      BY <1>2, <1>3, <3>1, <3>2, <3>3 DEF HeldByHand
  <2>2. CASE ~(job.at = "write" /\ job.day = Today)
    <3>1. ASSUME NEW o \in owed, o.day = Today
          PROVE  FALSE
      <4>1. job.day = Today /\ job.at # "fetch" /\ job.at # "write"
        BY <2>2, <3>1 DEF Interrupted, WrittenBefore
      <4>2. job.day = Never
        BY <4>1 DEF JobOfItsDay, Exporting, NoJob, ReportsTypeOK, Jobs
      <4> QED
        BY <1>3, <4>1, <4>2 DEF Never
    <3>2. HeldByHand
      BY <3>1 DEF WrittenToday
    <3>3. holdsUpTo' = holdsUpTo
      BY <2>2 DEF Interrupted
    <3>4. PICK d : d = Today
      OBVIOUS
    <3>5. Held(d)' = Held(d)
      BY <1>4, <2>2, <3>4
    <3> QED
      BY <1>2, <1>3, <3>2, <3>3, <3>4, <3>5 DEF HeldByHand
  <2> QED
    BY <2>1, <2>2
<1> QED
  BY <1>4, <1>5, <1>6, <1>7, <1>8

\* Time passes: what is past stays past, and a new day has no report yet.
LEMMA AdvanceKeeps ==
    ASSUME ReportsInv, Advance
    PROVE  ReportsInv'
<1> USE DEF ReportsInv, ReportsKept
<1>1. minute \in Nat /\ minute' = minute + 1 /\ UNCHANGED <<autoExport, job, attended, reports, owed>>
  BY DEF Advance, ReportsTypeOK
<1>2. (\A d : Held(d)' = Held(d)) /\ (\A d, t : Due(d, t)' = Due(d, t))
  BY <1>1 DEF Held, ReportsOf, Due
<1>3. holdsUpTo' \in Int
  BY ReportsAssumption DEF Advance, ReportsTypeOK
<1>4. ReportsTypeOK' /\ GroupsApart' /\ JobComplete'
  BY <1>1, <1>3 DEF ReportsTypeOK, GroupsApart, JobComplete, Exporting
<1>5. OwedPast'
  <2>1. \A o \in owed : o.upTo <= minute + 1
    BY <1>1 DEF OwedPast, ReportsTypeOK
  <2> QED
    BY <1>1, <2>1 DEF OwedPast
<1>6. JobOfItsDay'
  BY <1>1 DEF JobOfItsDay, Exporting
<1>7. OwedHeld'
  BY <1>1, <1>2 DEF OwedHeld, Exporting
<1>8. WrittenToday'
  <2>1. Today \in Nat /\ Today' \in Nat /\ autoExport.lastExportedDate \in Int /\ autoExport.lastExportedDate <= Today
    BY <1>1, SlotOfDay DEF Today, WrittenToday, ReportsTypeOK, Exports
  <2>2. CASE (minute + 1) % DaySlots = 0
    <3>1. Today' > Today
      BY <1>1, <2>2, NextSlot DEF Today
    <3> QED
      BY <1>1, <2>1, <3>1 DEF WrittenToday
  <2>3. CASE (minute + 1) % DaySlots # 0
    <3>1. Today' = Today /\ holdsUpTo' = holdsUpTo
      BY <1>1, <2>3, NextSlot DEF Today, Advance
    <3>2. holdsUpTo <= minute => holdsUpTo <= minute + 1
      BY <1>1 DEF ReportsTypeOK
    <3> QED
      BY <1>1, <1>2, <2>1, <3>1, <3>2 DEF WrittenToday, HeldByHand, Exporting
  <2> QED
    BY <2>2, <2>3
<1> QED
  BY <1>4, <1>5, <1>6, <1>7, <1>8

LEMMA ReportsInitially == ReportsInit => ReportsInv
<1> SUFFICES ASSUME ReportsInit
             PROVE  ReportsInv
  OBVIOUS
<1> USE DEF ReportsInit
<1>1. autoExport \in Exports /\ autoExport.lastExportedDate = -1
  <2>1. (CHOOSE d \in Folders : TRUE) \in Folders
    BY ReportsAssumption
  <2> QED
    BY <2>1 DEF Exports, Never
<1>2. job \in Jobs /\ ~Exporting /\ job.at # "write"
  BY DEF NoJob, Jobs, Never, Exporting
<1>3. ReportsTypeOK
  BY <1>1, <1>2, ReportsAssumption DEF ReportsTypeOK
<1>4. Today \in Nat
  BY SlotOfDay DEF Today
<1>5. WrittenToday
  BY <1>1, <1>4 DEF WrittenToday
<1> QED
  BY <1>2, <1>3, <1>5 DEF ReportsInv, ReportsKept, OwedPast, JobOfItsDay, JobComplete, OwedHeld, GroupsApart

LEMMA ReportsStep == ReportsInv /\ [ReportsNext]_reportVars => ReportsInv'
<1> SUFFICES ASSUME ReportsInv, [ReportsNext]_reportVars
             PROVE  ReportsInv'
  OBVIOUS
<1>1. autoExport \in Exports
  BY DEF ReportsInv, ReportsTypeOK
<1>2. CASE UNCHANGED reportVars
  BY <1>1, <1>2, SettingsKeepReports DEF reportVars
<1>3. CASE CheckTimer \/ LaunchApp
  BY <1>3, ChecksKeep DEF CheckTimer, LaunchApp
<1>4. CASE Exported
  BY <1>4, ExportedKeeps
<1>5. CASE ExportFailed \/ QuitApp
  BY <1>5, InterruptedKeeps DEF ExportFailed, QuitApp
<1>6. CASE \E g \in ReportGroups : FetchGroup(g) \/ Record(g)
  BY <1>6, FetchKeeps, RecordKeeps
<1>7. CASE \E f \in SUBSET ReportGroups : WriteExportFile(f)
  BY <1>7, WriteKeeps
<1>8. CASE OpenReports \/ ConfigLoaded \/ LeaveReports
  BY <1>1, <1>8, SettingsKeepReports DEF OpenReports, ConfigLoaded, LeaveReports
<1>9. CASE HandleUpdateAutoExport
  <2>1. autoExport' \in Exports /\ autoExport'.lastExportedDate = autoExport.lastExportedDate
    BY <1>9, SettingsTyped DEF ReportsInv
  <2> QED
    BY <1>9, <2>1, SettingsKeepReports DEF HandleUpdateAutoExport
<1>10. CASE HandleTriggerAutoExportNow
  <2>1. CASE job.at = "idle"
    BY <1>10, <2>1, ByHandKeeps DEF HandleTriggerAutoExportNow, Exporting
  <2>2. CASE job.at # "idle"
    BY <1>1, <1>10, <2>2, SettingsKeepReports DEF HandleTriggerAutoExportNow
  <2> QED
    BY <2>1, <2>2
<1>11. CASE Tick \/ TickWhileOff \/ Sleep
  BY <1>11, AdvanceKeeps DEF Tick, TickWhileOff, Sleep
<1> QED
  BY <1>2, <1>3, <1>4, <1>5, <1>6, <1>7, <1>8, <1>9, <1>10, <1>11 DEF ReportsNext

LEMMA ReportsInductive == ReportsSpec => []ReportsInv
BY ReportsInitially, ReportsStep, PTL DEF ReportsSpec

\* For any groups, length of a day, time zones and number of exports, failures and
\* launches: once a check has found the set time past, the report of the date holds
\* whoever was recorded before it for the attendance's day of that date (checkAndRunExport and triggerExport in
\* AutoExportManager.ts), but for the named exceptions.
THEOREM ReportsAreDaily == ReportsSpec => []DailyReports
<1>1. ReportsInv => DailyReports
  BY DEF ReportsInv, ReportsKept, OwedHeld, DailyReports, Exporting, Due, Held
<1> QED
  BY <1>1, ReportsInductive, PTL

(***************************************************************************)
(* Preferences.                                                            *)
(***************************************************************************)
\* What is on its way between window and main process: a call of one of the
\* settings, the load, the answers and the news of a reset.
Is(m, call, field) == m.call = call /\ m.field = field
Has(q, call, field) == \E i \in DOMAIN q : Is(q[i], call, field)

\* The newest call of a kind carries these values.
Newest(q, call, field, values) ==
    \A i \in DOMAIN q :
        Is(q[i], call, field) /\ (\A j \in DOMAIN q : j > i => ~ Is(q[j], call, field)) => q[i].values = values

Settings == [enabled : BOOLEAN, pin : {"default", "own"}, key : Int, attempts : Nat, lockout : Nat,
             intro : BOOLEAN, cloud : BOOLEAN, sound : {"current", "legacy"}]
Locks == [enabled : BOOLEAN, pin : {"default", "own"}, key : Nat, attempts : Nat, lockout : Nat]

\* The window shows a key before it has read one, which is in no file.
SettingsFiles == {s \in Settings : s.key \in Nat}

LockCalls(call) == [call : {call}, field : {"security"}, values : Locks]
MainCalls ==
    [call : {"load"}, field : {"all"}, values : {<<>>}]
    \cup [call : {"set"}, field : {"sound"}, values : [sound : {"current"}]]
    \cup [call : {"set"}, field : {"intro"}, values : [intro : {TRUE}]]
    \cup [call : {"set"}, field : {"cloud"}, values : [cloud : BOOLEAN]]
    \cup LockCalls("set") \cup LockCalls("get")
WindowCalls ==
    [call : {"load"}, field : {"all"}, values : SettingsFiles]
    \cup [call : {"saved"}, field : {"sound"}, values : {<<>>}]
    \cup [call : {"reset"}, field : {"security"}, values : {<<>>}]
    \cup LockCalls("get")

PreferencesTypeOK ==
    /\ file \in SettingsFiles /\ copy \in Settings /\ awaited \in SettingsFiles
    /\ window \in {"off", "starting", "loading", "hydrated"}
    /\ surface \in {"none", "prompt", "settings", "closing"}
    /\ Hydrated => copy.key \in Nat
    /\ ~ Hydrated => copy.key = -1 /\ ~ copy.intro /\ ~ copy.cloud /\ surface = "none"
    /\ toMain \in Seq(MainCalls) /\ toWindow \in Seq(WindowCalls)
    /\ elapsed \in Nat /\ wrong \in Nat
    /\ resetStands \in BOOLEAN /\ resetMissed \in BOOLEAN /\ cloudOffered \in BOOLEAN

\* What asks for the settings, or for the sound to be corrected first, is on
\* its way only while the window loads, and then once; meanwhile nobody else
\* writes the choices of the first start.
Demands(m) == m.call = "load" \/ Is(m, "set", "sound")
Answers(m) == m.call \in {"load", "saved"}

SameChoices(values) == values.intro = file.intro /\ values.cloud = file.cloud

Reading ==
    /\ window \in {"off", "starting"} => toMain = <<>> /\ toWindow = <<>>
    /\ window = "loading" =>
          /\ toMain # <<>> => /\ Len(toMain) = 1 /\ Demands(toMain[1])
                              /\ \A i \in DOMAIN toWindow : ~ Answers(toWindow[i])
          /\ \A i \in DOMAIN toWindow : toWindow[i].call # "get"
          /\ \A i, j \in DOMAIN toWindow : Answers(toWindow[i]) /\ Answers(toWindow[j]) => i = j
          /\ \A i \in DOMAIN toWindow : toWindow[i].call = "load" => SameChoices(toWindow[i].values)
          /\ Has(toMain, "set", "sound") \/ Has(toWindow, "saved", "sound") => SameChoices(awaited)
    /\ window = "hydrated" =>
          /\ \A i \in DOMAIN toMain : ~ Demands(toMain[i])
          /\ \A i \in DOMAIN toWindow : ~ Answers(toWindow[i])

\* The newest write of the lock on its way is what the window shows; when
\* there is none the file holds it, or it was reset and the window has not heard.
LockKept ==
    /\ Newest(toMain, "get", "security", Only(Security, copy))
    /\ ~ Has(toMain, "get", "security") => Newest(toWindow, "get", "security", Only(Security, copy))
    /\ ~ Has(toMain, "get", "security") /\ ~ Has(toWindow, "get", "security") =>
          /\ Newest(toMain, "set", "security", Only(Security, copy))
          /\ ~ Has(toMain, "set", "security") =>
                \/ Only(Security, file) = Only(Security, copy)
                \/ /\ Has(toWindow, "reset", "security")
                   /\ Only(Security, file) = Only(Security, ResetValues(copy))

IntroKept ==
    /\ Newest(toMain, "set", "intro", Only({"intro"}, copy))
    /\ ~ Has(toMain, "set", "intro") => file.intro = copy.intro
    /\ ~ copy.intro => ~ Has(toMain, "set", "intro")
CloudKept ==
    /\ Newest(toMain, "set", "cloud", Only({"cloud"}, copy))
    /\ ~ Has(toMain, "set", "cloud") => file.cloud = copy.cloud
    /\ ~ copy.intro => \A i \in DOMAIN toMain : Is(toMain[i], "set", "cloud") => toMain[i].values.cloud

\* A reset that stands is in what the window reads or shows, or about to arrive.
Told == Has(toWindow, "reset", "security")
ResetKept ==
    resetStands /\ ~ resetMissed =>
        /\ ~ Hydrated => ~ file.enabled
        /\ \A i \in DOMAIN toWindow : toWindow[i].call = "load" => ~ toWindow[i].values.enabled \/ Told
        /\ Has(toMain, "set", "sound") \/ Has(toWindow, "saved", "sound") => ~ awaited.enabled \/ Told
        /\ Hydrated => ~ copy.enabled \/ Told

\* The cloud was chosen and not offered yet: the note is written first, and
\* nothing takes it away.
Promised == firstChoice = "cloud" /\ ~ cloudOffered
PromiseKept ==
    Promised =>
        /\ file.intro => file.cloud
        /\ Hydrated /\ (copy.intro \/ surface = "closing") => copy.cloud
        /\ \A i \in DOMAIN toMain : Is(toMain[i], "set", "cloud") => toMain[i].values.cloud
        /\ \A i \in DOMAIN toMain : Is(toMain[i], "set", "intro") =>
              file.cloud \/ \E j \in DOMAIN toMain : j < i /\ Is(toMain[j], "set", "cloud")

PreferencesInv ==
    /\ PreferencesTypeOK /\ Reading
    /\ Hydrated => LockKept /\ IntroKept /\ CloudKept
    /\ ResetKept /\ PromiseKept

\* Queues of calls: one more, and one less.
LEMMA CallAppended ==
    ASSUME NEW S, NEW q \in Seq(S), NEW m \in S, NEW c, NEW f
    PROVE  /\ Append(q, m) \in Seq(S)
           /\ Has(Append(q, m), c, f) <=> Has(q, c, f) \/ Is(m, c, f)
           /\ \A w : /\ Is(m, c, f) => (Newest(Append(q, m), c, f, w) <=> m.values = w)
                     /\ ~ Is(m, c, f) => (Newest(Append(q, m), c, f, w) <=> Newest(q, c, f, w))
<1>1. PICK n \in Nat : n = Len(q) /\ DOMAIN q = 1 .. n
  OBVIOUS
<1>2. PICK r : r = Append(q, m)
  OBVIOUS
<1>3. r \in Seq(S) /\ DOMAIN r = 1 .. n + 1 /\ r[n + 1] = m /\ \A i \in 1 .. n : r[i] = q[i]
  BY <1>1, <1>2
<1>4. Has(r, c, f) <=> Has(q, c, f) \/ Is(m, c, f)
  <2>1. ASSUME NEW i \in DOMAIN r, Is(r[i], c, f) PROVE Has(q, c, f) \/ Is(m, c, f)
    <3>1. CASE i = n + 1
      BY <2>1, <3>1, <1>3
    <3>2. CASE i \in 1 .. n
      BY <2>1, <3>2, <1>1, <1>3 DEF Has
    <3> QED
      BY <1>3, <3>1, <3>2
  <2>2. ASSUME NEW i \in DOMAIN q, Is(q[i], c, f) PROVE Has(r, c, f)
    BY <2>2, <1>1, <1>3 DEF Has
  <2>3. Is(m, c, f) => Has(r, c, f)
    BY <1>3 DEF Has
  <2> QED
    BY <2>1, <2>2, <2>3 DEF Has
<1>5. ASSUME NEW w, Is(m, c, f) PROVE Newest(r, c, f, w) <=> m.values = w
  <2>1. \A i \in DOMAIN r : i # n + 1 => n + 1 \in DOMAIN r /\ n + 1 > i
    BY <1>3
  <2>2. ~ \E j \in DOMAIN r : j > n + 1
    BY <1>3
  <2> QED
    BY <1>3, <1>5, <2>1, <2>2 DEF Newest
<1>6. ASSUME NEW w, ~ Is(m, c, f) PROVE Newest(r, c, f, w) <=> Newest(q, c, f, w)
  <2>1. ASSUME Newest(q, c, f, w) PROVE Newest(r, c, f, w)
    <3> SUFFICES ASSUME NEW i \in DOMAIN r, Is(r[i], c, f),
                        \A j \in DOMAIN r : j > i => ~ Is(r[j], c, f)
                 PROVE  r[i].values = w
      BY DEF Newest
    <3>1. i \in DOMAIN q /\ r[i] = q[i]
      BY <1>1, <1>3, <1>6
    <3>2. \A j \in DOMAIN q : j > i => ~ Is(q[j], c, f)
      BY <1>1, <1>3
    <3> QED
      BY <2>1, <3>1, <3>2 DEF Newest
  <2>2. ASSUME Newest(r, c, f, w) PROVE Newest(q, c, f, w)
    <3> SUFFICES ASSUME NEW i \in DOMAIN q, Is(q[i], c, f),
                        \A j \in DOMAIN q : j > i => ~ Is(q[j], c, f)
                 PROVE  q[i].values = w
      BY DEF Newest
    <3>1. i \in DOMAIN r /\ r[i] = q[i]
      BY <1>1, <1>3
    <3>2. \A j \in DOMAIN r : j > i => ~ Is(r[j], c, f)
      BY <1>1, <1>3, <1>6
    <3> QED
      BY <2>2, <3>1, <3>2 DEF Newest
  <2> QED
    BY <2>1, <2>2
<1> QED
  BY <1>2, <1>3, <1>4, <1>5, <1>6

LEMMA CallServed ==
    ASSUME NEW S, NEW q \in Seq(S), q # <<>>, NEW c, NEW f
    PROVE  /\ Tail(q) \in Seq(S) /\ Head(q) \in S /\ 1 \in DOMAIN q /\ Head(q) = q[1]
           /\ Has(q, c, f) <=> Is(Head(q), c, f) \/ Has(Tail(q), c, f)
           /\ \A w : Newest(q, c, f, w) =>
                 /\ Newest(Tail(q), c, f, w)
                 /\ Is(Head(q), c, f) /\ ~ Has(Tail(q), c, f) => Head(q).values = w
           /\ \A w : ~ Is(Head(q), c, f) => (Newest(q, c, f, w) <=> Newest(Tail(q), c, f, w))
<1>1. PICK n \in Nat : Len(q) = n + 1 /\ DOMAIN q = 1 .. n + 1
  <2>1. Len(q) \in Nat /\ Len(q) # 0 /\ DOMAIN q = 1 .. Len(q)
    OBVIOUS
  <2>2. Len(q) - 1 \in Nat /\ Len(q) = (Len(q) - 1) + 1
    BY <2>1
  <2> QED
    BY <2>1, <2>2
<1>2. PICK r : r = Tail(q)
  OBVIOUS
<1>3. /\ r \in Seq(S) /\ DOMAIN r = 1 .. n /\ \A i \in 1 .. n : r[i] = q[i + 1]
      /\ Head(q) = q[1] /\ q[1] \in S
  BY <1>1, <1>2
<1>4. \A i \in DOMAIN r : i + 1 \in DOMAIN q /\ r[i] = q[i + 1]
  BY <1>1, <1>3
<1>5. \A i \in DOMAIN q : i = 1 \/ (i - 1 \in DOMAIN r /\ r[i - 1] = q[i])
  <2> SUFFICES ASSUME NEW i \in DOMAIN q, i # 1 PROVE i - 1 \in DOMAIN r /\ r[i - 1] = q[i]
    OBVIOUS
  <2>1. i \in 1 .. n + 1
    BY <1>1
  <2>2. i - 1 \in 1 .. n /\ (i - 1) + 1 = i
    BY <2>1
  <2> QED
    BY <2>2, <1>3
<1>6. Has(q, c, f) <=> Is(Head(q), c, f) \/ Has(r, c, f)
  <2>1. ASSUME NEW i \in DOMAIN q, Is(q[i], c, f) PROVE Is(Head(q), c, f) \/ Has(r, c, f)
    BY <2>1, <1>3, <1>5 DEF Has
  <2>2. ASSUME NEW i \in DOMAIN r, Is(r[i], c, f) PROVE Has(q, c, f)
    BY <2>2, <1>4 DEF Has
  <2>3. 1 \in DOMAIN q
    BY <1>1
  <2>4. Is(Head(q), c, f) => Has(q, c, f)
    BY <2>3, <1>3 DEF Has
  <2> QED
    BY <2>1, <2>2, <2>4 DEF Has
<1>7. ASSUME NEW w, Newest(q, c, f, w) PROVE Newest(r, c, f, w)
  <2> SUFFICES ASSUME NEW i \in DOMAIN r, Is(r[i], c, f), \A j \in DOMAIN r : j > i => ~ Is(r[j], c, f)
               PROVE  r[i].values = w
    BY DEF Newest
  <2>1. i + 1 \in DOMAIN q /\ r[i] = q[i + 1] /\ i \in Nat /\ i > 0
    BY <1>3, <1>4
  <2>2. ASSUME NEW j \in DOMAIN q, j > i + 1 PROVE ~ Is(q[j], c, f)
    <3>1. j # 1 /\ j \in Int /\ j - 1 > i
      BY <1>1, <2>1, <2>2
    <3> QED
      BY <1>5, <3>1
  <2> QED
    BY <1>7, <2>1, <2>2 DEF Newest
<1>8. ASSUME NEW w, Newest(q, c, f, w), Is(Head(q), c, f), ~ Has(r, c, f) PROVE Head(q).values = w
  <2>1. \A j \in DOMAIN q : j > 1 => ~ Is(q[j], c, f)
    <3> SUFFICES ASSUME NEW j \in DOMAIN q, j > 1 PROVE ~ Is(q[j], c, f)
      OBVIOUS
    <3>1. j # 1
      BY <1>1
    <3> QED
      BY <1>5, <1>8, <3>1 DEF Has
  <2>2. 1 \in DOMAIN q
    BY <1>1
  <2> QED
    BY <1>3, <1>8, <2>1, <2>2 DEF Newest
<1>9. ASSUME NEW w, ~ Is(Head(q), c, f), Newest(r, c, f, w) PROVE Newest(q, c, f, w)
  <2> SUFFICES ASSUME NEW i \in DOMAIN q, Is(q[i], c, f), \A j \in DOMAIN q : j > i => ~ Is(q[j], c, f)
               PROVE  q[i].values = w
    BY DEF Newest
  <2>1. i - 1 \in DOMAIN r /\ r[i - 1] = q[i] /\ i \in Int
    BY <1>1, <1>3, <1>5, <1>9
  <2>2. ASSUME NEW j \in DOMAIN r, j > i - 1 PROVE ~ Is(r[j], c, f)
    <3>1. j + 1 > i
      BY <1>3, <2>1, <2>2
    <3> QED
      BY <1>4, <3>1
  <2> QED
    BY <1>9, <2>1, <2>2 DEF Newest
<1> QED
  BY <1>1, <1>2, <1>3, <1>6, <1>7, <1>8, <1>9

IntroCall == [call |-> "set", field |-> "intro", values |-> Only({"intro"}, [intro |-> TRUE])]
CloudCall(s) == [call |-> "set", field |-> "cloud", values |-> Only({"cloud"}, s)]
LockCall(s) == [call |-> "get", field |-> "security", values |-> Only(Security, s)]

\* One call more, or none.
Put(q, sent, m) == IF sent THEN Append(q, m) ELSE q

Calls(sent, m) == IF sent THEN <<m>> ELSE <<>>

LEMMA PutIsConcat ==
    ASSUME NEW S, NEW r \in Seq(S), NEW m \in S, NEW sent \in BOOLEAN
    PROVE  Put(r, sent, m) = r \o Calls(sent, m) /\ Calls(sent, m) \in Seq(S) /\ r \o Calls(sent, m) \in Seq(S)
<1>1. Append(r, m) = r \o <<m>> /\ <<m>> \in Seq(S) /\ r \o <<m>> \in Seq(S)
  BY AppendIsConcat
<1>2. r \o <<>> = r /\ <<>> \in Seq(S)
  BY ConcatEmptySeq
<1>3. CASE sent
  <2>1. Put(r, sent, m) = Append(r, m) /\ Calls(sent, m) = <<m>>
    BY <1>3 DEF Put, Calls
  <2> QED
    BY <1>1, <2>1, Zenon
<1>4. CASE ~ sent
  <2>1. Put(r, sent, m) = r /\ Calls(sent, m) = <<>>
    BY <1>4 DEF Put, Calls
  <2> QED
    BY <1>2, <2>1, Zenon
<1> QED
  BY <1>3, <1>4

Cat(q, r) == q \o r

LEMMA CatAssociative ==
    \A S, q, a, b : q \in Seq(S) /\ a \in Seq(S) /\ b \in Seq(S) => Cat(Cat(q, a), b) = Cat(q, Cat(a, b))
BY ConcatAssociative DEF Cat

LEMMA CatInSeq == \A S, a, b : a \in Seq(S) /\ b \in Seq(S) => Cat(a, b) \in Seq(S)
BY ConcatProperties DEF Cat

LEMMA CallsOfSettings ==
    ASSUME NEW s \in Settings
    PROVE  /\ s.intro => IntroCall \in MainCalls /\ IntroCall.values = Only({"intro"}, s)
           /\ CloudCall(s) \in MainCalls /\ CloudCall(s).values = Only({"cloud"}, s)
           /\ CloudCall(s).values.cloud = s.cloud
           /\ s.key \in Nat => LockCall(s) \in MainCalls /\ LockCall(s).values = Only(Security, s)
<1>1. s.key \in Nat => Only(Security, s) \in Locks
  BY DEF Only, Security, Locks, Settings
<1>2. Only({"cloud"}, s) \in [cloud : BOOLEAN] /\ Only({"cloud"}, s).cloud = s.cloud
  BY DEF Only, Settings
<1>3. Only({"intro"}, [intro |-> TRUE]) \in [intro : {TRUE}]
  BY DEF Only
<1>4. s.intro => Only({"intro"}, [intro |-> TRUE]) = Only({"intro"}, s)
  <2>1. s.intro => s.intro = TRUE
    BY DEF Settings
  <2>2. [intro |-> TRUE]["intro"] = TRUE
    OBVIOUS
  <2> QED
    BY <2>1, <2>2 DEF Only
<1> QED
  BY <1>1, <1>2, <1>3, <1>4 DEF IntroCall, CloudCall, LockCall, MainCalls, LockCalls

\* What showing other settings sends to the main process.
Same(c, f) ==
    /\ Has(toMain', c, f) <=> Has(toMain, c, f)
    /\ \A w : Newest(toMain', c, f, w) <=> Newest(toMain, c, f, w)
Sent(c, f, w) == Has(toMain', c, f) /\ Newest(toMain', c, f, w)
Same2(q, c, f) ==
    /\ Has(toMain', c, f) <=> Has(q, c, f)
    /\ \A w : Newest(toMain', c, f, w) <=> Newest(q, c, f, w)

LEMMA PutAfter ==
    ASSUME NEW S, NEW q \in Seq(S), NEW m \in S, NEW sent \in BOOLEAN
    PROVE  /\ \A k \in DOMAIN q : k \in DOMAIN Put(q, sent, m) /\ Put(q, sent, m)[k] = q[k]
           /\ \A k \in DOMAIN Put(q, sent, m) :
                 \/ k \in DOMAIN q
                 \/ (\A j \in DOMAIN q : j < k) /\ Put(q, sent, m)[k] = m /\ sent
<1>1. CASE sent
  <2>1. PICK n \in Nat : n = Len(q) /\ DOMAIN q = 1 .. n
    OBVIOUS
  <2>2. PICK r : r = Put(q, sent, m)
    OBVIOUS
  <2>3. DOMAIN r = 1 .. n + 1 /\ r[n + 1] = m /\ \A i \in 1 .. n : r[i] = q[i]
    BY <1>1, <2>1, <2>2 DEF Put
  <2>4. \A k \in DOMAIN q : k \in DOMAIN r /\ r[k] = q[k]
    BY <2>1, <2>3
  <2>5. \A k \in DOMAIN r : k \in DOMAIN q \/ ((\A j \in DOMAIN q : j < k) /\ r[k] = m)
    <3> SUFFICES ASSUME NEW k \in DOMAIN r, k \notin DOMAIN q PROVE (\A j \in DOMAIN q : j < k) /\ r[k] = m
      OBVIOUS
    <3>1. k = n + 1
      BY <2>1, <2>3
    <3> QED
      BY <2>1, <2>3, <3>1
  <2> QED
    BY <1>1, <2>2, <2>4, <2>5
<1>2. CASE ~ sent
  BY <1>2 DEF Put
<1> QED
  BY <1>1, <1>2

LEMMA SetsSends ==
    ASSUME NEW to \in Settings, copy \in Settings, toMain \in Seq(MainCalls), to.key \in Nat,
           copy.intro => to.intro, Sets(to)
    PROVE  /\ copy' = to /\ toMain' \in Seq(MainCalls)
           /\ IF to.intro = copy.intro THEN Same("set", "intro")
              ELSE Sent("set", "intro", Only({"intro"}, to))
           /\ IF to.cloud = copy.cloud THEN Same("set", "cloud")
              ELSE Sent("set", "cloud", Only({"cloud"}, to))
           /\ IF Only(Security, to) = Only(Security, copy) THEN Same("get", "security")
              ELSE Sent("get", "security", Only(Security, to))
           /\ Same("set", "security") /\ Same("set", "sound")
           /\ \A i \in DOMAIN toMain : i \in DOMAIN toMain' /\ toMain'[i] = toMain[i]
           /\ \A i \in DOMAIN toMain' :
                 \/ i \in DOMAIN toMain
                 \/ /\ \A j \in DOMAIN toMain : j < i
                    /\ \/ toMain'[i] = IntroCall /\ to.intro # copy.intro /\ to.intro
                       \/ toMain'[i] = CloudCall(to) /\ to.cloud # copy.cloud
                       \/ toMain'[i] = LockCall(to)
<1>1. PICK i \in BOOLEAN : i <=> to.intro # copy.intro
  OBVIOUS
<1>2. PICK c \in BOOLEAN : c <=> to.cloud # copy.cloud
  OBVIOUS
<1>3. PICK l \in BOOLEAN : l <=> Only(Security, to) # Only(Security, copy)
  OBVIOUS
<1>4. l <=> SecurityChanged(copy, to)
  BY <1>3 DEF SecurityChanged, Only
<1>5. PICK x : x = IF i THEN IntroCall ELSE CloudCall(to)
  OBVIOUS
<1>6. CloudCall(to) \in MainCalls /\ LockCall(to) \in MainCalls /\ x \in MainCalls
  <2>1. i => to.intro
    BY <1>1 DEF Settings
  <2> QED
    BY <2>1, <1>5, CallsOfSettings
<1>7. Subscriber(copy, to) = Calls(i, x) \o Calls(c, CloudCall(to)) \o Calls(l, LockCall(to))
  <2>1. i => to.intro = TRUE
    BY <1>1 DEF Settings
  <2>2. i => [call |-> "set", field |-> "intro", values |-> Only({"intro"}, to)] = x
    BY <2>1, <1>5, CallsOfSettings DEF IntroCall
  <2> QED
    BY <2>2, <1>1, <1>2, <1>4 DEF Subscriber, ChoiceChanged, CloudCall, LockCall, Calls
<1>a. PICK p : p = Put(toMain, i, x)
  OBVIOUS
<1>b. PICK q : q = Put(p, c, CloudCall(to))
  OBVIOUS
<1>c. toMain' = Put(q, l, LockCall(to)) /\ p \in Seq(MainCalls) /\ q \in Seq(MainCalls)
      /\ toMain' \in Seq(MainCalls) /\ copy' = to
  <2>1. toMain' = toMain \o Subscriber(copy, to) /\ copy' = to
    BY DEF Sets
  <2>2. p = toMain \o Calls(i, x) /\ p \in Seq(MainCalls) /\ Calls(i, x) \in Seq(MainCalls)
    BY <1>1, <1>6, <1>a, PutIsConcat, ZenonT(40)
  <2>3. q = p \o Calls(c, CloudCall(to)) /\ q \in Seq(MainCalls) /\ Calls(c, CloudCall(to)) \in Seq(MainCalls)
    <3>1. \A y \in MainCalls : /\ Put(p, c, y) = p \o Calls(c, y)
                               /\ Calls(c, y) \in Seq(MainCalls) /\ p \o Calls(c, y) \in Seq(MainCalls)
      BY <1>2, <2>2, PutIsConcat, ZenonT(40)
    <3> QED
      BY <1>6, <1>b, <3>1
  <2>4. /\ Put(q, l, LockCall(to)) = q \o Calls(l, LockCall(to))
        /\ Put(q, l, LockCall(to)) \in Seq(MainCalls) /\ Calls(l, LockCall(to)) \in Seq(MainCalls)
    <3>1. \A y \in MainCalls : /\ Put(q, l, y) = q \o Calls(l, y)
                               /\ Calls(l, y) \in Seq(MainCalls) /\ q \o Calls(l, y) \in Seq(MainCalls)
      BY <1>3, <2>3, PutIsConcat, ZenonT(40)
    <3> QED
      BY <1>6, <3>1
  <2>5. q \o Calls(l, LockCall(to)) = toMain \o ((Calls(i, x) \o Calls(c, CloudCall(to))) \o Calls(l, LockCall(to)))
    <3>1. PICK first, second, third : first = Calls(i, x) /\ second = Calls(c, CloudCall(to)) /\ third = Calls(l, LockCall(to))
      OBVIOUS
    <3>2. first \in Seq(MainCalls) /\ second \in Seq(MainCalls) /\ third \in Seq(MainCalls)
      BY <2>2, <2>3, <2>4, <3>1
    <3>3. ((toMain \o first) \o second) \o third = toMain \o ((first \o second) \o third)
      <4>1. Cat(Cat(Cat(toMain, first), second), third) = Cat(toMain, Cat(Cat(first, second), third))
        <5>1. Cat(first, second) \in Seq(MainCalls)
          BY <3>2, CatInSeq
        <5>2. Cat(Cat(toMain, first), second) = Cat(toMain, Cat(first, second))
          BY <3>2, CatAssociative
        <5>3. Cat(Cat(toMain, Cat(first, second)), third) = Cat(toMain, Cat(Cat(first, second), third))
          BY <3>2, <5>1, CatAssociative
        <5> QED
          BY <5>2, <5>3
      <4> QED
        BY <4>1, Zenon DEF Cat
    <3> QED
      BY <2>2, <2>3, <3>1, <3>3
  <2> QED
    BY <1>7, <2>1, <2>2, <2>3, <2>4, <2>5
<1>8. /\ Is(CloudCall(to), "set", "cloud") /\ ~ Is(CloudCall(to), "set", "intro")
      /\ ~ Is(CloudCall(to), "get", "security") /\ ~ Is(CloudCall(to), "set", "security") /\ ~ Is(CloudCall(to), "set", "sound")
      /\ Is(LockCall(to), "get", "security") /\ ~ Is(LockCall(to), "set", "intro")
      /\ ~ Is(LockCall(to), "set", "cloud") /\ ~ Is(LockCall(to), "set", "security") /\ ~ Is(LockCall(to), "set", "sound")
      /\ i => /\ Is(x, "set", "intro") /\ ~ Is(x, "set", "cloud")
              /\ ~ Is(x, "get", "security") /\ ~ Is(x, "set", "security") /\ ~ Is(x, "set", "sound")
  BY <1>5 DEF Is, IntroCall, CloudCall, LockCall
<1>9. i => x.values = Only({"intro"}, to)
  <2>1. i => to.intro
    BY <1>1 DEF Settings
  <2> QED
    BY <2>1, <1>5, CallsOfSettings
<1>10. CloudCall(to).values = Only({"cloud"}, to) /\ LockCall(to).values = Only(Security, to)
  BY CallsOfSettings
<1>11. \A a, f :
          /\ ~ (i /\ Is(x, a, f)) => /\ Has(p, a, f) <=> Has(toMain, a, f)
                                     /\ \A w : Newest(p, a, f, w) <=> Newest(toMain, a, f, w)
          /\ i /\ Is(x, a, f) => Has(p, a, f) /\ \A w : Newest(p, a, f, w) <=> x.values = w
  BY <1>6, <1>a, CallAppended DEF Put
<1>12. \A a, f :
          /\ ~ (c /\ Is(CloudCall(to), a, f)) => /\ Has(q, a, f) <=> Has(p, a, f)
                                                 /\ \A w : Newest(q, a, f, w) <=> Newest(p, a, f, w)
          /\ c /\ Is(CloudCall(to), a, f) => Has(q, a, f) /\ \A w : Newest(q, a, f, w) <=> CloudCall(to).values = w
  BY <1>6, <1>b, <1>c, CallAppended DEF Put
<1>13. \A a, f :
          /\ ~ (l /\ Is(LockCall(to), a, f)) => Same2(q, a, f)
          /\ l /\ Is(LockCall(to), a, f) => Has(toMain', a, f) /\ \A w : Newest(toMain', a, f, w) <=> LockCall(to).values = w
  BY <1>6, <1>c, CallAppended DEF Put, Same2
<1>14. IF to.intro = copy.intro THEN Same("set", "intro") ELSE Sent("set", "intro", Only({"intro"}, to))
  BY <1>1, <1>8, <1>9, <1>11, <1>12, <1>13 DEF Same, Same2, Sent
<1>15. IF to.cloud = copy.cloud THEN Same("set", "cloud") ELSE Sent("set", "cloud", Only({"cloud"}, to))
  BY <1>2, <1>8, <1>10, <1>11, <1>12, <1>13 DEF Same, Same2, Sent
<1>16. IF Only(Security, to) = Only(Security, copy) THEN Same("get", "security")
       ELSE Sent("get", "security", Only(Security, to))
  BY <1>3, <1>8, <1>10, <1>11, <1>12, <1>13 DEF Same, Same2, Sent
<1>17. Same("set", "security") /\ Same("set", "sound")
  BY <1>8, <1>11, <1>12, <1>13 DEF Same, Same2
<1>18. /\ \A k \in DOMAIN toMain : k \in DOMAIN p /\ p[k] = toMain[k]
       /\ \A k \in DOMAIN p : k \in DOMAIN toMain \/ ((\A j \in DOMAIN toMain : j < k) /\ p[k] = x /\ i)
  BY <1>6, <1>a, PutAfter
<1>19. /\ \A k \in DOMAIN p : k \in DOMAIN q /\ q[k] = p[k]
       /\ \A k \in DOMAIN q : k \in DOMAIN p \/ ((\A j \in DOMAIN p : j < k) /\ q[k] = CloudCall(to) /\ c)
  BY <1>6, <1>b, <1>c, PutAfter
<1>20. /\ \A k \in DOMAIN q : k \in DOMAIN toMain' /\ toMain'[k] = q[k]
       /\ \A k \in DOMAIN toMain' : k \in DOMAIN q \/ ((\A j \in DOMAIN q : j < k) /\ toMain'[k] = LockCall(to) /\ l)
  BY <1>6, <1>c, PutAfter
<1>21. \A k \in DOMAIN toMain : k \in DOMAIN toMain' /\ toMain'[k] = toMain[k]
  BY <1>18, <1>19, <1>20
<1>22. ASSUME NEW k \in DOMAIN toMain', k \notin DOMAIN toMain
       PROVE  /\ \A j \in DOMAIN toMain : j < k
              /\ \/ toMain'[k] = IntroCall /\ to.intro # copy.intro /\ to.intro
                 \/ toMain'[k] = CloudCall(to) /\ to.cloud # copy.cloud
                 \/ toMain'[k] = LockCall(to)
  <2>1. i => to.intro
    BY <1>1 DEF Settings
  <2> QED
    BY <2>1, <1>1, <1>2, <1>5, <1>18, <1>19, <1>20, <1>22
<1> QED
  BY <1>c, <1>14, <1>15, <1>16, <1>17, <1>21, <1>22

LEMMA SettingsReset ==
    ASSUME NEW s \in Settings
    PROVE  /\ ResetValues(s) \in Settings /\ ResetValues(s).key = s.key /\ ResetValues(s).intro = s.intro
           /\ ResetValues(s).cloud = s.cloud /\ ResetValues(s).enabled = FALSE
           /\ ResetValues(s).sound = s.sound
           /\ Only(Security, ResetValues(ResetValues(s))) = Only(Security, ResetValues(s))
<1>1. ResetValues(s) \in Settings
  BY DEF ResetValues, Settings
<1>2. /\ ResetValues(s).key = s.key /\ ResetValues(s).intro = s.intro
      /\ ResetValues(s).cloud = s.cloud /\ ResetValues(s).enabled = FALSE /\ ResetValues(s).sound = s.sound
  BY DEF ResetValues, Settings
<1>3. ResetValues(ResetValues(s)) = ResetValues(s)
  BY DEF ResetValues, Settings
<1> QED
  BY <1>1, <1>2, <1>3

LEMMA ResetOfSame ==
    ASSUME NEW s \in Settings, NEW r \in Settings, Only(Security, s) = Only(Security, r)
    PROVE  Only(Security, ResetValues(s)) = Only(Security, ResetValues(r)) /\ s.enabled = r.enabled /\ s.key = r.key
<1>1. \A f \in Security : s[f] = r[f]
  BY DEF Only
<1>2. \A f \in Security : ResetValues(s)[f] = ResetValues(r)[f]
  BY <1>1 DEF ResetValues, Settings, Security
<1>3. "enabled" \in Security /\ "key" \in Security
  BY DEF Security
<1> QED
  BY <1>1, <1>2, <1>3 DEF Only

LEMMA ShowsLock ==
    ASSUME NEW to \in Settings, copy \in Settings, toMain \in Seq(MainCalls), to.key \in Nat,
           copy.intro => to.intro, Sets(to), LockKept, file' = file,
           Has(toWindow', "get", "security") <=> Has(toWindow, "get", "security"),
           \A w : Newest(toWindow', "get", "security", w) <=> Newest(toWindow, "get", "security", w),
           Told => Told' \/ to = ResetValues(copy)
    PROVE  LockKept'
<1>1. /\ copy' = to /\ Same("set", "security")
      /\ IF Only(Security, to) = Only(Security, copy) THEN Same("get", "security")
         ELSE Sent("get", "security", Only(Security, to))
  BY SetsSends
<1>2. CASE Only(Security, to) # Only(Security, copy)
  BY <1>1, <1>2 DEF LockKept, Sent
<1>3. CASE Only(Security, to) = Only(Security, copy)
  <2>1. Only(Security, ResetValues(to)) = Only(Security, ResetValues(copy))
    BY <1>3, ResetOfSame
  <2>2. Told /\ Only(Security, file) = Only(Security, ResetValues(copy)) =>
           \/ Only(Security, file') = Only(Security, to)
           \/ Told' /\ Only(Security, file') = Only(Security, ResetValues(to))
    BY <2>1
  <2> QED
    BY <1>1, <1>3, <2>2 DEF LockKept, Same, Told
<1> QED
  BY <1>2, <1>3

LEMMA ShowsIntro ==
    ASSUME NEW to \in Settings, copy \in Settings, toMain \in Seq(MainCalls), to.key \in Nat,
           copy.intro => to.intro, Sets(to), IntroKept, file' = file
    PROVE  IntroKept'
<1>1. /\ copy' = to
      /\ IF to.intro = copy.intro THEN Same("set", "intro") ELSE Sent("set", "intro", Only({"intro"}, to))
  BY SetsSends
<1>2. copy.intro \in BOOLEAN /\ to.intro \in BOOLEAN
  BY DEF Settings
<1>3. CASE to.intro # copy.intro
  BY <1>1, <1>2, <1>3 DEF IntroKept, Sent
<1>4. CASE to.intro = copy.intro
  <2>1. Only({"intro"}, to) = Only({"intro"}, copy)
    BY <1>4 DEF Only
  <2> QED
    BY <1>1, <1>4, <2>1 DEF IntroKept, Same
<1> QED
  BY <1>3, <1>4

LEMMA ShowsCloud ==
    ASSUME NEW to \in Settings, copy \in Settings, toMain \in Seq(MainCalls), to.key \in Nat,
           copy.intro => to.intro, Sets(to), CloudKept, file' = file,
           ~ to.intro => to.cloud \/ ~ copy.cloud
    PROVE  CloudKept'
<1>1. /\ copy' = to
      /\ IF to.cloud = copy.cloud THEN Same("set", "cloud") ELSE Sent("set", "cloud", Only({"cloud"}, to))
      /\ \A i \in DOMAIN toMain : i \in DOMAIN toMain' /\ toMain'[i] = toMain[i]
      /\ \A i \in DOMAIN toMain' :
            \/ i \in DOMAIN toMain
            \/ toMain'[i] = IntroCall
            \/ toMain'[i] = CloudCall(to) /\ to.cloud # copy.cloud
            \/ toMain'[i] = LockCall(to)
  BY SetsSends
<1>2. copy.cloud \in BOOLEAN /\ to.cloud \in BOOLEAN /\ copy.intro \in BOOLEAN /\ to.intro \in BOOLEAN
  BY DEF Settings
<1>3. ~ to.intro => \A i \in DOMAIN toMain' : Is(toMain'[i], "set", "cloud") => toMain'[i].values.cloud
  <2> SUFFICES ASSUME ~ to.intro, NEW i \in DOMAIN toMain', Is(toMain'[i], "set", "cloud")
               PROVE  toMain'[i].values.cloud
    OBVIOUS
  <2>1. CASE i \in DOMAIN toMain
    BY <1>1, <2>1 DEF CloudKept
  <2>2. CASE toMain'[i] = CloudCall(to) /\ to.cloud # copy.cloud
    <3>1. to.cloud
      BY <1>2, <2>2
    <3>2. CloudCall(to).values.cloud = to.cloud
      BY CallsOfSettings
    <3> QED
      BY <2>2, <3>1, <3>2
  <2> QED
    BY <1>1, <2>1, <2>2 DEF Is, IntroCall, LockCall
<1>4. CASE to.cloud # copy.cloud
  BY <1>1, <1>3, <1>4 DEF CloudKept, Sent
<1>5. CASE to.cloud = copy.cloud
  <2>1. Only({"cloud"}, to) = Only({"cloud"}, copy)
    BY <1>5 DEF Only
  <2> QED
    BY <1>1, <1>3, <1>5, <2>1 DEF CloudKept, Same
<1> QED
  BY <1>4, <1>5

\* What the cloud was chosen for in the first start stays noted.
LEMMA ShowsPromise ==
    ASSUME NEW to \in Settings, copy \in Settings, toMain \in Seq(MainCalls), to.key \in Nat,
           copy.intro => to.intro, Sets(to), PromiseKept, IntroKept, CloudKept, file' = file, file.intro \in BOOLEAN,
           Promised' => \/ Promised
                        \/ ~ copy.intro /\ to.intro = copy.intro,
           Promised' => /\ to.cloud \/ ~ copy.cloud
                        /\ to.intro \/ surface' = "closing" => to.cloud
                        /\ to.intro # copy.intro => copy.cloud
    PROVE  PromiseKept'
<1> SUFFICES ASSUME Promised'
             PROVE  /\ file.intro => file.cloud
                    /\ to.intro \/ surface' = "closing" => to.cloud
                    /\ \A i \in DOMAIN toMain' : Is(toMain'[i], "set", "cloud") => toMain'[i].values.cloud
                    /\ \A i \in DOMAIN toMain' : Is(toMain'[i], "set", "intro") =>
                          file.cloud \/ \E j \in DOMAIN toMain' : j < i /\ Is(toMain'[j], "set", "cloud")
  BY SetsSends DEF PromiseKept
<1>1. /\ \A i \in DOMAIN toMain : i \in DOMAIN toMain' /\ toMain'[i] = toMain[i]
      /\ \A i \in DOMAIN toMain' :
            \/ i \in DOMAIN toMain
            \/ /\ \A j \in DOMAIN toMain : j < i
               /\ \/ toMain'[i] = IntroCall /\ to.intro # copy.intro /\ to.intro
                  \/ toMain'[i] = CloudCall(to) /\ to.cloud # copy.cloud
                  \/ toMain'[i] = LockCall(to)
  BY SetsSends
<1>2. copy.cloud \in BOOLEAN /\ to.cloud \in BOOLEAN /\ copy.intro \in BOOLEAN /\ to.intro \in BOOLEAN
  BY DEF Settings
<1>3. /\ file.intro => file.cloud
      /\ \A i \in DOMAIN toMain : Is(toMain[i], "set", "cloud") => toMain[i].values.cloud
      /\ \A i \in DOMAIN toMain : Is(toMain[i], "set", "intro") =>
            file.cloud \/ \E j \in DOMAIN toMain : j < i /\ Is(toMain[j], "set", "cloud")
  <2>1. CASE Promised
    BY <2>1 DEF PromiseKept
  <2>2. CASE ~ copy.intro /\ to.intro = copy.intro
    <3>1. ~ Has(toMain, "set", "intro") /\ ~ file.intro
      BY <1>2, <2>2 DEF IntroKept
    <3>2. \A i \in DOMAIN toMain : Is(toMain[i], "set", "cloud") => toMain[i].values.cloud
      BY <2>2 DEF CloudKept
    <3> QED
      BY <3>1, <3>2 DEF Has
  <2> QED
    BY <2>1, <2>2
<1>4. ASSUME NEW i \in DOMAIN toMain', Is(toMain'[i], "set", "cloud") PROVE toMain'[i].values.cloud
  <2>1. CASE i \in DOMAIN toMain
    BY <1>1, <1>3, <1>4, <2>1
  <2>2. CASE toMain'[i] = CloudCall(to) /\ to.cloud # copy.cloud
    <3>1. to.cloud
      BY <1>2, <2>2
    <3>2. CloudCall(to).values.cloud = to.cloud
      BY CallsOfSettings
    <3> QED
      BY <2>2, <3>1, <3>2
  <2> QED
    BY <1>1, <1>4, <2>1, <2>2 DEF Is, IntroCall, LockCall
<1>5. ASSUME NEW i \in DOMAIN toMain', Is(toMain'[i], "set", "intro")
      PROVE  file.cloud \/ \E j \in DOMAIN toMain' : j < i /\ Is(toMain'[j], "set", "cloud")
  <2>1. CASE i \in DOMAIN toMain
    BY <1>1, <1>3, <1>5, <2>1
  <2>2. CASE (\A j \in DOMAIN toMain : j < i) /\ to.intro # copy.intro
    <3>1. file.cloud \/ Has(toMain, "set", "cloud")
      BY <2>2 DEF CloudKept
    <3> QED
      BY <1>1, <2>2, <3>1 DEF Has
  <2> QED
    BY <1>1, <1>5, <2>1, <2>2 DEF Is, CloudCall, LockCall
<1> QED
  BY <1>3, <1>4, <1>5

LEMMA CallsLeft ==
    ASSUME NEW S, NEW q \in Seq(S), q # <<>>
    PROVE  /\ \A i \in DOMAIN Tail(q) : i \in Int /\ i + 1 \in DOMAIN q /\ Tail(q)[i] = q[i + 1]
           /\ \A i \in DOMAIN q : i \in Int /\ i > 0
           /\ \A i \in DOMAIN q : i = 1 \/ (i - 1 \in DOMAIN Tail(q) /\ Tail(q)[i - 1] = q[i])
           /\ Len(q) = 1 => Tail(q) = <<>>
<1>1. PICK n \in Nat : Len(q) = n + 1 /\ DOMAIN q = 1 .. n + 1
  <2>1. Len(q) \in Nat /\ Len(q) # 0 /\ DOMAIN q = 1 .. Len(q)
    OBVIOUS
  <2>2. Len(q) - 1 \in Nat /\ Len(q) = (Len(q) - 1) + 1
    BY <2>1
  <2> QED
    BY <2>1, <2>2
<1>2. PICK r : r = Tail(q)
  OBVIOUS
<1>3. r \in Seq(S) /\ Len(r) = n /\ DOMAIN r = 1 .. n /\ \A i \in 1 .. n : r[i] = q[i + 1]
  BY <1>1, <1>2
<1>4. \A i \in DOMAIN r : i \in Int /\ i + 1 \in DOMAIN q /\ r[i] = q[i + 1]
  BY <1>1, <1>3
<1>5. \A i \in DOMAIN q : i = 1 \/ (i - 1 \in DOMAIN r /\ r[i - 1] = q[i])
  <2> SUFFICES ASSUME NEW i \in DOMAIN q, i # 1 PROVE i - 1 \in DOMAIN r /\ r[i - 1] = q[i]
    OBVIOUS
  <2>1. i \in 1 .. n + 1
    BY <1>1
  <2>2. i - 1 \in 1 .. n /\ (i - 1) + 1 = i
    BY <2>1
  <2> QED
    BY <2>2, <1>3
<1>6. Len(q) = 1 => r = <<>>
  <2>1. Len(q) = 1 => Len(r) = 0
    BY <1>1, <1>3
  <2> QED
    BY <2>1, <1>3
<1>7. \A i \in DOMAIN q : i \in Int /\ i > 0
  BY <1>1
<1> QED
  BY <1>2, <1>4, <1>5, <1>6, <1>7

\* The file when a call is served.
LEMMA Overwritten ==
    ASSUME file \in SettingsFiles
    PROVE  /\ \A l \in Locks : /\ Over(l) \in SettingsFiles /\ Only(Security, Over(l)) = l
                               /\ Over(l).intro = file.intro /\ Over(l).cloud = file.cloud
           /\ \A m \in [intro : {TRUE}] : /\ Over(m) \in SettingsFiles /\ Only(Security, Over(m)) = Only(Security, file)
                                          /\ Over(m).intro = m.intro /\ Over(m).cloud = file.cloud
           /\ \A m \in [cloud : BOOLEAN] : /\ Over(m) \in SettingsFiles /\ Only(Security, Over(m)) = Only(Security, file)
                                           /\ Over(m).intro = file.intro /\ Over(m).cloud = m.cloud
           /\ \A m \in [sound : {"current"}] : /\ Over(m) \in SettingsFiles /\ Only(Security, Over(m)) = Only(Security, file)
                                               /\ Over(m).intro = file.intro /\ Over(m).cloud = file.cloud
                                               /\ Over(m).enabled = file.enabled
<1>1. \A l \in Locks : /\ Over(l) \in SettingsFiles /\ Only(Security, Over(l)) = l
                       /\ Over(l).intro = file.intro /\ Over(l).cloud = file.cloud
  BY DEF Over, Only, SettingsFiles, Settings, Locks, Security
<1>2. \A m \in [intro : {TRUE}] : /\ Over(m) \in SettingsFiles /\ Only(Security, Over(m)) = Only(Security, file)
                                  /\ Over(m).intro = m.intro /\ Over(m).cloud = file.cloud
  BY DEF Over, Only, SettingsFiles, Settings, Security
<1>3. \A m \in [cloud : BOOLEAN] : /\ Over(m) \in SettingsFiles /\ Only(Security, Over(m)) = Only(Security, file)
                                   /\ Over(m).intro = file.intro /\ Over(m).cloud = m.cloud
  BY DEF Over, Only, SettingsFiles, Settings, Security
<1>4. \A m \in [sound : {"current"}] : /\ Over(m) \in SettingsFiles /\ Only(Security, Over(m)) = Only(Security, file)
                                       /\ Over(m).intro = file.intro /\ Over(m).cloud = file.cloud
                                       /\ Over(m).enabled = file.enabled
  BY DEF Over, Only, SettingsFiles, Settings, Security
<1> QED
  BY <1>1, <1>2, <1>3, <1>4

\* The calls there are, by what they are.
LEMMA MainCallIs ==
    ASSUME NEW m \in MainCalls
    PROVE  \/ /\ m.call = "load" /\ Demands(m) /\ \A f : ~ Is(m, "set", f) /\ ~ Is(m, "get", f)
           \/ /\ m.call = "set" /\ m.field = "sound" /\ m.values \in [sound : {"current"}] /\ Demands(m)
           \/ /\ m.call = "set" /\ m.field = "intro" /\ m.values \in [intro : {TRUE}] /\ ~ Demands(m)
           \/ /\ m.call = "set" /\ m.field = "cloud" /\ m.values \in [cloud : BOOLEAN] /\ ~ Demands(m)
           \/ /\ m.call = "set" /\ m.field = "security" /\ m.values \in Locks /\ ~ Demands(m)
           \/ /\ m.call = "get" /\ m.field = "security" /\ m.values \in Locks /\ ~ Demands(m)
              /\ m \in WindowCalls /\ ~ Answers(m) /\ [m EXCEPT !.call = "set"] \in LockCalls("set")
BY DEF MainCalls, LockCalls, Demands, Answers, Is, WindowCalls

LEMMA WindowCallIs ==
    ASSUME NEW m \in WindowCalls
    PROVE  \/ m.call = "load" /\ m.field = "all" /\ m.values \in SettingsFiles /\ Answers(m)
           \/ m.call = "saved" /\ m.field = "sound" /\ Answers(m)
           \/ m.call = "reset" /\ m.field = "security" /\ ~ Answers(m)
           \/ /\ m.call = "get" /\ m.field = "security" /\ m.values \in Locks /\ ~ Answers(m)
              /\ [m EXCEPT !.call = "set"] \in MainCalls
              /\ Is([m EXCEPT !.call = "set"], "set", "security")
              /\ [m EXCEPT !.call = "set"].values = m.values
              /\ ~ Demands([m EXCEPT !.call = "set"])
BY DEF MainCalls, LockCalls, Demands, Answers, Is, WindowCalls

\* The store's defaults, and what the window shows before it has read.
LEMMA FirstSettings ==
    /\ DefaultSettings \in SettingsFiles
    /\ InitialState \in Settings /\ InitialState.key = -1
    /\ ~ InitialState.intro /\ ~ InitialState.cloud
<1>1. DefaultSettings \in Settings /\ DefaultSettings.key = 0
  BY DEF DefaultSettings, Settings
<1>2. 0 \in Nat /\ -1 \in Int
  OBVIOUS
<1>3. DefaultSettings \in SettingsFiles
  BY <1>1, <1>2 DEF SettingsFiles
<1>4. \A s \in Settings, k \in Int : /\ [s EXCEPT !.key = k] \in Settings /\ [s EXCEPT !.key = k].key = k
                                     /\ [s EXCEPT !.key = k].intro = s.intro /\ [s EXCEPT !.key = k].cloud = s.cloud
  BY DEF Settings
<1>5. DefaultSettings.intro = FALSE
  BY DEF DefaultSettings
<1>6. DefaultSettings.cloud = FALSE
  BY DEF DefaultSettings
<1>7. InitialState \in Settings /\ InitialState.key = -1
      /\ InitialState.intro = DefaultSettings.intro /\ InitialState.cloud = DefaultSettings.cloud
  BY <1>1, <1>2, <1>4 DEF InitialState
<1> QED
  BY <1>3, <1>5, <1>6, <1>7

LEMMA PreferencesInitially == PreferencesInit => PreferencesInv
<1> SUFFICES ASSUME PreferencesInit PROVE PreferencesInv
  OBVIOUS
<1>1. DefaultSettings \in SettingsFiles /\ InitialState \in Settings /\ InitialState.key = -1
      /\ ~ InitialState.intro /\ ~ InitialState.cloud
  BY FirstSettings
<1>2. file \in SettingsFiles
  <2>1. \A s \in SettingsFiles : /\ [s EXCEPT !.enabled = TRUE, !.pin = "own", !.intro = TRUE] \in SettingsFiles
                          /\ [s EXCEPT !.enabled = TRUE, !.pin = "own", !.intro = TRUE, !.sound = "legacy"] \in SettingsFiles
    BY DEF SettingsFiles, Settings
  <2> QED
    BY <1>1, <2>1 DEF PreferencesInit
<1>3. <<>> \in Seq(MainCalls) /\ <<>> \in Seq(WindowCalls) /\ 0 \in Nat
  OBVIOUS
<1>4. PreferencesTypeOK
  BY <1>1, <1>2, <1>3, PreferencesAssumption DEF PreferencesTypeOK, PreferencesInit, Hydrated
<1>5. Reading /\ ~ Hydrated
  BY DEF PreferencesInit, Reading, Hydrated
<1>6. ResetKept /\ PromiseKept
  BY DEF PreferencesInit, ResetKept, PromiseKept, Promised
<1> QED
  BY <1>4, <1>5, <1>6 DEF PreferencesInv

LEMMA LaunchesKeep ==
    ASSUME PreferencesInv, Launch \/ LoadInitialSettings
    PROVE  PreferencesInv'
<1>1. InitialState \in Settings /\ InitialState.key = -1 /\ ~ InitialState.intro /\ ~ InitialState.cloud
  BY FirstSettings
<1>2. CASE Launch
  <2>1. /\ window = "off" /\ window' = "starting" /\ copy' = InitialState /\ surface' = "none"
        /\ UNCHANGED <<file, awaited, channelVars, elapsed, resetVars, introVars, wrong>>
    BY <1>2 DEF Launch
  <2>2. PreferencesTypeOK'
    BY <1>1, <2>1 DEF PreferencesInv, PreferencesTypeOK, Hydrated, channelVars, resetVars, introVars
  <2>3. Reading' /\ ~ Hydrated' /\ toMain = <<>> /\ toWindow = <<>> /\ toMain' = <<>> /\ toWindow' = <<>>
    BY <2>1 DEF PreferencesInv, Reading, Hydrated, channelVars
  <2>4. ResetKept'
    BY <2>1, <2>3 DEF PreferencesInv, ResetKept, Hydrated, Has, resetVars
  <2>5. PromiseKept'
    BY <2>1, <2>3 DEF PreferencesInv, PromiseKept, Promised, Hydrated, introVars
  <2> QED
    BY <2>2, <2>3, <2>4, <2>5 DEF PreferencesInv
<1>3. CASE LoadInitialSettings
  <2>1. PICK m : m = [call |-> "load", field |-> "all", values |-> <<>>]
    OBVIOUS
  <2>2. /\ window = "starting" /\ window' = "loading" /\ toMain' = Append(toMain, m)
        /\ UNCHANGED <<file, copy, awaited, toWindow, surface, elapsed, resetVars, introVars, wrong>>
    BY <1>3, <2>1 DEF LoadInitialSettings, boundVars
  <2>3. toMain = <<>> /\ toWindow = <<>> /\ toMain \in Seq(MainCalls) /\ m \in MainCalls
    BY <2>1, <2>2 DEF PreferencesInv, PreferencesTypeOK, Reading, MainCalls
  <2>4. toMain' = <<m>> /\ Len(toMain') = 1 /\ toMain'[1] = m /\ DOMAIN toMain' = {1} /\ toMain' \in Seq(MainCalls)
    BY <2>2, <2>3
  <2>5. Demands(m) /\ ~ Is(m, "set", "sound") /\ ~ Is(m, "set", "cloud") /\ ~ Is(m, "set", "intro")
    BY <2>1 DEF Demands, Is
  <2>6. PreferencesTypeOK'
    BY <2>2, <2>4 DEF PreferencesInv, PreferencesTypeOK, Hydrated, resetVars, introVars
  <2>7. Reading' /\ ~ Hydrated'
    BY <2>2, <2>3, <2>4, <2>5 DEF Reading, Hydrated, Has
  <2>8. ResetKept'
    BY <2>2, <2>3, <2>4, <2>5 DEF PreferencesInv, ResetKept, Hydrated, Has, resetVars
  <2>9. PromiseKept'
    BY <2>2, <2>3, <2>4, <2>5 DEF PreferencesInv, PromiseKept, Promised, Hydrated, introVars
  <2> QED
    BY <2>6, <2>7, <2>8, <2>9 DEF PreferencesInv
<1> QED
  BY <1>2, <1>3

\* The window shows other settings, and says so.
LEMMA ShowsSettings ==
    ASSUME NEW to \in Settings, PreferencesInv, Hydrated, to.key \in Nat, copy.intro => to.intro, Sets(to),
           UNCHANGED <<file, window, awaited>>,
           toWindow' \in Seq(WindowCalls), \A i \in DOMAIN toWindow' : ~ Answers(toWindow'[i]),
           Has(toWindow', "get", "security") <=> Has(toWindow, "get", "security"),
           \A w : Newest(toWindow', "get", "security", w) <=> Newest(toWindow, "get", "security", w),
           Told => Told' \/ to = ResetValues(copy),
           surface' \in {"none", "prompt", "settings", "closing"},
           elapsed' \in Nat, wrong' \in Nat,
           resetStands' \in BOOLEAN, resetMissed' \in BOOLEAN, cloudOffered' \in BOOLEAN,
           ~ to.intro => to.cloud \/ ~ copy.cloud,
           resetStands' /\ ~ resetMissed' => ~ to.enabled \/ Told',
           Promised' => \/ Promised
                        \/ ~ copy.intro /\ to.intro = copy.intro,
           Promised' => /\ to.cloud \/ ~ copy.cloud
                        /\ to.intro \/ surface' = "closing" => to.cloud
                        /\ to.intro # copy.intro => copy.cloud
    PROVE  PreferencesInv'
<1>1. /\ copy \in Settings /\ toMain \in Seq(MainCalls) /\ file \in SettingsFiles /\ file.intro \in BOOLEAN
      /\ awaited \in SettingsFiles /\ window = "hydrated" /\ LockKept /\ IntroKept /\ CloudKept /\ PromiseKept
      /\ \A i \in DOMAIN toMain : ~ Demands(toMain[i])
  BY DEF PreferencesInv, PreferencesTypeOK, Reading, Hydrated, SettingsFiles, Settings
<1>2. /\ copy' = to /\ toMain' \in Seq(MainCalls) /\ Same("set", "sound")
      /\ \A i \in DOMAIN toMain : i \in DOMAIN toMain' /\ toMain'[i] = toMain[i]
      /\ \A i \in DOMAIN toMain' :
            \/ i \in DOMAIN toMain
            \/ /\ \A j \in DOMAIN toMain : j < i
               /\ \/ toMain'[i] = IntroCall /\ to.intro # copy.intro /\ to.intro
                  \/ toMain'[i] = CloudCall(to) /\ to.cloud # copy.cloud
                  \/ toMain'[i] = LockCall(to)
  BY <1>1, SetsSends
<1>3. PreferencesTypeOK' /\ Hydrated'
  BY <1>1, <1>2 DEF PreferencesTypeOK, Hydrated
<1>4. \A i \in DOMAIN toMain' : ~ Demands(toMain'[i])
  BY <1>1, <1>2 DEF Demands, Is, IntroCall, CloudCall, LockCall
<1>5. Reading'
  BY <1>1, <1>4 DEF Reading
<1>6. LockKept'
  BY <1>1, ShowsLock
<1>7. IntroKept' /\ CloudKept'
  BY <1>1, ShowsIntro, ShowsCloud
<1>8. PromiseKept'
  BY <1>1, ShowsPromise
<1>9. ResetKept'
  BY <1>2, <1>3, <1>4 DEF ResetKept, Answers, Demands, Has, Is
<1> QED
  BY <1>3, <1>5, <1>6, <1>7, <1>8, <1>9 DEF PreferencesInv

\* The settings that the user's choices lead to.
LEMMA ChosenSettings ==
    ASSUME NEW s \in Settings
    PROVE  /\ \A a, l \in Nat : LET to == [s EXCEPT !.attempts = a, !.lockout = l] IN
                 to \in Settings /\ to.key = s.key /\ to.intro = s.intro /\ to.cloud = s.cloud /\ to.enabled = s.enabled
           /\ LET to == [s EXCEPT !.pin = "default", !.enabled = FALSE, !.attempts = 0, !.lockout = 0] IN
                 to \in Settings /\ to.key = s.key /\ to.intro = s.intro /\ to.cloud = s.cloud /\ to.enabled = FALSE
           /\ LET to == [s EXCEPT !.enabled = ~@] IN
                 to \in Settings /\ to.key = s.key /\ to.intro = s.intro /\ to.cloud = s.cloud
           /\ LET to == [s EXCEPT !.pin = "own"] IN
                 to \in Settings /\ to.key = s.key /\ to.intro = s.intro /\ to.cloud = s.cloud /\ to.enabled = s.enabled
           /\ LET to == [s EXCEPT !.key = @ + 1] IN
                 to \in Settings /\ to.key = s.key + 1 /\ to.intro = s.intro /\ to.cloud = s.cloud /\ to.enabled = s.enabled
           /\ \A b \in BOOLEAN : LET to == [s EXCEPT !.cloud = b] IN
                 to \in Settings /\ to.key = s.key /\ to.intro = s.intro /\ to.cloud = b /\ to.enabled = s.enabled
           /\ LET to == [s EXCEPT !.intro = TRUE] IN
                 to \in Settings /\ to.key = s.key /\ to.intro = TRUE /\ to.cloud = s.cloud /\ to.enabled = s.enabled
<1>1. \A a, l \in Nat : LET to == [s EXCEPT !.attempts = a, !.lockout = l] IN
          to \in Settings /\ to.key = s.key /\ to.intro = s.intro /\ to.cloud = s.cloud /\ to.enabled = s.enabled
  BY DEF Settings
<1>2. LET to == [s EXCEPT !.pin = "default", !.enabled = FALSE, !.attempts = 0, !.lockout = 0] IN
          to \in Settings /\ to.key = s.key /\ to.intro = s.intro /\ to.cloud = s.cloud /\ to.enabled = FALSE
  BY SettingsReset DEF ResetValues
<1>3. LET to == [s EXCEPT !.enabled = ~@] IN
          to \in Settings /\ to.key = s.key /\ to.intro = s.intro /\ to.cloud = s.cloud
  BY DEF Settings
<1>4. LET to == [s EXCEPT !.pin = "own"] IN
          to \in Settings /\ to.key = s.key /\ to.intro = s.intro /\ to.cloud = s.cloud /\ to.enabled = s.enabled
  BY DEF Settings
<1>5. LET to == [s EXCEPT !.key = @ + 1] IN
          to \in Settings /\ to.key = s.key + 1 /\ to.intro = s.intro /\ to.cloud = s.cloud /\ to.enabled = s.enabled
  BY DEF Settings
<1>6. \A b \in BOOLEAN : LET to == [s EXCEPT !.cloud = b] IN
          to \in Settings /\ to.key = s.key /\ to.intro = s.intro /\ to.cloud = b /\ to.enabled = s.enabled
  BY DEF Settings
<1>7. LET to == [s EXCEPT !.intro = TRUE] IN
          to \in Settings /\ to.key = s.key /\ to.intro = TRUE /\ to.cloud = s.cloud /\ to.enabled = s.enabled
  BY DEF Settings
<1> QED
  BY <1>1, <1>2, <1>3, <1>4, <1>5, <1>6, <1>7

\* A change that leaves the choices of the first start as they are.
LEMMA ChangesKeep ==
    ASSUME NEW to \in Settings, PreferencesInv, Hydrated, to.key \in Nat,
           to.intro = copy.intro, to.cloud = copy.cloud, Sets(to),
           UNCHANGED <<file, window, awaited, toWindow, resetMissed, introVars>>,
           surface' \in {"none", "prompt", "settings"}, elapsed' \in Nat, wrong' \in Nat, resetStands' \in BOOLEAN,
           resetStands' /\ ~ resetMissed => ~ to.enabled \/ Told
    PROVE  PreferencesInv'
<1>1. /\ toWindow' \in Seq(WindowCalls) /\ (\A i \in DOMAIN toWindow' : ~ Answers(toWindow'[i]))
      /\ resetMissed' \in BOOLEAN /\ cloudOffered' \in BOOLEAN /\ copy.cloud \in BOOLEAN
  BY DEF PreferencesInv, PreferencesTypeOK, Reading, Hydrated, introVars, Settings
<1>2. /\ Has(toWindow', "get", "security") <=> Has(toWindow, "get", "security")
      /\ \A w : Newest(toWindow', "get", "security", w) <=> Newest(toWindow, "get", "security", w)
      /\ Told' <=> Told
  BY DEF Told, Has, Newest
<1>3. Promised' => Promised
  BY DEF Promised, introVars
<1>4. Promised' => (copy.intro => copy.cloud)
  BY <1>3 DEF PreferencesInv, PromiseKept
<1>5. to.intro \/ surface' = "closing" => copy.intro
  OBVIOUS
<1> QED
  BY <1>1, <1>2, <1>3, <1>4, <1>5, ShowsSettings

LEMMA LockActionsKeep ==
    ASSUME PreferencesInv,
           VerifyPin \/ RecordFailedPinAttempt \/ VerifyRecoveryKey \/ SwitchLock \/ HandlePinInputChange \/ HandleRegenerateKey
    PROVE  PreferencesInv'
<1>1. /\ copy \in Settings /\ elapsed \in Nat /\ wrong \in Nat /\ resetStands \in BOOLEAN
      /\ surface \in {"prompt", "settings"} => Hydrated /\ copy.key \in Nat
      /\ Hydrated /\ resetStands /\ ~ resetMissed => ~ copy.enabled \/ Told
  BY DEF PreferencesInv, PreferencesTypeOK, ResetKept
<1>2. 0 \in Nat /\ wrong + 1 \in Nat /\ copy.attempts + 1 \in Nat /\ copy.enabled \in BOOLEAN
  BY <1>1 DEF Settings
<1>a. \A a, l \in Nat : LET to == [copy EXCEPT !.attempts = a, !.lockout = l] IN
          to \in Settings /\ to.key = copy.key /\ to.intro = copy.intro /\ to.cloud = copy.cloud /\ to.enabled = copy.enabled
  BY <1>1, ChosenSettings
<1>3. CASE VerifyPin
  <2>1. PICK to : to = [copy EXCEPT !.attempts = 0, !.lockout = 0]
    OBVIOUS
  <2>2. Sets(to) /\ surface = "prompt" /\ surface' = "settings"
        /\ UNCHANGED <<file, window, awaited, toWindow, elapsed, resetVars, introVars, wrong>>
    BY <1>3, <2>1 DEF VerifyPin, PinEntered, boundVars
  <2>3. to \in Settings /\ to.key = copy.key /\ to.intro = copy.intro /\ to.cloud = copy.cloud /\ to.enabled = copy.enabled
    BY <1>a, <1>2, <2>1
  <2> QED
    BY <1>1, <2>2, <2>3, ChangesKeep DEF resetVars
<1>4. CASE RecordFailedPinAttempt
  <2>1. PICK l : l = IF copy.attempts + 1 >= 3 THEN wrong + 1 ELSE 0
    OBVIOUS
  <2>2. PICK to : to = [copy EXCEPT !.attempts = copy.attempts + 1, !.lockout = l]
    OBVIOUS
  <2>3. Sets(to) /\ surface = "prompt" /\ surface' = surface /\ wrong' = wrong + 1
        /\ UNCHANGED <<file, window, awaited, toWindow, elapsed, resetVars, introVars>>
    BY <1>4, <2>1, <2>2 DEF RecordFailedPinAttempt, PinEntered
  <2>4. l \in Nat
    BY <1>2, <2>1
  <2>5. to \in Settings /\ to.key = copy.key /\ to.intro = copy.intro /\ to.cloud = copy.cloud /\ to.enabled = copy.enabled
    BY <1>a, <1>2, <2>2, <2>4
  <2> QED
    BY <1>1, <1>2, <2>3, <2>5, ChangesKeep DEF resetVars
<1>5. CASE VerifyRecoveryKey
  <2>1. PICK to : to = [copy EXCEPT !.pin = "default", !.enabled = FALSE, !.attempts = 0, !.lockout = 0]
    OBVIOUS
  <2>2. Sets(to) /\ surface = "prompt" /\ surface' = "settings"
        /\ UNCHANGED <<file, window, awaited, toWindow, elapsed, resetVars, introVars, wrong>>
    BY <1>5, <2>1 DEF VerifyRecoveryKey, RecoveryKeyEntered, Chooses
  <2>3. to \in Settings /\ to.key = copy.key /\ to.intro = copy.intro /\ to.cloud = copy.cloud /\ ~ to.enabled
    BY <1>1, <2>1, ChosenSettings
  <2> QED
    BY <1>1, <2>2, <2>3, ChangesKeep DEF resetVars
<1>6. CASE SwitchLock
  <2>1. PICK to : to = [copy EXCEPT !.enabled = ~@]
    OBVIOUS
  <2>2. Sets(to) /\ surface = "settings" /\ surface' = surface /\ resetStands' = (resetStands /\ copy.enabled)
        /\ UNCHANGED <<file, window, awaited, toWindow, elapsed, resetMissed, introVars, wrong>>
    BY <1>6, <2>1 DEF SwitchLock, Chooses
  <2>3. to \in Settings /\ to.key = copy.key /\ to.intro = copy.intro /\ to.cloud = copy.cloud
    BY <1>1, <2>1, ChosenSettings
  <2>4. resetStands' \in BOOLEAN /\ (resetStands' => resetStands /\ copy.enabled)
    BY <2>2
  <2>5. resetStands' /\ ~ resetMissed => Told
    BY <1>1, <2>2, <2>4
  <2> QED
    BY <1>1, <2>2, <2>3, <2>4, <2>5, ChangesKeep
<1>7. CASE HandlePinInputChange
  <2>1. PICK to : to = [copy EXCEPT !.pin = "own"]
    OBVIOUS
  <2>2. Sets(to) /\ surface = "settings" /\ surface' = surface
        /\ UNCHANGED <<file, window, awaited, toWindow, elapsed, resetVars, introVars, wrong>>
    BY <1>7, <2>1 DEF HandlePinInputChange, LockPanelShown, Chooses
  <2>3. to \in Settings /\ to.key = copy.key /\ to.intro = copy.intro /\ to.cloud = copy.cloud /\ to.enabled = copy.enabled
    BY <1>1, <2>1, ChosenSettings
  <2> QED
    BY <1>1, <2>2, <2>3, ChangesKeep DEF resetVars
<1>8. CASE HandleRegenerateKey
  <2>1. PICK to : to = [copy EXCEPT !.key = @ + 1]
    OBVIOUS
  <2>2. Sets(to) /\ surface = "settings" /\ surface' = surface
        /\ UNCHANGED <<file, window, awaited, toWindow, elapsed, resetVars, introVars, wrong>>
    BY <1>8, <2>1 DEF HandleRegenerateKey, LockPanelShown, Chooses
  <2>3. to \in Settings /\ to.key = copy.key + 1 /\ to.intro = copy.intro /\ to.cloud = copy.cloud /\ to.enabled = copy.enabled
    BY <1>1, <2>1, ChosenSettings
  <2>4. to.key \in Nat
    BY <1>1, <2>2, <2>3
  <2> QED
    BY <1>1, <2>2, <2>3, <2>4, ChangesKeep DEF resetVars
<1> QED
  BY <1>3, <1>4, <1>5, <1>6, <1>7, <1>8

LEMMA IntroActionsKeep ==
    ASSUME PreferencesInv, HandleFinish \/ SetHasSeenIntro \/ OfferCloudSetup
    PROVE  PreferencesInv'
<1>1. /\ copy \in Settings /\ elapsed \in Nat /\ wrong \in Nat /\ resetStands \in BOOLEAN /\ resetMissed \in BOOLEAN
      /\ Hydrated => copy.key \in Nat
      /\ surface = "closing" => Hydrated
      /\ Hydrated /\ resetStands /\ ~ resetMissed => ~ copy.enabled \/ Told
      /\ toWindow \in Seq(WindowCalls) /\ (Hydrated => \A i \in DOMAIN toWindow : ~ Answers(toWindow[i]))
      /\ cloudOffered \in BOOLEAN
  BY DEF PreferencesInv, PreferencesTypeOK, ResetKept, Reading, Hydrated
<1>2. copy.cloud \in BOOLEAN /\ copy.intro \in BOOLEAN /\ TRUE \in BOOLEAN /\ FALSE \in BOOLEAN
  BY <1>1 DEF Settings
<1>3. toWindow' = toWindow => /\ Has(toWindow', "get", "security") <=> Has(toWindow, "get", "security")
                              /\ \A w : Newest(toWindow', "get", "security", w) <=> Newest(toWindow, "get", "security", w)
                              /\ Told' <=> Told
  BY DEF Told, Has, Newest
<1>4. CASE HandleFinish
  <2>1. PICK choice \in {"offline", "cloud"} :
            firstChoice' = choice /\ Sets([copy EXCEPT !.cloud = @ \/ choice = "cloud"])
    BY <1>4 DEF HandleFinish
  <2>a. PICK b \in BOOLEAN : b = (copy.cloud \/ choice = "cloud")
    OBVIOUS
  <2>b. \A c \in BOOLEAN : LET to == [copy EXCEPT !.cloud = c] IN
            to \in Settings /\ to.key = copy.key /\ to.intro = copy.intro /\ to.cloud = c /\ to.enabled = copy.enabled
    BY <1>1, ChosenSettings
  <2>2. PICK to : to = [copy EXCEPT !.cloud = b]
    OBVIOUS
  <2>3. /\ Sets(to) /\ Hydrated /\ ~ copy.intro /\ surface' = "closing" /\ cloudOffered' = FALSE
        /\ UNCHANGED <<file, window, awaited, toWindow, elapsed, resetVars, wrong>>
    BY <1>4, <2>1, <2>a, <2>2 DEF HandleFinish, IntroShown, Chooses
  <2>4. /\ to \in Settings /\ to.key = copy.key /\ to.intro = copy.intro
        /\ to.cloud = (copy.cloud \/ choice = "cloud") /\ to.enabled = copy.enabled
    BY <2>a, <2>b, <2>2
  <2>5. Promised' => to.cloud
    BY <2>1, <2>4 DEF Promised
  <2>6. /\ ~ to.intro => to.cloud \/ ~ copy.cloud
        /\ Promised' => \/ Promised
                        \/ ~ copy.intro /\ to.intro = copy.intro
        /\ Promised' => /\ to.cloud \/ ~ copy.cloud
                        /\ to.intro \/ surface' = "closing" => to.cloud
                        /\ to.intro # copy.intro => copy.cloud
    BY <1>2, <2>3, <2>4, <2>5
  <2> QED
    BY <1>1, <1>2, <1>3, <2>3, <2>4, <2>6, ShowsSettings DEF resetVars
<1>5. CASE SetHasSeenIntro
  <2>1. PICK to : to = [copy EXCEPT !.intro = TRUE]
    OBVIOUS
  <2>2. /\ Sets(to) /\ Hydrated /\ surface = "closing" /\ surface' = "none"
        /\ UNCHANGED <<file, window, awaited, toWindow, elapsed, resetVars, introVars, wrong>>
    BY <1>1, <1>5, <2>1 DEF SetHasSeenIntro, boundVars
  <2>3. /\ to \in Settings /\ to.key = copy.key /\ to.intro = TRUE
        /\ to.cloud = copy.cloud /\ to.enabled = copy.enabled
    BY <1>1, <2>1, ChosenSettings
  <2>4. Promised' => Promised /\ copy.cloud
    BY <2>2 DEF Promised, introVars, PreferencesInv, PromiseKept
  <2>5. /\ ~ to.intro => to.cloud \/ ~ copy.cloud
        /\ Promised' => \/ Promised
                        \/ ~ copy.intro /\ to.intro = copy.intro
        /\ Promised' => /\ to.cloud \/ ~ copy.cloud
                        /\ to.intro \/ surface' = "closing" => to.cloud
                        /\ to.intro # copy.intro => copy.cloud
        /\ cloudOffered' \in BOOLEAN
    BY <1>1, <2>2, <2>3, <2>4 DEF introVars
  <2> QED
    BY <1>1, <1>2, <1>3, <2>2, <2>3, <2>5, ShowsSettings DEF resetVars
<1>6. CASE OfferCloudSetup
  <2>1. PICK to : to = [copy EXCEPT !.cloud = FALSE]
    OBVIOUS
  <2>2. /\ Sets(to) /\ Hydrated /\ copy.intro /\ surface' \in {"prompt", "settings"} /\ cloudOffered' = TRUE
        /\ UNCHANGED <<file, window, awaited, toWindow, elapsed, resetVars, wrong>>
    BY <1>6, <2>1 DEF OfferCloudSetup, MainShown, boundVars
  <2>3. /\ to \in Settings /\ to.key = copy.key /\ to.intro = copy.intro /\ to.enabled = copy.enabled
    BY <1>1, <1>2, <2>1, ChosenSettings
  <2>4. ~ Promised' /\ to.intro
    BY <2>2, <2>3 DEF Promised
  <2>5. surface' \in {"none", "prompt", "settings", "closing"} /\ cloudOffered' \in BOOLEAN
    BY <2>2
  <2> QED
    BY <1>1, <1>3, <2>2, <2>3, <2>4, <2>5, ShowsSettings DEF resetVars
<1> QED
  BY <1>4, <1>5, <1>6

LEMMA ScreensKeep ==
    ASSUME PreferencesInv, UNCHANGED <<file, window, copy, awaited, channelVars, resetVars, introVars, wrong>>,
           surface' \in {"none", "prompt", "settings", "closing"}, elapsed' \in Nat,
           ~ Hydrated => surface' = "none",
           surface' = "closing" => surface = "closing"
    PROVE  PreferencesInv'
<1>1. PreferencesTypeOK'
  BY DEF PreferencesInv, PreferencesTypeOK, Hydrated, channelVars, resetVars, introVars
<1>2. Reading' /\ (Hydrated' <=> Hydrated)
  BY DEF PreferencesInv, Reading, SameChoices, Hydrated, channelVars, Has
<1>3. Hydrated => LockKept'
  BY DEF PreferencesInv, LockKept, channelVars, Has, Newest
<1>4. Hydrated => IntroKept' /\ CloudKept'
  BY DEF PreferencesInv, IntroKept, CloudKept, channelVars, Has, Newest
<1>5. ResetKept'
  BY <1>2 DEF PreferencesInv, ResetKept, Told, channelVars, resetVars, Has
<1>6. PromiseKept'
  BY <1>2 DEF PreferencesInv, PromiseKept, Promised, channelVars, introVars
<1> QED
  BY <1>1, <1>2, <1>3, <1>4, <1>5, <1>6 DEF PreferencesInv

LEMMA ScreenActionsKeep ==
    ASSUME PreferencesInv,
           \/ RequestOpenSettings \/ ClosePinPrompt \/ CloseSettings \/ LockoutEnds
           \/ UNCHANGED preferencesVars
    PROVE  PreferencesInv'
<1>1. /\ surface \in {"none", "prompt", "settings", "closing"} /\ elapsed \in Nat
      /\ ~ Hydrated => surface = "none"
      /\ copy.lockout \in Nat
  BY DEF PreferencesInv, PreferencesTypeOK, Settings
<1>2. CASE RequestOpenSettings
  BY <1>1, <1>2, ScreensKeep DEF RequestOpenSettings, MainShown, boundVars
<1>3. CASE ClosePinPrompt
  BY <1>1, <1>3, ScreensKeep DEF ClosePinPrompt, boundVars
<1>4. CASE CloseSettings
  BY <1>1, <1>4, ScreensKeep DEF CloseSettings, boundVars
<1>5. CASE LockoutEnds
  BY <1>1, <1>5, ScreensKeep DEF LockoutEnds, windowVars, boundVars
<1>6. CASE UNCHANGED preferencesVars
  BY <1>1, <1>6, ScreensKeep DEF preferencesVars, windowVars, boundVars
<1> QED
  BY <1>2, <1>3, <1>4, <1>5, <1>6

LEMMA QuitKeeps ==
    ASSUME PreferencesInv, Quit
    PROVE  PreferencesInv'
<1>1. /\ window' = "off" /\ toMain' = <<>> /\ toWindow' = <<>>
      /\ copy' = InitialState /\ awaited' = DefaultSettings /\ surface' = "none"
      /\ resetMissed' = (resetMissed \/ (resetStands /\ channelVars # <<<<>>, <<>>>>))
      /\ UNCHANGED <<file, elapsed, resetStands, introVars, wrong>>
  BY DEF Quit, boundVars
<1>2. PreferencesTypeOK'
  BY <1>1, FirstSettings DEF PreferencesInv, PreferencesTypeOK, Hydrated, introVars
<1>3. Reading' /\ ~ Hydrated'
  BY <1>1 DEF Reading, Hydrated
<1>4. ResetKept'
  <2> SUFFICES ASSUME resetStands' /\ ~ resetMissed' PROVE ~ file.enabled
    BY <1>1, <1>3 DEF ResetKept, Has
  <2>1. resetStands /\ ~ resetMissed /\ toMain = <<>> /\ toWindow = <<>>
    BY <1>1 DEF channelVars
  <2>2. CASE ~ Hydrated
    BY <2>1, <2>2 DEF PreferencesInv, ResetKept
  <2>3. CASE Hydrated
    <3>1. ~ Told /\ ~ Has(toMain, "get", "security") /\ ~ Has(toWindow, "get", "security") /\ ~ Has(toMain, "set", "security")
      BY <2>1 DEF Told, Has
    <3>2. Only(Security, file) = Only(Security, copy)
      BY <2>3, <3>1 DEF PreferencesInv, LockKept, Told
    <3>3. ~ copy.enabled /\ copy \in Settings /\ file \in Settings
      BY <2>1, <2>3, <3>1 DEF PreferencesInv, ResetKept, PreferencesTypeOK, SettingsFiles
    <3> QED
      BY <3>2, <3>3, ResetOfSame
  <2> QED
    BY <2>2, <2>3
<1>5. PromiseKept'
  BY <1>1, <1>3 DEF PreferencesInv, PromiseKept, Promised, introVars
<1> QED
  BY <1>2, <1>3, <1>4, <1>5 DEF PreferencesInv

LEMMA ResetPinKeeps ==
    ASSUME PreferencesInv, ResetPin
    PROVE  PreferencesInv'
<1>1. PICK m : m = [call |-> "reset", field |-> "security", values |-> <<>>]
  OBVIOUS
<1>2. /\ file' = ResetValues(file) /\ resetStands' = TRUE
      /\ toWindow' = IF window \in {"loading", "hydrated"} THEN Append(toWindow, m) ELSE toWindow
      /\ UNCHANGED <<toMain, window, copy, awaited, surface, elapsed, resetMissed, introVars, wrong>>
  BY <1>1 DEF ResetPin, windowVars
<1>3. m \in WindowCalls /\ Is(m, "reset", "security") /\ ~ Answers(m) /\ ~ Is(m, "get", "security")
      /\ ~ Is(m, "saved", "sound") /\ m.call # "get" /\ m.call # "load"
  BY <1>1 DEF WindowCalls, Is, Answers
<1>4. /\ file \in SettingsFiles /\ file \in Settings /\ copy \in Settings /\ toWindow \in Seq(WindowCalls)
      /\ window \in {"off", "starting", "loading", "hydrated"}
      /\ window \in {"off", "starting"} => toMain = <<>> /\ toWindow = <<>>
  BY DEF PreferencesInv, PreferencesTypeOK, Reading, SettingsFiles
<1>5. /\ file' \in SettingsFiles /\ file'.enabled = FALSE /\ file'.intro = file.intro /\ file'.cloud = file.cloud
  BY <1>2, <1>4, SettingsReset DEF SettingsFiles
<1>6. Put(toWindow, TRUE, m) = Append(toWindow, m) /\ TRUE \in BOOLEAN
  BY DEF Put
<1>7. window \in {"loading", "hydrated"} =>
          \A i \in DOMAIN toWindow' : \/ i \in DOMAIN toWindow /\ toWindow'[i] = toWindow[i]
                                      \/ toWindow'[i] = m
  BY <1>2, <1>3, <1>4, <1>6, PutAfter
<1>8. window \in {"loading", "hydrated"} =>
          /\ toWindow' \in Seq(WindowCalls) /\ Told'
          /\ Has(toWindow', "saved", "sound") <=> Has(toWindow, "saved", "sound")
          /\ Has(toWindow', "get", "security") <=> Has(toWindow, "get", "security")
          /\ \A w : Newest(toWindow', "get", "security", w) <=> Newest(toWindow, "get", "security", w)
  BY <1>2, <1>3, <1>4, CallAppended DEF Told
<1>9. PreferencesTypeOK' /\ (Hydrated' <=> Hydrated)
  BY <1>2, <1>4, <1>5, <1>8 DEF PreferencesInv, PreferencesTypeOK, Hydrated, introVars
<1>10. Reading'
  <2>1. CASE window \in {"off", "starting"}
    BY <1>2, <1>4, <2>1 DEF Reading
  <2>2. CASE window = "loading"
    BY <1>2, <1>3, <1>5, <1>7, <1>8, <2>2 DEF PreferencesInv, Reading, SameChoices
  <2>3. CASE window = "hydrated"
    BY <1>2, <1>3, <1>7, <2>3 DEF PreferencesInv, Reading
  <2> QED
    BY <1>4, <2>1, <2>2, <2>3
<1>11. Hydrated => LockKept'
  <2> SUFFICES ASSUME Hydrated PROVE LockKept'
    OBVIOUS
  <2>1. LockKept /\ window \in {"loading", "hydrated"}
    BY DEF PreferencesInv, Hydrated
  <2>2. Only(Security, file) = Only(Security, copy) => Only(Security, file') = Only(Security, ResetValues(copy))
    BY <1>2, <1>4, ResetOfSame
  <2>3. Only(Security, file) = Only(Security, ResetValues(copy)) => Only(Security, file') = Only(Security, ResetValues(copy))
    BY <1>2, <1>4, ResetOfSame, SettingsReset
  <2> QED
    BY <1>2, <1>8, <2>1, <2>2, <2>3 DEF LockKept, Told
<1>12. Hydrated => IntroKept' /\ CloudKept'
  BY <1>2, <1>5 DEF PreferencesInv, IntroKept, CloudKept
<1>13. ResetKept'
  <2>1. CASE window \in {"off", "starting"}
    <3>1. ~ Hydrated' /\ toMain' = <<>> /\ toWindow' = <<>>
      BY <1>2, <1>4, <2>1 DEF Hydrated
    <3> QED
      BY <1>5, <3>1 DEF ResetKept, Has
  <2>2. CASE window \in {"loading", "hydrated"}
    BY <1>5, <1>8, <2>2 DEF ResetKept
  <2> QED
    BY <1>4, <2>1, <2>2
<1>14. PromiseKept'
  BY <1>2, <1>5, <1>9 DEF PreferencesInv, PromiseKept, Promised, introVars
<1> QED
  BY <1>9, <1>10, <1>11, <1>12, <1>13, <1>14 DEF PreferencesInv

LEMMA OnPinResetKeeps ==
    ASSUME PreferencesInv, OnPinReset
    PROVE  PreferencesInv'
<1>1. /\ toWindow # <<>> /\ Head(toWindow).call = "reset" /\ toWindow' = Tail(toWindow) /\ AppliesReset
      /\ surface' = (IF surface = "prompt" THEN "none" ELSE surface)
      /\ resetMissed' = (resetMissed \/ ~ Hydrated)
      /\ UNCHANGED <<file, window, awaited, elapsed, resetStands, introVars, wrong>>
  BY DEF OnPinReset, boundVars
<1>2. /\ copy \in Settings /\ toWindow \in Seq(WindowCalls) /\ elapsed \in Nat /\ wrong \in Nat
      /\ surface \in {"none", "prompt", "settings", "closing"} /\ resetStands \in BOOLEAN /\ resetMissed \in BOOLEAN
      /\ cloudOffered \in BOOLEAN
  BY DEF PreferencesInv, PreferencesTypeOK
<1>3. /\ ResetValues(copy) \in Settings /\ ResetValues(copy).key = copy.key /\ ResetValues(copy).intro = copy.intro
      /\ ResetValues(copy).cloud = copy.cloud /\ ResetValues(copy).enabled = FALSE
  BY <1>2, SettingsReset
<1>4. ~ Is(Head(toWindow), "get", "security") /\ ~ Is(Head(toWindow), "saved", "sound")
  BY <1>1 DEF Is
<1>5. /\ toWindow' \in Seq(WindowCalls)
      /\ Has(toWindow', "get", "security") <=> Has(toWindow, "get", "security")
      /\ Has(toWindow', "saved", "sound") <=> Has(toWindow, "saved", "sound")
      /\ \A w : Newest(toWindow', "get", "security", w) <=> Newest(toWindow, "get", "security", w)
  BY <1>1, <1>2, <1>4, CallServed
<1>6. \A i \in DOMAIN toWindow' : i \in Int /\ i + 1 \in DOMAIN toWindow /\ toWindow'[i] = toWindow[i + 1]
  BY <1>1, <1>2, CallsLeft
<1>7. CASE Hydrated
  <2>1. PICK to : to = ResetValues(copy)
    OBVIOUS
  <2>2. Sets(to)
    BY <1>1, <1>7, <2>1 DEF AppliesReset
  <2>3. to.key \in Nat /\ (\A i \in DOMAIN toWindow : ~ Answers(toWindow[i])) /\ (Promised /\ copy.intro => copy.cloud)
        /\ (Promised /\ surface = "closing" => copy.cloud)
    BY <1>3, <1>7, <2>1 DEF PreferencesInv, PreferencesTypeOK, Reading, Hydrated, PromiseKept
  <2>4. \A i \in DOMAIN toWindow' : ~ Answers(toWindow'[i])
    BY <1>6, <2>3
  <2>5. /\ surface' \in {"none", "prompt", "settings", "closing"} /\ (surface' = "closing" => surface = "closing")
        /\ resetMissed' \in BOOLEAN /\ (Promised' <=> Promised) /\ cloudOffered' \in BOOLEAN
    BY <1>1, <1>2 DEF Promised, introVars
  <2>6. copy.cloud \in BOOLEAN /\ copy.intro \in BOOLEAN
    BY <1>2 DEF Settings
  <2>7. /\ to.intro = copy.intro /\ to.cloud = copy.cloud /\ ~ to.enabled /\ to \in Settings
    BY <1>3, <2>1
  <2>8. /\ Promised' => \/ Promised
                        \/ ~ copy.intro /\ to.intro = copy.intro
        /\ Promised' => /\ to.cloud \/ ~ copy.cloud
                        /\ to.intro \/ surface' = "closing" => to.cloud
                        /\ to.intro # copy.intro => copy.cloud
        /\ ~ to.intro => to.cloud \/ ~ copy.cloud
    BY <2>3, <2>5, <2>6, <2>7
  <2> QED
    BY <1>1, <1>2, <1>5, <1>7, <2>1, <2>2, <2>3, <2>4, <2>5, <2>7, <2>8, ShowsSettings
<1>8. CASE ~ Hydrated
  <2>1. copy' = ResetValues(copy) /\ toMain' = toMain /\ resetMissed' = TRUE /\ surface' = "none" /\ ~ Hydrated'
    BY <1>1, <1>8 DEF AppliesReset, OnlyShows, PreferencesInv, PreferencesTypeOK, Hydrated
  <2>2. PreferencesTypeOK'
    BY <1>1, <1>3, <1>5, <1>8, <2>1 DEF PreferencesInv, PreferencesTypeOK, Hydrated, introVars
  <2>3. window = "loading"
    BY <1>1, <1>8 DEF PreferencesInv, PreferencesTypeOK, Reading, Hydrated
  <2>4. /\ toMain # <<>> => /\ Len(toMain) = 1 /\ Demands(toMain[1])
                            /\ \A i \in DOMAIN toWindow : ~ Answers(toWindow[i])
        /\ \A i \in DOMAIN toWindow : toWindow[i].call # "get"
        /\ \A i, j \in DOMAIN toWindow : Answers(toWindow[i]) /\ Answers(toWindow[j]) => i = j
        /\ \A i \in DOMAIN toWindow : toWindow[i].call = "load" => SameChoices(toWindow[i].values)
        /\ Has(toMain, "set", "sound") \/ Has(toWindow, "saved", "sound") => SameChoices(awaited)
    BY <2>3 DEF PreferencesInv, Reading
  <2>5. \A i, j \in DOMAIN toWindow' : Answers(toWindow'[i]) /\ Answers(toWindow'[j]) => i = j
    <3> SUFFICES ASSUME NEW i \in DOMAIN toWindow', NEW j \in DOMAIN toWindow', Answers(toWindow'[i]), Answers(toWindow'[j])
                 PROVE  i = j
      OBVIOUS
    <3>1. i + 1 = j + 1 /\ i \in Int /\ j \in Int
      BY <1>6, <2>4
    <3> QED
      BY <3>1
  <2>6. Reading'
    BY <1>1, <1>5, <1>6, <2>1, <2>3, <2>4, <2>5 DEF Reading, SameChoices
  <2>7. ResetKept'
    BY <2>1 DEF ResetKept
  <2>8. PromiseKept'
    BY <1>1, <2>1 DEF PreferencesInv, PromiseKept, Promised, introVars
  <2> QED
    BY <2>1, <2>2, <2>6, <2>7, <2>8 DEF PreferencesInv
<1> QED
  BY <1>7, <1>8

\* The window shows what it has read: none of it was shown before.
LEMMA HydratesKeeps ==
    ASSUME NEW values \in SettingsFiles, PreferencesInv, window = "loading", toMain = <<>>, Hydrates(values),
           SameChoices(values), UNCHANGED <<file, surface, elapsed, resetVars, introVars, wrong>>,
           awaited' \in SettingsFiles, toWindow' \in Seq(WindowCalls), \A i \in DOMAIN toWindow' : ~ Answers(toWindow'[i]),
           resetStands /\ ~ resetMissed => ~ values.enabled \/ Told'
    PROVE  PreferencesInv'
<1>1. PICK to : to = [values EXCEPT !.sound = "current"]
  OBVIOUS
<1>2. Sets(to) /\ window' = "hydrated"
  BY <1>1 DEF Hydrates
<1>3. /\ to \in Settings /\ to.key \in Nat /\ to.intro = file.intro /\ to.cloud = file.cloud /\ to.enabled = values.enabled
      /\ to.intro \in BOOLEAN /\ to.cloud \in BOOLEAN
  BY <1>1 DEF SettingsFiles, Settings, SameChoices
<1>4. /\ copy \in Settings /\ ~ copy.intro /\ ~ copy.cloud /\ copy.key = -1 /\ toMain \in Seq(MainCalls)
      /\ surface = "none"
  BY DEF PreferencesInv, PreferencesTypeOK, Hydrated
<1>5. copy.intro = FALSE /\ copy.cloud = FALSE
  BY <1>4 DEF Settings
<1>6. Only(Security, to) # Only(Security, copy)
  <2>1. to.key # copy.key
    BY <1>3, <1>4
  <2>2. \A s, r : Only(Security, s) = Only(Security, r) => s.key = r.key
    BY DEF Only, Security
  <2> QED
    BY <2>1, <2>2
<1>7. /\ copy' = to /\ toMain' \in Seq(MainCalls)
      /\ IF to.intro = copy.intro THEN Same("set", "intro") ELSE Sent("set", "intro", Only({"intro"}, to))
      /\ IF to.cloud = copy.cloud THEN Same("set", "cloud") ELSE Sent("set", "cloud", Only({"cloud"}, to))
      /\ IF Only(Security, to) = Only(Security, copy) THEN Same("get", "security")
         ELSE Sent("get", "security", Only(Security, to))
      /\ \A i \in DOMAIN toMain' :
            \/ i \in DOMAIN toMain
            \/ /\ \A j \in DOMAIN toMain : j < i
               /\ \/ toMain'[i] = IntroCall /\ to.intro # copy.intro /\ to.intro
                  \/ toMain'[i] = CloudCall(to) /\ to.cloud # copy.cloud
                  \/ toMain'[i] = LockCall(to)
  BY <1>2, <1>3, <1>4, SetsSends
<1>8. \A i \in DOMAIN toMain' :
          \/ toMain'[i] = IntroCall /\ to.intro
          \/ toMain'[i] = CloudCall(to) /\ to.cloud
          \/ toMain'[i] = LockCall(to)
  <2>1. \A i : i \notin DOMAIN toMain
    OBVIOUS
  <2>2. to.cloud # copy.cloud => to.cloud
    BY <1>3, <1>5
  <2> QED
    BY <1>7, <2>1, <2>2
<1>9. \A c, f : ~ Has(toMain, c, f) /\ \A w : Newest(toMain, c, f, w)
  BY DEF Has, Newest
<1>10. PreferencesTypeOK' /\ Hydrated'
  BY <1>2, <1>3, <1>7 DEF PreferencesInv, PreferencesTypeOK, Hydrated, resetVars, introVars
<1>11. \A i \in DOMAIN toMain' : ~ Demands(toMain'[i])
  BY <1>8 DEF Demands, Is, IntroCall, CloudCall, LockCall
<1>12. Reading'
  BY <1>2, <1>11 DEF Reading
<1>13. LockKept'
  BY <1>6, <1>7 DEF LockKept, Sent
<1>14. IntroKept'
  <2>1. CASE to.intro
    BY <1>3, <1>5, <1>7, <2>1 DEF IntroKept, Sent
  <2>2. CASE ~ to.intro
    BY <1>3, <1>5, <1>7, <1>9, <2>2 DEF IntroKept, Same
  <2> QED
    BY <2>1, <2>2
<1>15. \A i \in DOMAIN toMain' : Is(toMain'[i], "set", "cloud") => toMain'[i].values.cloud
  <2>1. CloudCall(to).values.cloud = to.cloud
    BY <1>3, CallsOfSettings
  <2> QED
    BY <1>8, <2>1 DEF Is, IntroCall, LockCall
<1>16. CloudKept'
  <2>1. Newest(toMain', "set", "cloud", Only({"cloud"}, to)) /\ (~ Has(toMain', "set", "cloud") => file.cloud = to.cloud)
    BY <1>3, <1>7, <1>9 DEF Same, Sent
  <2> QED
    BY <1>7, <1>15, <2>1 DEF CloudKept
<1>17. ResetKept'
  BY <1>3, <1>7, <1>10, <1>11 DEF ResetKept, Answers, Demands, Has, Is, resetVars
<1>18. PromiseKept'
  <2> SUFFICES ASSUME Promised' PROVE PromiseKept'
    BY DEF PromiseKept
  <2>1. file.intro => file.cloud
    BY DEF PreferencesInv, PromiseKept, Promised, introVars
  <2>2. \A i \in DOMAIN toMain' : Is(toMain'[i], "set", "intro") => file.cloud
    BY <1>3, <1>8, <2>1 DEF Is, CloudCall, LockCall
  <2> QED
    BY <1>3, <1>4, <1>7, <1>15, <2>1, <2>2 DEF PromiseKept
<1> QED
  BY <1>10, <1>12, <1>13, <1>14, <1>16, <1>17, <1>18 DEF PreferencesInv

LEMMA ReadingsKeep ==
    ASSUME PreferencesInv, SettingsRead \/ SoundSaved
    PROVE  PreferencesInv'
<1>1. PICK h : h = Head(toWindow)
  OBVIOUS
<1>2. toWindow # <<>> /\ toWindow \in Seq(WindowCalls) /\ toWindow' = Tail(toWindow) /\ Answers(h)
  BY <1>1 DEF SettingsRead, SoundSaved, Answers, PreferencesInv, PreferencesTypeOK
<1>3. /\ toWindow' \in Seq(WindowCalls) /\ h \in WindowCalls /\ 1 \in DOMAIN toWindow /\ toWindow[1] = h
      /\ ~ Is(h, "reset", "security") => (Told' <=> Told)
  BY <1>1, <1>2, CallServed DEF Told
<1>4. \A i \in DOMAIN toWindow' : i \in Int /\ i > 0 /\ i + 1 \in DOMAIN toWindow /\ toWindow'[i] = toWindow[i + 1]
  <2>1. \A i \in DOMAIN toWindow' : i \in Int /\ i + 1 \in DOMAIN toWindow /\ toWindow'[i] = toWindow[i + 1]
    BY <1>2, CallsLeft
  <2>2. DOMAIN toWindow' = 1 .. Len(toWindow')
    BY <1>3
  <2> QED
    BY <2>1, <2>2
<1>5. Told' <=> Told
  BY <1>2, <1>3 DEF Answers, Is
<1>6. window = "loading"
  BY <1>2, <1>3 DEF PreferencesInv, PreferencesTypeOK, Reading
<1>7. /\ toMain = <<>>
      /\ \A i \in DOMAIN toWindow : toWindow[i].call # "get"
      /\ \A i, j \in DOMAIN toWindow : Answers(toWindow[i]) /\ Answers(toWindow[j]) => i = j
      /\ \A i \in DOMAIN toWindow : toWindow[i].call = "load" => SameChoices(toWindow[i].values)
      /\ Has(toWindow, "saved", "sound") => SameChoices(awaited)
  BY <1>2, <1>3, <1>6 DEF PreferencesInv, Reading
<1>8. \A i \in DOMAIN toWindow' : ~ Answers(toWindow'[i]) /\ toWindow'[i].call # "get"
  <2> SUFFICES ASSUME NEW i \in DOMAIN toWindow' PROVE ~ Answers(toWindow'[i]) /\ toWindow'[i].call # "get"
    OBVIOUS
  <2>1. i + 1 # 1
    BY <1>4
  <2> QED
    BY <1>2, <1>3, <1>4, <1>7, <2>1
<1>9. ~ Hydrated /\ (resetStands /\ ~ resetMissed =>
          /\ \A i \in DOMAIN toWindow : toWindow[i].call = "load" => ~ toWindow[i].values.enabled \/ Told
          /\ Has(toWindow, "saved", "sound") => ~ awaited.enabled \/ Told)
  BY <1>6 DEF PreferencesInv, ResetKept, Hydrated
<1>10. CASE SettingsRead
  <2>1. /\ h.call = "load" /\ UNCHANGED <<file, surface, elapsed, resetVars, introVars, wrong>>
        /\ IF h.values.sound = "legacy"
           THEN /\ awaited' = h.values
                /\ toMain' = Append(toMain, [call |-> "set", field |-> "sound", values |-> Only({"sound"}, DefaultSettings)])
                /\ UNCHANGED <<window, copy>>
           ELSE Hydrates(h.values) /\ awaited' = awaited
    BY <1>1, <1>10 DEF SettingsRead, boundVars
  <2>2. h.values \in SettingsFiles /\ SameChoices(h.values) /\ (resetStands /\ ~ resetMissed => ~ h.values.enabled \/ Told')
    BY <1>3, <1>5, <1>7, <1>9, <2>1, WindowCallIs
  <2>3. CASE h.values.sound # "legacy"
    <3>1. Hydrates(h.values) /\ awaited' \in SettingsFiles
      BY <2>1, <2>3 DEF PreferencesInv, PreferencesTypeOK
    <3> QED
      BY <1>3, <1>6, <1>7, <1>8, <2>1, <2>2, <3>1, HydratesKeeps
  <2>4. CASE h.values.sound = "legacy"
    <3>1. PICK m : m = [call |-> "set", field |-> "sound", values |-> Only({"sound"}, DefaultSettings)]
      OBVIOUS
    <3>2. m \in MainCalls /\ Demands(m) /\ ~ Is(m, "set", "cloud") /\ ~ Is(m, "set", "intro")
      <4>1. Only({"sound"}, DefaultSettings) \in [sound : {"current"}]
        BY DEF Only, DefaultSettings
      <4> QED
        BY <3>1, <4>1 DEF MainCalls, Demands, Is
    <3>3. toMain' = <<m>> /\ awaited' = h.values /\ UNCHANGED <<window, copy>>
      BY <1>7, <2>1, <2>4, <3>1
    <3>4. toMain' \in Seq(MainCalls) /\ Len(toMain') = 1 /\ toMain'[1] = m /\ DOMAIN toMain' = {1}
      BY <3>2, <3>3
    <3>5. PreferencesTypeOK' /\ ~ Hydrated'
      BY <1>3, <1>9, <2>1, <2>2, <3>3, <3>4 DEF PreferencesInv, PreferencesTypeOK, Hydrated, resetVars, introVars
    <3>6. Reading'
      <4>1. SameChoices(awaited)'
        BY <2>1, <2>2, <3>3 DEF SameChoices
      <4>2. \A i, j \in DOMAIN toWindow' : Answers(toWindow'[i]) /\ Answers(toWindow'[j]) => i = j
        BY <1>8
      <4>3. \A i \in DOMAIN toWindow' : toWindow'[i].call # "load"
        BY <1>8 DEF Answers
      <4> QED
        BY <1>6, <1>8, <3>2, <3>3, <3>4, <4>1, <4>2, <4>3 DEF Reading
    <3>7. ResetKept'
      <4>1. file' = file /\ resetStands' = resetStands /\ resetMissed' = resetMissed
        BY <2>1 DEF resetVars
      <4>2. resetStands /\ ~ resetMissed => ~ file.enabled
        BY <1>9 DEF PreferencesInv, ResetKept
      <4> QED
        BY <1>8, <2>2, <3>3, <3>5, <4>1, <4>2 DEF ResetKept, Answers
    <3>8. PromiseKept'
      BY <2>1, <3>2, <3>4, <3>5 DEF PreferencesInv, PromiseKept, Promised, introVars
    <3> QED
      BY <3>5, <3>6, <3>7, <3>8 DEF PreferencesInv
  <2> QED
    BY <2>3, <2>4
<1>11. CASE SoundSaved
  <2>1. /\ h.call = "saved" /\ Hydrates(awaited) /\ awaited' = DefaultSettings
        /\ UNCHANGED <<file, surface, elapsed, resetVars, introVars, wrong>>
    BY <1>1, <1>11 DEF SoundSaved, boundVars
  <2>2. Has(toWindow, "saved", "sound")
    BY <1>3, <2>1, WindowCallIs DEF Has, Is
  <2>3. awaited \in SettingsFiles /\ awaited' \in SettingsFiles
    BY <2>1, FirstSettings DEF PreferencesInv, PreferencesTypeOK
  <2>4. SameChoices(awaited) /\ (resetStands /\ ~ resetMissed => ~ awaited.enabled \/ Told')
    BY <1>5, <1>7, <1>9, <2>2
  <2> QED
    BY <1>3, <1>6, <1>7, <1>8, <2>1, <2>3, <2>4, HydratesKeeps
<1> QED
  BY <1>10, <1>11

\* The main process serves what a window that loads has asked for.
LEMMA ServesLoading ==
    ASSUME PreferencesInv, StoreHandler, window = "loading"
    PROVE  PreferencesInv'
<1>1. PICK h : h = Head(toMain)
  OBVIOUS
<1>2. /\ toMain # <<>> /\ toMain \in Seq(MainCalls) /\ toWindow \in Seq(WindowCalls) /\ file \in SettingsFiles
      /\ toMain' = Tail(toMain) /\ UNCHANGED <<window, copy, awaited, surface, elapsed, resetVars, introVars, wrong>>
  BY DEF StoreHandler, windowVars, boundVars, PreferencesInv, PreferencesTypeOK
<1>3. /\ Len(toMain) = 1 /\ Demands(h) /\ h \in MainCalls /\ 1 \in DOMAIN toMain /\ toMain[1] = h
      /\ \A i \in DOMAIN toWindow : ~ Answers(toWindow[i]) /\ toWindow[i].call # "get"
  BY <1>1, <1>2, CallServed DEF PreferencesInv, Reading
<1>4. toMain' = <<>> /\ toMain' \in Seq(MainCalls) /\ (\A c, f : ~ Has(toMain', c, f)) /\ (\A i : i \notin DOMAIN toMain')
  BY <1>2, <1>3, CallsLeft DEF Has
<1>5. ~ Has(toWindow, "saved", "sound") /\ ~ Hydrated /\ ~ Hydrated' /\ (Told' <=> Has(toWindow', "reset", "security"))
  BY <1>2, <1>3 DEF Has, Is, Answers, Hydrated, Told
<1>6. resetStands /\ ~ resetMissed => ~ file.enabled /\ (Has(toMain, "set", "sound") => ~ awaited.enabled \/ Told)
  BY <1>5 DEF PreferencesInv, ResetKept
\* What is answered.
<1>7. ASSUME NEW m \in WindowCalls, toWindow' = Append(toWindow, m), Answers(m),
             file' \in SettingsFiles, file'.intro = file.intro, file'.cloud = file.cloud, file'.enabled = file.enabled,
             m.call = "load" => m.values = file',
             m.call = "saved" => Has(toMain, "set", "sound")
      PROVE  PreferencesInv'
  <2>1. Put(toWindow, TRUE, m) = Append(toWindow, m) /\ TRUE \in BOOLEAN
    BY DEF Put
  <2>2. \A i \in DOMAIN toWindow' : \/ i \in DOMAIN toWindow /\ toWindow'[i] = toWindow[i]
                                    \/ (\A j \in DOMAIN toWindow : j < i) /\ toWindow'[i] = m
    BY <1>2, <1>7, <2>1, PutAfter
  <2>3. /\ toWindow' \in Seq(WindowCalls)
        /\ ~ Is(m, "reset", "security") => (Told' <=> Told)
        /\ Has(toWindow', "saved", "sound") <=> Is(m, "saved", "sound")
    BY <1>2, <1>5, <1>7, CallAppended DEF Told
  <2>4. (Told' <=> Told) /\ m.call # "get"
    BY <1>7, <2>3 DEF Answers, Is
  <2>5. PreferencesTypeOK'
    BY <1>2, <1>4, <1>5, <1>7, <2>3 DEF PreferencesInv, PreferencesTypeOK, Hydrated, resetVars, introVars
  <2>6. \A i \in DOMAIN toWindow' : toWindow'[i].call # "get" /\ (Answers(toWindow'[i]) => toWindow'[i] = m /\ i \notin DOMAIN toWindow)
    <3>1. \A i \in DOMAIN toWindow : i \in Int
      BY <1>2
    <3> QED
      BY <1>3, <2>2, <2>4, <3>1
  <2>7. \A i, j \in DOMAIN toWindow' : Answers(toWindow'[i]) /\ Answers(toWindow'[j]) => i = j
    <3>1. \A i \in DOMAIN toWindow' \ DOMAIN toWindow : i = Len(toWindow) + 1
      BY <1>2, <1>7
    <3> QED
      BY <2>6, <3>1
  <2>8. \A i \in DOMAIN toWindow' : toWindow'[i].call = "load" => toWindow'[i].values = file'
    BY <1>7, <2>6 DEF Answers
  <2>9. Has(toMain, "set", "sound") => SameChoices(awaited)'
    BY <1>2, <1>7 DEF PreferencesInv, Reading, SameChoices
  <2>10. Reading'
    BY <1>2, <1>4, <1>7, <2>3, <2>6, <2>7, <2>8, <2>9 DEF Reading, SameChoices, Is
  <2>11. ResetKept'
    BY <1>2, <1>4, <1>5, <1>6, <1>7, <2>3, <2>4, <2>8 DEF ResetKept, resetVars, Is
  <2>12. PromiseKept'
    BY <1>2, <1>4, <1>5, <1>7 DEF PreferencesInv, PromiseKept, Promised, introVars
  <2> QED
    BY <1>5, <2>5, <2>10, <2>11, <2>12 DEF PreferencesInv
<1>8. CASE h.call = "load"
  <2>1. PICK m : m = [call |-> "load", field |-> "all", values |-> file]
    OBVIOUS
  <2>2. toWindow' = Append(toWindow, m) /\ file' = file
    BY <1>1, <1>8, <2>1 DEF StoreHandler
  <2>3. m \in WindowCalls /\ Answers(m) /\ m.call # "saved" /\ m.values = file'
    BY <1>2, <2>1, <2>2 DEF WindowCalls, Answers
  <2> QED
    BY <1>2, <1>7, <2>2, <2>3
<1>9. CASE Is(h, "set", "sound")
  <2>1. PICK m : m = [call |-> "saved", field |-> "sound", values |-> <<>>]
    OBVIOUS
  <2>2. toWindow' = Append(toWindow, m) /\ file' = Over(h.values)
    BY <1>1, <1>9, <2>1 DEF StoreHandler, Is
  <2>3. m \in WindowCalls /\ Answers(m) /\ m.call # "load"
    BY <2>1 DEF WindowCalls, Answers
  <2>4. h.values \in [sound : {"current"}] /\ Has(toMain, "set", "sound")
    BY <1>3, <1>9, MainCallIs DEF Has, Is
  <2>5. file' \in SettingsFiles /\ file'.intro = file.intro /\ file'.cloud = file.cloud /\ file'.enabled = file.enabled
    BY <1>2, <2>2, <2>4, Overwritten
  <2> QED
    BY <1>7, <2>2, <2>3, <2>4, <2>5
<1> QED
  BY <1>3, <1>8, <1>9 DEF Demands

\* A call of a window that shows its settings.
LEMMA ServesHydrated ==
    ASSUME PreferencesInv, StoreHandler, Hydrated
    PROVE  PreferencesInv'
<1>1. PICK h : h = Head(toMain)
  OBVIOUS
<1>2. /\ toMain # <<>> /\ toMain \in Seq(MainCalls) /\ toWindow \in Seq(WindowCalls) /\ file \in SettingsFiles
      /\ toMain' = Tail(toMain) /\ UNCHANGED <<window, copy, awaited, surface, elapsed, resetVars, introVars, wrong>>
      /\ copy.intro \in BOOLEAN /\ window = "hydrated" /\ window' = "hydrated"
  BY DEF StoreHandler, windowVars, boundVars, PreferencesInv, PreferencesTypeOK, Settings, Hydrated
<1>3. /\ h \in MainCalls /\ 1 \in DOMAIN toMain /\ toMain[1] = h /\ toMain' \in Seq(MainCalls) /\ ~ Demands(h)
      /\ \A i \in DOMAIN toMain : ~ Demands(toMain[i])
      /\ \A i \in DOMAIN toWindow : ~ Answers(toWindow[i])
  BY <1>1, <1>2, CallServed DEF PreferencesInv, Reading
<1>4. /\ \A i \in DOMAIN toMain' : i \in Int /\ i + 1 \in DOMAIN toMain /\ toMain'[i] = toMain[i + 1]
      /\ \A i \in DOMAIN toMain : i \in Int /\ i > 0
      /\ \A i \in DOMAIN toMain : i = 1 \/ (i - 1 \in DOMAIN toMain' /\ toMain'[i - 1] = toMain[i])
  BY <1>2, CallsLeft
<1>5. \A c, f : /\ Has(toMain, c, f) <=> Is(h, c, f) \/ Has(toMain', c, f)
                /\ \A w : Newest(toMain, c, f, w) =>
                      /\ Newest(toMain', c, f, w)
                      /\ Is(h, c, f) /\ ~ Has(toMain', c, f) => h.values = w
  BY <1>1, <1>2, CallServed
<1>6. \/ h.call = "set" /\ h.field = "intro" /\ h.values \in [intro : {TRUE}]
      \/ h.call = "set" /\ h.field = "cloud" /\ h.values \in [cloud : BOOLEAN]
      \/ h.call = "set" /\ h.field = "security" /\ h.values \in Locks
      \/ h.call = "get" /\ h.field = "security" /\ h \in WindowCalls /\ ~ Answers(h)
  BY <1>3, MainCallIs
<1>7. /\ h.call = "get" => file' = file /\ toWindow' = Append(toWindow, h)
      /\ h.call = "set" => file' = Over(h.values) /\ toWindow' = toWindow
  BY <1>1, <1>6 DEF StoreHandler
<1>8. /\ file' \in SettingsFiles
      /\ ~ Is(h, "set", "security") => Only(Security, file') = Only(Security, file)
      /\ Is(h, "set", "security") => Only(Security, file') = h.values
      /\ ~ Is(h, "set", "intro") => file'.intro = file.intro
      /\ Is(h, "set", "intro") => file'.intro = h.values.intro
      /\ ~ Is(h, "set", "cloud") => file'.cloud = file.cloud
      /\ Is(h, "set", "cloud") => file'.cloud = h.values.cloud
  BY <1>2, <1>6, <1>7, Overwritten DEF Is
<1>9. /\ toWindow' \in Seq(WindowCalls)
      /\ Told' <=> Told
      /\ Has(toWindow', "get", "security") <=> Has(toWindow, "get", "security") \/ Is(h, "get", "security")
      /\ \A w : /\ ~ Is(h, "get", "security") =>
                       (Newest(toWindow', "get", "security", w) <=> Newest(toWindow, "get", "security", w))
                /\ Is(h, "get", "security") => (Newest(toWindow', "get", "security", w) <=> h.values = w)
  <2>1. CASE h.call = "set"
    BY <1>2, <1>7, <2>1 DEF Told, Is, Has, Newest
  <2>2. CASE h.call = "get"
    <3>1. h \in WindowCalls /\ Is(h, "get", "security") /\ ~ Is(h, "reset", "security") /\ toWindow' = Append(toWindow, h)
      BY <1>6, <1>7, <2>2 DEF Is
    <3> QED
      BY <1>2, <3>1, CallAppended DEF Told
  <2> QED
    BY <1>6, <2>1, <2>2
<1>10. \A i \in DOMAIN toWindow' : ~ Answers(toWindow'[i])
  <2>1. CASE h.call = "set"
    BY <1>3, <1>7, <2>1
  <2>2. CASE h.call = "get"
    <3>1. Put(toWindow, TRUE, h) = Append(toWindow, h) /\ TRUE \in BOOLEAN
      BY DEF Put
    <3>2. h \in WindowCalls /\ ~ Answers(h) /\ toWindow' = Append(toWindow, h)
      BY <1>6, <1>7, <2>2
    <3>3. \A i \in DOMAIN toWindow' : \/ i \in DOMAIN toWindow /\ toWindow'[i] = toWindow[i]
                                      \/ toWindow'[i] = h
      BY <1>2, <3>1, <3>2, PutAfter
    <3> QED
      BY <1>3, <3>2, <3>3
  <2> QED
    BY <1>6, <2>1, <2>2
<1>11. PreferencesTypeOK' /\ Hydrated'
  BY <1>2, <1>3, <1>8, <1>9 DEF PreferencesInv, PreferencesTypeOK, Hydrated, resetVars, introVars
<1>12. Reading'
  BY <1>2, <1>3, <1>4, <1>10 DEF Reading
<1>13. LockKept'
  <2>1. LockKept
    BY DEF PreferencesInv
  <2>2. Newest(toMain', "get", "security", Only(Security, copy))
    BY <1>5, <2>1 DEF LockKept
  <2>3. ~ Has(toMain', "get", "security") => Newest(toWindow', "get", "security", Only(Security, copy))
    BY <1>5, <1>9, <2>1 DEF LockKept
  <2>4. ASSUME ~ Has(toMain', "get", "security"), ~ Has(toWindow', "get", "security")
        PROVE  /\ Newest(toMain', "set", "security", Only(Security, copy))
               /\ ~ Has(toMain', "set", "security") =>
                    \/ Only(Security, file') = Only(Security, copy)
                    \/ Told' /\ Only(Security, file') = Only(Security, ResetValues(copy))
    <3>1. ~ Has(toMain, "get", "security") /\ ~ Has(toWindow, "get", "security") /\ ~ Is(h, "get", "security")
      BY <1>5, <1>9, <2>4
    <3>2. /\ Newest(toMain, "set", "security", Only(Security, copy))
          /\ ~ Has(toMain, "set", "security") =>
                \/ Only(Security, file) = Only(Security, copy)
                \/ Told /\ Only(Security, file) = Only(Security, ResetValues(copy))
      BY <2>1, <3>1 DEF LockKept, Told
    <3> QED
      BY <1>5, <1>8, <1>9, <3>2
  <2> QED
    BY <1>2, <2>2, <2>3, <2>4 DEF LockKept, Told
<1>14. IntroKept'
  <2>1. IntroKept
    BY DEF PreferencesInv
  <2>2. ASSUME ~ Has(toMain', "set", "intro") PROVE file'.intro = copy.intro
    <3>1. CASE Is(h, "set", "intro")
      <4>1. h.values = Only({"intro"}, copy)
        BY <1>5, <2>1, <2>2, <3>1 DEF IntroKept
      <4> QED
        BY <1>8, <3>1, <4>1 DEF Only
    <3>2. CASE ~ Is(h, "set", "intro")
      BY <1>5, <1>8, <2>1, <2>2, <3>2 DEF IntroKept
    <3> QED
      BY <3>1, <3>2
  <2> QED
    BY <1>2, <1>5, <2>1, <2>2 DEF IntroKept
<1>15. CloudKept'
  <2>1. CloudKept
    BY DEF PreferencesInv
  <2>2. ASSUME ~ Has(toMain', "set", "cloud") PROVE file'.cloud = copy.cloud
    <3>1. CASE Is(h, "set", "cloud")
      <4>1. h.values = Only({"cloud"}, copy)
        BY <1>5, <2>1, <2>2, <3>1 DEF CloudKept
      <4> QED
        BY <1>8, <3>1, <4>1 DEF Only
    <3>2. CASE ~ Is(h, "set", "cloud")
      BY <1>5, <1>8, <2>1, <2>2, <3>2 DEF CloudKept
    <3> QED
      BY <3>1, <3>2
  <2>3. Newest(toMain', "set", "cloud", Only({"cloud"}, copy))
    BY <1>5, <2>1 DEF CloudKept
  <2>4. ~ copy.intro => \A i \in DOMAIN toMain' : Is(toMain'[i], "set", "cloud") => toMain'[i].values.cloud
    BY <1>4, <2>1 DEF CloudKept
  <2> QED
    BY <1>2, <2>2, <2>3, <2>4 DEF CloudKept
<1>16. ResetKept'
  <2>1. ~ Has(toMain', "set", "sound") /\ ~ Has(toWindow', "saved", "sound")
    BY <1>3, <1>4, <1>10 DEF Has, Demands, Answers, Is
  <2> QED
    BY <1>2, <1>9, <1>10, <1>11, <2>1 DEF PreferencesInv, ResetKept, Answers, resetVars
<1>17. PromiseKept'
  <2> SUFFICES ASSUME Promised' PROVE PromiseKept'
    BY DEF PromiseKept
  <2>1. /\ file.intro => file.cloud
        /\ Hydrated /\ (copy.intro \/ surface = "closing") => copy.cloud
        /\ \A i \in DOMAIN toMain : Is(toMain[i], "set", "cloud") => toMain[i].values.cloud
        /\ \A i \in DOMAIN toMain : Is(toMain[i], "set", "intro") =>
              file.cloud \/ \E j \in DOMAIN toMain : j < i /\ Is(toMain[j], "set", "cloud")
    BY <1>2 DEF PreferencesInv, PromiseKept, Promised, introVars
  <2>2. Is(h, "set", "cloud") => file'.cloud
    BY <1>3, <1>8, <2>1
  <2>3. Is(h, "set", "intro") => file.cloud /\ ~ Is(h, "set", "cloud")
    BY <1>3, <1>4, <2>1 DEF Is
  <2>4. file'.intro => file'.cloud
    BY <1>8, <2>1, <2>2, <2>3
  <2>5. \A i \in DOMAIN toMain' : Is(toMain'[i], "set", "cloud") => toMain'[i].values.cloud
    BY <1>4, <2>1
  <2>6. ASSUME NEW i \in DOMAIN toMain', Is(toMain'[i], "set", "intro")
        PROVE  file'.cloud \/ \E j \in DOMAIN toMain' : j < i /\ Is(toMain'[j], "set", "cloud")
    <3>1. i \in Int /\ i + 1 \in DOMAIN toMain /\ Is(toMain[i + 1], "set", "intro")
      BY <1>4, <2>6
    <3>2. CASE Is(h, "set", "cloud")
      BY <2>2, <3>2
    <3>3. CASE ~ Is(h, "set", "cloud")
      <4>1. CASE file.cloud
        BY <1>8, <3>3, <4>1
      <4>2. CASE ~ file.cloud
        <5>1. PICK j \in DOMAIN toMain : j < i + 1 /\ Is(toMain[j], "set", "cloud")
          BY <2>1, <3>1, <4>2
        <5>2. j \in Int /\ j # 1 /\ j - 1 \in DOMAIN toMain' /\ toMain'[j - 1] = toMain[j]
          BY <1>3, <1>4, <3>3, <5>1
        <5>3. j - 1 < i
          BY <3>1, <5>1, <5>2
        <5> QED
          BY <5>1, <5>2, <5>3
      <4> QED
        BY <4>1, <4>2
    <3> QED
      BY <3>2, <3>3
  <2> QED
    BY <1>2, <1>11, <2>1, <2>4, <2>5, <2>6 DEF PromiseKept, Hydrated
<1> QED
  BY <1>11, <1>12, <1>13, <1>14, <1>15, <1>16, <1>17 DEF PreferencesInv

LEMMA SetSecurityKeeps ==
    ASSUME PreferencesInv, SetSecuritySettings
    PROVE  PreferencesInv'
<1>1. PICK h : h = Head(toWindow)
  OBVIOUS
<1>2. PICK m : m = [h EXCEPT !.call = "set"]
  OBVIOUS
<1>3. /\ toWindow # <<>> /\ h.call = "get" /\ toMain' = Append(toMain, m) /\ toWindow' = Tail(toWindow)
      /\ toWindow \in Seq(WindowCalls) /\ toMain \in Seq(MainCalls)
      /\ UNCHANGED <<file, window, copy, awaited, surface, elapsed, resetVars, introVars, wrong>>
  BY <1>1, <1>2 DEF SetSecuritySettings, windowVars, boundVars, PreferencesInv, PreferencesTypeOK
<1>4. h \in WindowCalls /\ 1 \in DOMAIN toWindow /\ toWindow[1] = h /\ toWindow' \in Seq(WindowCalls)
  BY <1>1, <1>3, CallServed
<1>5. /\ m \in MainCalls /\ Is(m, "set", "security") /\ m.values = h.values /\ ~ Demands(m)
      /\ Is(h, "get", "security") /\ ~ Is(h, "reset", "security") /\ ~ Is(h, "saved", "sound")
  BY <1>2, <1>3, <1>4, WindowCallIs DEF Is
<1>6. ~ Is(m, "get", "security") /\ ~ Is(m, "set", "intro") /\ ~ Is(m, "set", "cloud") /\ ~ Is(m, "set", "sound")
  BY <1>5 DEF Is
<1>7. Hydrated
  BY <1>3, <1>4 DEF PreferencesInv, PreferencesTypeOK, Reading, Hydrated
<1>8. /\ Told' <=> Told
      /\ Has(toWindow', "get", "security") => Has(toWindow, "get", "security")
      /\ Has(toWindow, "get", "security")
      /\ \A w : Newest(toWindow, "get", "security", w) =>
             /\ Newest(toWindow', "get", "security", w)
             /\ ~ Has(toWindow', "get", "security") => h.values = w
  BY <1>1, <1>3, <1>5, CallServed DEF Told
<1>9. /\ toMain' \in Seq(MainCalls)
      /\ Has(toMain', "set", "security")
      /\ Has(toMain', "get", "security") <=> Has(toMain, "get", "security")
      /\ Has(toMain', "set", "intro") <=> Has(toMain, "set", "intro")
      /\ Has(toMain', "set", "cloud") <=> Has(toMain, "set", "cloud")
      /\ \A w : /\ Newest(toMain', "set", "security", w) <=> m.values = w
                /\ Newest(toMain', "get", "security", w) <=> Newest(toMain, "get", "security", w)
                /\ Newest(toMain', "set", "intro", w) <=> Newest(toMain, "set", "intro", w)
                /\ Newest(toMain', "set", "cloud", w) <=> Newest(toMain, "set", "cloud", w)
  BY <1>3, <1>5, <1>6, CallAppended
<1>10. /\ \A i \in DOMAIN toMain : i \in DOMAIN toMain' /\ toMain'[i] = toMain[i]
       /\ \A i \in DOMAIN toMain' : \/ i \in DOMAIN toMain /\ toMain'[i] = toMain[i]
                                    \/ toMain'[i] = m
  <2>1. Put(toMain, TRUE, m) = toMain' /\ TRUE \in BOOLEAN
    BY <1>3 DEF Put
  <2>2. /\ \A k \in DOMAIN toMain : k \in DOMAIN toMain' /\ toMain'[k] = toMain[k]
        /\ \A k \in DOMAIN toMain' :
              \/ k \in DOMAIN toMain
              \/ (\A j \in DOMAIN toMain : j < k) /\ toMain'[k] = m /\ TRUE
    BY <1>3, <1>5, <2>1, PutAfter
  <2> QED
    BY <2>2
<1>11. \A i \in DOMAIN toWindow' : i \in Int /\ i + 1 \in DOMAIN toWindow /\ toWindow'[i] = toWindow[i + 1]
  BY <1>3, CallsLeft
<1>12. PreferencesTypeOK' /\ Hydrated'
  BY <1>3, <1>4, <1>7, <1>9 DEF PreferencesInv, PreferencesTypeOK, Hydrated, resetVars, introVars
<1>13. /\ \A i \in DOMAIN toMain' : ~ Demands(toMain'[i])
       /\ \A i \in DOMAIN toWindow' : ~ Answers(toWindow'[i])
  BY <1>5, <1>7, <1>10, <1>11 DEF PreferencesInv, Reading, Hydrated
<1>14. Reading'
  BY <1>3, <1>7, <1>13 DEF Reading, Hydrated
<1>15. LockKept'
  <2>1. LockKept
    BY <1>7 DEF PreferencesInv
  <2>2. Newest(toMain', "get", "security", Only(Security, copy))
    BY <1>9, <2>1 DEF LockKept
  <2>3. ~ Has(toMain', "get", "security") =>
            /\ Newest(toWindow', "get", "security", Only(Security, copy))
            /\ ~ Has(toWindow', "get", "security") => Newest(toMain', "set", "security", Only(Security, copy))
    BY <1>5, <1>8, <1>9, <2>1 DEF LockKept
  <2> QED
    BY <1>3, <1>9, <2>2, <2>3 DEF LockKept
<1>16. IntroKept'
  BY <1>3, <1>7, <1>9 DEF PreferencesInv, IntroKept
<1>17. CloudKept'
  BY <1>3, <1>6, <1>7, <1>9, <1>10 DEF PreferencesInv, CloudKept
<1>18. ResetKept'
  <2>1. ~ Has(toMain', "set", "sound") /\ ~ Has(toWindow', "saved", "sound")
    BY <1>13 DEF Has, Demands, Answers, Is
  <2> QED
    BY <1>3, <1>7, <1>8, <1>12, <1>13, <2>1 DEF PreferencesInv, ResetKept, Answers, resetVars
<1>19. PromiseKept'
  <2> SUFFICES ASSUME Promised' PROVE PromiseKept'
    BY DEF PromiseKept
  <2>1. PromiseKept /\ Promised
    BY <1>3 DEF PreferencesInv, Promised, introVars
  <2> QED
    BY <1>3, <1>6, <1>7, <1>10, <1>12, <2>1 DEF PromiseKept
<1> QED
  BY <1>12, <1>14, <1>15, <1>16, <1>17, <1>18, <1>19 DEF PreferencesInv

LEMMA PreferencesStep ==
    ASSUME PreferencesInv, [PreferencesNext]_preferencesVars
    PROVE  PreferencesInv'
<1>1. window = "loading" \/ Hydrated \/ toMain = <<>>
  BY DEF PreferencesInv, PreferencesTypeOK, Reading, Hydrated
<1>2. CASE StoreHandler
  <2>1. toMain # <<>>
    BY <1>2 DEF StoreHandler
  <2> QED
    BY <1>1, <1>2, <2>1, ServesLoading, ServesHydrated
<1>3. CASE SetSecuritySettings
  BY <1>3, SetSecurityKeeps
<1>4. CASE Launch \/ LoadInitialSettings
  BY <1>4, LaunchesKeep
<1>5. CASE SettingsRead \/ SoundSaved
  BY <1>5, ReadingsKeep
<1>6. CASE Quit
  BY <1>6, QuitKeeps
<1>7. CASE \/ RequestOpenSettings \/ ClosePinPrompt \/ CloseSettings \/ LockoutEnds
           \/ UNCHANGED preferencesVars
  BY <1>7, ScreenActionsKeep
<1>8. CASE VerifyPin \/ RecordFailedPinAttempt \/ VerifyRecoveryKey \/ SwitchLock \/ HandlePinInputChange \/ HandleRegenerateKey
  BY <1>8, LockActionsKeep
<1>9. CASE ResetPin
  BY <1>9, ResetPinKeeps
<1>10. CASE OnPinReset
  BY <1>10, OnPinResetKeeps
<1>11. CASE HandleFinish \/ SetHasSeenIntro \/ OfferCloudSetup
  BY <1>11, IntroActionsKeep
<1> QED
  BY <1>2, <1>3, <1>4, <1>5, <1>6, <1>7, <1>8, <1>9, <1>10, <1>11 DEF PreferencesNext

\* The newest write on its way is what the window shows, whatever is chosen,
\* wrongly entered or reset meanwhile, and wherever a launch ends.
THEOREM PreferencesInvAlways == PreferencesSpec => []PreferencesInv
<1>1. PreferencesInit => PreferencesInv
  BY PreferencesInitially
<1>2. PreferencesInv /\ [PreferencesNext]_preferencesVars => PreferencesInv'
  BY PreferencesStep
<1> QED
  BY <1>1, <1>2, PTL DEF PreferencesSpec

LEMMA NothingOnItsWay == PreferencesInv => FileAsShown
<1> SUFFICES ASSUME PreferencesInv, Settled, NEW f \in Security \cup {"intro", "cloud"}
             PROVE  file[f] = copy[f]
  BY DEF FileAsShown
<1>1. Hydrated /\ LockKept /\ IntroKept /\ CloudKept
  BY DEF Settled, PreferencesInv
<1>2. \A c, g : ~ Has(toMain, c, g) /\ ~ Has(toWindow, c, g)
  BY DEF Settled, Has
<1>3. Only(Security, file) = Only(Security, copy)
  BY <1>1, <1>2 DEF LockKept
<1>4. \A g \in Security : file[g] = copy[g]
  BY <1>3 DEF Only
<1>5. file.intro = copy.intro /\ file.cloud = copy.cloud
  BY <1>1, <1>2 DEF IntroKept, CloudKept
<1> QED
  BY <1>4, <1>5

\* A window at rest shows what the file holds, so the next launch shows it too:
\* setSecuritySettings reads before it writes, and the order of the two channels
\* lets no older write come last.
THEOREM FileHoldsWhatIsShown == PreferencesSpec => []FileAsShown
<1>1. PreferencesInv => FileAsShown
  BY NothingOnItsWay
<1> QED
  BY <1>1, PreferencesInvAlways, PTL

\* A PIN that Facenox Cloud has reset stays off until it is turned on again: the
\* main process writes the file, and what the window had under way is written
\* over by what it writes once it has heard of the reset.
THEOREM ResetIsKept == PreferencesSpec => []ResetHolds
<1>1. PreferencesInv => ResetHolds
  <2> SUFFICES ASSUME PreferencesInv, Settled, resetStands, ~ resetMissed
               PROVE  ~ file.enabled /\ ~ copy.enabled
    BY DEF ResetHolds
  <2>1. ~ Told
    BY DEF Settled, Told, Has
  <2>2. ~ copy.enabled
    BY <2>1 DEF PreferencesInv, ResetKept, Settled
  <2>3. FileAsShown
    BY NothingOnItsWay
  <2> QED
    BY <2>2, <2>3 DEF FileAsShown, Security
<1> QED
  BY <1>1, PreferencesInvAlways, PTL

\* The choice for the cloud survives a first launch that ends anywhere: once the
\* file says that the intro was seen, it says too that the cloud waits, or the
\* page was opened.
THEOREM CloudChoiceIsKept == PreferencesSpec => []ChoiceKept
<1>1. PreferencesInv => ChoiceKept
  BY DEF PreferencesInv, PromiseKept, Promised, ChoiceKept
<1> QED
  BY <1>1, PreferencesInvAlways, PTL

(***************************************************************************)
(* AttendancePanel: the list the panel shows and the overview of its group.*)
(***************************************************************************)
Records == [id : Nat, of : PanelGroups, voided : BOOLEAN]
PanelRequests == [of : Selections, by : SUBSET Nat, answer : SUBSET (SUBSET Records)]
Additions == [n : Nat, of : PanelGroups, at : {"sent", "stored", "refresh"}, record : Nat]
Voidings == [at : {"closed", "open", "sent", "stored", "refresh", "overview"}, record : Nat]
Snapshots == [list : SUBSET Records, knows : Int]

ListTyped ==
    /\ records \subseteq Records /\ IsFiniteSet(records)
    /\ listed \in Selections
    /\ recent \subseteq Records
    /\ panel \in {"ready", "switching", "loading"}
    /\ kept \in [Selections -> SUBSET (SUBSET Records)]
    /\ \A q \in refreshing : q.by \subseteq Nat
    /\ panelLoad \subseteq PanelRequests

DialogsTyped ==
    /\ DOMAIN entry = {"open", "confirming", "busy"} /\ entry.confirming \in Selections
    /\ adds \subseteq Additions
    /\ correction \in Voidings

OverviewTyped ==
    /\ overview \in [PanelGroups -> Snapshots]
    /\ \A f \in overviewAsked : f.of \in PanelGroups /\ f.early \in Snapshots
    /\ newest \in [PanelGroups -> Int]

EventsTyped == events \in Seq(PanelGroups)

AttendanceTypeOK == ListTyped /\ DialogsTyped /\ OverviewTyped /\ EventsTyped

\* Entries are numbered as they come, and whatever names one names one there is.
Numbered ==
    /\ \A r \in records : r.id <= Cardinality(records)
    /\ \A r, q \in records : r.id = q.id => r = q
    /\ \A r \in records : r.id # 0

Exists(id) == \E r \in records : r.id = id
NamesExist ==
    /\ \A r \in recent : Exists(r.id)
    /\ \A s \in Selections : \A list \in kept[s] : \A r \in list : Exists(r.id)
    /\ \A l \in panelLoad : \A list \in l.answer : \A r \in list : Exists(r.id)
    /\ \A t \in adds : t.at = "stored" => Exists(t.record)
    /\ correction.at # "closed" => Exists(correction.record)

\* One load at most, and it is for the selection.
ForTheSelection ==
    /\ \A q \in refreshing \cup panelLoad : q.of = listed
    /\ \A l, k \in panelLoad : l = k
    /\ panel # "ready" => panelLoad # {}

\* A void is done when the overview it asked for is answered.
OwnOverview ==
    /\ \A f \in overviewAsked : f.own => correction.at = "overview"
    /\ \A f, h \in overviewAsked : f.own /\ h.own => f = h

\* The list will be asked for, or somebody is still to be told to ask for it.
ListOwed ==
    \/ refreshing # {}
    \/ \E l \in panelLoad : l.answer = {}
    \/ \E t \in adds : t.at = "stored"
    \/ correction.at = "stored"
    \/ \E i \in DOMAIN events : Concerns(events[i])

Excused == panelError \/ listOutdated

ListKept ==
    \/ Excused \/ ListOwed
    \/ IF panelLoad = {} THEN recent = GetRecords(listed) ELSE \A l \in panelLoad : l.answer = {GetRecords(listed)}

\* Let last[g] be how many changes there were when group g last changed.  Who
\* knows as many has its list, and the overview of the group that is shown has
\* been asked that often, or will be.
SnapshotsHold(last) ==
    /\ \A g \in PanelGroups : last[g] <= Changes
    /\ \A g \in PanelGroups : /\ overview[g].knows <= Changes
                              /\ overview[g].knows >= last[g] => overview[g].list = GetRecords(g)
    /\ \A f \in overviewAsked : /\ f.early.knows <= Changes
                                /\ f.early.knows >= last[f.of] => f.early.list = GetRecords(f.of)

ListWaits == Excused \/ ListOwed \/ panelLoad # {}

OverviewInTime(last) ==
    listed \in PanelGroups =>
        \/ ListWaits
        \/ \E f \in overviewAsked : f.of = listed /\ f.early.knows >= last[listed]
        \/ newest[listed] >= last[listed]

OverviewKept == \E last \in [PanelGroups -> Nat] : SnapshotsHold(last) /\ OverviewInTime(last)

AttendanceInv ==
    /\ AttendanceTypeOK /\ Numbered /\ NamesExist /\ ForTheSelection /\ OwnOverview
    /\ ListKept /\ OverviewKept

VoidsOf(R) == {r \in R : r.voided}

LEMMA VoidsCounted == \A R : IsFiniteSet(R) => IsFiniteSet(VoidsOf(R)) /\ Cardinality(R) \in Nat
                                               /\ Cardinality(VoidsOf(R)) \in Nat
<1> SUFFICES ASSUME NEW R, IsFiniteSet(R)
             PROVE  IsFiniteSet(VoidsOf(R)) /\ Cardinality(R) \in Nat /\ Cardinality(VoidsOf(R)) \in Nat
  OBVIOUS
<1>1. VoidsOf(R) \subseteq R
  BY DEF VoidsOf
<1>2. IsFiniteSet(VoidsOf(R))
  BY <1>1, FS_Subset
<1> QED
  BY <1>2, FS_CardinalityType

LEMMA ChangesAre ==
    /\ Changes = Cardinality(records) + Cardinality(VoidsOf(records))
    /\ Changes' = Cardinality(records') + Cardinality(VoidsOf(records'))
BY DEF Changes, VoidsOf

LEMMA ChangesCounted == ASSUME AttendanceTypeOK PROVE Changes \in Nat
BY VoidsCounted, ChangesAre DEF AttendanceTypeOK, ListTyped, DialogsTyped

\* What the backend answers, and what it is asked about, while no entry changes.
LEMMA RecordsStay ==
    ASSUME UNCHANGED records
    PROVE  /\ Changes' = Changes
           /\ \A s : GetRecords(s)' = GetRecords(s)
           /\ \A id : Exists(id)' = Exists(id)
BY DEF Changes, GetRecords, Exists

\* An entry is added.
LEMMA RecordAdded ==
    ASSUME AttendanceTypeOK, Numbered, NEW m \in PanelGroups, records' = records \cup {NewRecord(m)}
    PROVE  /\ records' \subseteq Records /\ IsFiniteSet(records') /\ Numbered'
           /\ Changes' \in Nat /\ Changes < Changes'
           /\ NewRecord(m).id \in Nat
           /\ \A id : Exists(id) \/ id = NewRecord(m).id => Exists(id)'
           /\ \A s : ~InSelection(m, s) => GetRecords(s)' = GetRecords(s)
<1> DEFINE new == NewRecord(m)
           id == Cardinality(records) + 1
<1>1. IsFiniteSet(records) /\ Cardinality(records) \in Nat /\ Changes \in Nat
      /\ Cardinality(VoidsOf(records)) \in Nat
  BY VoidsCounted, ChangesCounted DEF AttendanceTypeOK, ListTyped, DialogsTyped
<1>2. new.id = id /\ new.of = m /\ ~new.voided
  BY DEF NewRecord
<1>3. new \in Records
  BY <1>1 DEF NewRecord, Records
<1>4. \A r \in records : r.id # id /\ r.id \in Nat
  BY <1>1 DEF Numbered, AttendanceTypeOK, ListTyped, DialogsTyped, Records
<1>5. new \notin records
  BY <1>2, <1>4
<1>6. IsFiniteSet(records') /\ Cardinality(records') = Cardinality(records) + 1
  BY <1>1, <1>5, FS_AddElement
<1>7. VoidsOf(records') = VoidsOf(records)
  BY <1>2 DEF VoidsOf
<1>8. Changes' = Changes + 1
  BY <1>1, <1>6, <1>7, ChangesAre
<1>9. Numbered'
  <2> HIDE DEF new
  <2>1. records' = records \cup {new}
    BY DEF new
  <2>2. \A r \in records' : r.id <= Cardinality(records')
    BY <1>1, <1>2, <1>4, <1>6, <2>1 DEF Numbered
  <2>3. \A r, q \in records' : r.id = q.id => r = q
    BY <1>2, <1>4, <2>1 DEF Numbered
  <2>4. \A r \in records' : r.id # 0
    BY <1>1, <1>2, <2>1 DEF Numbered
  <2> QED
    BY <2>2, <2>3, <2>4 DEF Numbered
<1>10. \A s : ~InSelection(m, s) => GetRecords(s)' = GetRecords(s)
  BY <1>2 DEF GetRecords
<1>11. \A i : Exists(i) \/ i = NewRecord(m).id => Exists(i)'
  BY DEF Exists
<1>13. records' \subseteq Records
  BY <1>3 DEF AttendanceTypeOK, ListTyped, DialogsTyped
<1> QED
  BY <1>1, <1>2, <1>6, <1>8, <1>9, <1>10, <1>11, <1>13

\* An entry is voided.
LEMMA RecordVoided ==
    ASSUME AttendanceTypeOK, Numbered, NamesExist, ServeVoid
    PROVE  /\ records' \subseteq Records /\ IsFiniteSet(records') /\ Numbered'
           /\ Changes' \in Nat /\ Changes < Changes'
           /\ \A id : Exists(id) => Exists(id)'
<1>1. PICK old : old = Voided
  OBVIOUS
<1>2. PICK new : new = [Voided EXCEPT !.voided = TRUE]
  OBVIOUS
<1>3. old \in records
  BY <1>1 DEF Voided, NamesExist, Exists, ServeVoid
<1>4. records' = (records \ {old}) \cup {new} /\ ~old.voided
  BY <1>1, <1>2 DEF ServeVoid
<1>5. old \in Records
  BY <1>3 DEF AttendanceTypeOK, ListTyped, DialogsTyped
<1>6. new \in Records /\ new.id = old.id /\ new.of = old.of /\ new.voided
  BY <1>1, <1>2, <1>5 DEF Records
<1>7. \A r \in records \ {old} : r.id # new.id
  BY <1>3, <1>6 DEF Numbered
<1>8. new \notin records
  BY <1>3, <1>4, <1>6 DEF Numbered
<1>9. IsFiniteSet(records) /\ Cardinality(records) \in Nat
  BY VoidsCounted DEF AttendanceTypeOK, ListTyped, DialogsTyped
<1>10. IsFiniteSet(records \ {old}) /\ Cardinality(records \ {old}) = Cardinality(records) - 1
  BY <1>3, <1>9, FS_RemoveElement
<1>11. IsFiniteSet(records') /\ Cardinality(records') = Cardinality(records)
  <2>1. new \notin records \ {old}
    BY <1>8
  <2>2. Cardinality((records \ {old}) \cup {new}) = Cardinality(records \ {old}) + 1 /\ IsFiniteSet((records \ {old}) \cup {new})
    BY <1>10, <2>1, FS_AddElement
  <2> QED
    BY <1>4, <1>9, <1>10, <2>2
<1>12. VoidsOf(records') = VoidsOf(records) \cup {new}
  BY <1>4, <1>6 DEF VoidsOf
<1>13. Cardinality(VoidsOf(records')) = Cardinality(VoidsOf(records)) + 1
  <2>1. IsFiniteSet(VoidsOf(records)) /\ new \notin VoidsOf(records)
    BY <1>8, <1>9, VoidsCounted DEF VoidsOf
  <2> QED
    BY <1>12, <2>1, FS_AddElement
<1>14. Changes \in Nat /\ Changes' = Changes + 1
  <2>1. Cardinality(VoidsOf(records)) \in Nat
    BY <1>9, VoidsCounted
  <2> QED
    BY <1>9, <1>11, <1>13, <2>1, ChangesAre
<1>15. Numbered'
  <2>1. \A r \in records' : r.id <= Cardinality(records')
    BY <1>3, <1>4, <1>6, <1>11 DEF Numbered
  <2>2. \A r, q \in records' : r.id = q.id => r = q
    BY <1>4, <1>7 DEF Numbered
  <2>3. \A r \in records' : r.id # 0
    BY <1>3, <1>4, <1>6 DEF Numbered
  <2> QED
    BY <2>1, <2>2, <2>3 DEF Numbered
<1>16. \A id : Exists(id) => Exists(id)'
  BY <1>4, <1>6 DEF Exists
<1>17. records' \subseteq Records
  BY <1>4, <1>6 DEF AttendanceTypeOK, ListTyped, DialogsTyped
<1> QED
  BY <1>11, <1>14, <1>15, <1>16, <1>17

LEMMA OverviewAsked ==
    ASSUME NEW group, NEW own, FetchOverviewData(group, own)
    PROVE  \E f : /\ overviewAsked' = overviewAsked \cup {f}
                  /\ f.of = group /\ f.own = own /\ f.early = Overview(group)
<1>1. PICK n : n = CHOOSE k \in 1 .. Cardinality(overviewAsked) + 1 : \A f \in overviewAsked : f.n # k
  OBVIOUS
<1>2. PICK f : f = [n |-> n, of |-> group, own |-> own, early |-> Overview(group)]
  OBVIOUS
<1>3. overviewAsked' = overviewAsked \cup {f}
  BY <1>1, <1>2, Zenon DEF FetchOverviewData
<1>4. f.of = group /\ f.own = own /\ f.early = Overview(group)
  BY <1>2, Zenon
<1> QED
  BY <1>3, <1>4

LEMMA LoadServed ==
    ASSUME AttendanceTypeOK, NEW l \in panelLoad
    PROVE  \E new \in PanelRequests : /\ new = [l EXCEPT !.answer = {GetRecords(l.of)}]
                                      /\ new.of = l.of /\ new.answer = {GetRecords(l.of)}
<1>1. GetRecords(l.of) \in SUBSET Records
  BY DEF GetRecords, AttendanceTypeOK, ListTyped, DialogsTyped
<1>2. l \in PanelRequests
  BY DEF AttendanceTypeOK, ListTyped, DialogsTyped
<1>3. \A a \in SUBSET (SUBSET Records) :
        [l EXCEPT !.answer = a] \in PanelRequests /\ [l EXCEPT !.answer = a].of = l.of /\ [l EXCEPT !.answer = a].answer = a
  BY <1>2 DEF PanelRequests
<1> QED
  BY <1>1, <1>3

LEMMA AddMoves ==
    ASSUME AttendanceTypeOK, NEW t \in adds
    PROVE  /\ t \in Additions /\ t.of \in PanelGroups
           /\ \A id \in Nat : \A at \in {"sent", "stored", "refresh"} :
                /\ [t EXCEPT !.at = at, !.record = id] \in Additions
                /\ [t EXCEPT !.at = at, !.record = id].at = at /\ [t EXCEPT !.at = at, !.record = id].record = id
                /\ [t EXCEPT !.at = at] \in Additions /\ [t EXCEPT !.at = at].at = at
BY DEF AttendanceTypeOK, ListTyped, DialogsTyped, Additions

\* The service stores an entry made by hand.
LEMMA AddServed ==
    ASSUME AttendanceTypeOK, Numbered, NEW t \in adds, ServeAdd(t)
    PROVE  \E u \in Additions : /\ adds' = (adds \ {t}) \cup {u} /\ u.at = "stored"
                                /\ \A id : Exists(id) \/ id = u.record => Exists(id)'
<1>1. PICK m \in PanelGroups : m = t.of
  BY AddMoves
<1>2. records' = records \cup {NewRecord(m)}
  BY <1>1 DEF ServeAdd
<1>3. PICK id \in Nat : id = NewRecord(m).id
  BY <1>2, RecordAdded
<1>4. \A i : Exists(i) \/ i = id => Exists(i)'
  BY <1>2, <1>3, RecordAdded
<1>5. PICK u : u = [t EXCEPT !.at = "stored", !.record = id]
  OBVIOUS
<1>6. adds' = (adds \ {t}) \cup {u}
  BY <1>1, <1>3, <1>5 DEF ServeAdd
<1>7. u \in Additions /\ u.at = "stored" /\ u.record = id
  <2>1. t \in Additions
    BY AddMoves
  <2> QED
    BY <1>3, <1>5, <2>1 DEF Additions
<1> QED
  BY <1>4, <1>6, <1>7

LEMMA NowTyped == ASSUME AttendanceTypeOK PROVE \A g : Overview(g) \in Snapshots /\ Overview(g).knows = Changes
<1>1. Changes \in Int
  BY ChangesCounted
<1>2. \A g : GetRecords(g) \in SUBSET Records
  BY DEF GetRecords, AttendanceTypeOK, ListTyped
<1> QED
  BY <1>1, <1>2 DEF Overview, Snapshots

LEMMA VoidedExists == ASSUME NamesExist, correction.at # "closed" PROVE Voided \in records
BY DEF NamesExist, Exists, Voided

\* A message about a group that is not shown is read.
LEMMA EventPasses ==
    ASSUME AttendanceTypeOK, events # <<>>, events' = Tail(events), ~Concerns(Head(events)),
           UNCHANGED <<listed, refreshing, panelLoad, adds, correction>>, ListOwed
    PROVE  ListOwed'
<1>1. ASSUME NEW i \in DOMAIN events, Concerns(events[i])
      PROVE  \E k \in DOMAIN events' : InSelection(events'[k], listed)
  <2>1. i \in 2 .. Len(events) /\ Len(events) \in Nat
    BY <1>1 DEF AttendanceTypeOK, EventsTyped
  <2>2. i - 1 \in DOMAIN events' /\ events'[i - 1] = events[i]
    BY <2>1 DEF AttendanceTypeOK, EventsTyped
  <2> QED
    BY <1>1, <2>2 DEF Concerns
<1> QED
  BY <1>1 DEF ListOwed, Concerns

LEMMA OwnOverviewKept ==
    ASSUME AttendanceTypeOK, Numbered, NamesExist, ForTheSelection, OwnOverview, AttendanceNext
    PROVE  OwnOverview'
<1>1. ASSUME NEW s \in Selections, HandleSelectGroup(s)
      PROVE  OwnOverview'
  BY <1>1 DEF HandleSelectGroup, Loads, OwnOverview, panelVars, modalVars, overviewVars, liveVars
<1>2. ASSUME Retry \/ SkeletonTimer \/ GroupsAnswered \/ GroupsFail \/ ServeLoad
      PROVE  OwnOverview'
  BY <1>2 DEF Retry, SkeletonTimer, GroupsAnswered, GroupsFail, ServeLoad, RefreshAttendanceData, Loads,
     OwnOverview, panelVars, modalVars, overviewVars, liveVars
<1>3. ASSUME LoadAnswered \/ LoadFails \/ OpenEntry \/ CancelEntry \/ SubmitManualEntry
      PROVE  OwnOverview'
  BY <1>3 DEF LoadAnswered, LoadFails, OpenEntry, CancelEntry, SubmitManualEntry, FetchOverviewData, ClosedEntry,
     OwnOverview, panelVars, modalVars, overviewVars, liveVars
<1>4. ASSUME NEW m \in PanelGroups, HandleManualEntry(m) \/ ScanMember(m)
      PROVE  OwnOverview'
  BY <1>4 DEF HandleManualEntry, ScanMember, OwnOverview, panelVars, modalVars, overviewVars, liveVars
<1>5. ASSUME NEW t \in adds, ServeAdd(t) \/ AddAnswered(t) \/ AddDone(t) \/ AddFails(t)
      PROVE  OwnOverview'
  BY <1>5 DEF ServeAdd, AddAnswered, AddDone, AddFails, RefreshAttendanceData, ClosedEntry, OwnOverview, panelVars,
     modalVars, overviewVars, liveVars
<1>6. ASSUME NEW r \in Visible, OpenCorrection(r)
      PROVE  OwnOverview'
  BY <1>6 DEF OpenCorrection, Visible, OwnOverview, panelVars, modalVars, overviewVars, liveVars
<1>7. ASSUME CloseCorrection \/ HandleSubmit \/ ServeVoid \/ VoidAnswered \/ VoidFails
      PROVE  OwnOverview'
  BY <1>7 DEF CloseCorrection, HandleSubmit, ServeVoid, VoidAnswered, VoidFails, ClosedCorrection,
     RefreshAttendanceData, VoidTask, OwnOverview, panelVars, modalVars, overviewVars, liveVars
<1>8. ASSUME VoidRefreshed
      PROVE  OwnOverview'
  <2>1. PICK f : overviewAsked' = overviewAsked \cup {f}
    BY <1>8, OverviewAsked DEF VoidRefreshed
  <2>2. \A h \in overviewAsked : ~h.own
    BY <1>8 DEF VoidRefreshed, OwnOverview
  <2>3. correction'.at = "overview"
    BY <1>8 DEF VoidRefreshed, AttendanceTypeOK, ListTyped, DialogsTyped, Voidings
  <2> QED
    BY <2>1, <2>2, <2>3 DEF OwnOverview
<1>9. ASSUME NEW g \in PanelGroups, OpenOverview(g)
      PROVE  OwnOverview'
  BY <1>9 DEF OpenOverview, FetchOverviewData, OwnOverview, panelVars, modalVars, overviewVars, liveVars
<1>10. ASSUME NEW f \in overviewAsked, OverviewAnswered(f) \/ OverviewFails(f)
      PROVE  OwnOverview'
  BY <1>10 DEF OverviewAnswered, OverviewFails, Ends, ClosedCorrection, OwnOverview, panelVars, modalVars,
     overviewVars, liveVars
<1>11. ASSUME ThrottleEnds \/ AttendanceEvent
      PROVE  OwnOverview'
  BY <1>11 DEF ThrottleEnds, AttendanceEvent, RefreshAttendanceData, OwnOverview, panelVars, modalVars,
     overviewVars, liveVars
<1> QED
  BY <1>1, <1>2, <1>3, <1>4, <1>5, <1>6, <1>7, <1>8, <1>9, <1>10, <1>11
     DEF AttendanceNext, PanelLoads, Entries, Corrections, Overviews

LEMMA ForTheSelectionKept ==
    ASSUME AttendanceTypeOK, Numbered, NamesExist, ForTheSelection, OwnOverview, AttendanceNext
    PROVE  ForTheSelection'
<1>1. ASSUME NEW s \in Selections, HandleSelectGroup(s)
      PROVE  ForTheSelection'
  BY <1>1 DEF HandleSelectGroup, Loads, ForTheSelection, panelVars, modalVars, overviewVars, liveVars
<1>2. ASSUME Retry \/ SkeletonTimer \/ GroupsFail \/ LoadFails \/ OpenEntry
      PROVE  ForTheSelection'
  BY <1>2 DEF Retry, SkeletonTimer, GroupsFail, LoadFails, OpenEntry, RefreshAttendanceData, ClosedEntry,
     ForTheSelection, panelVars, modalVars, overviewVars, liveVars
<1>3. ASSUME GroupsAnswered
      PROVE  ForTheSelection'
  BY <1>3 DEF GroupsAnswered, Loads, ForTheSelection, panelVars, modalVars, overviewVars, liveVars
<1>4. ASSUME ServeLoad
      PROVE  ForTheSelection'
  <2>1. PICK l \in panelLoad : panelLoad' = {[l EXCEPT !.answer = {GetRecords(l.of)}]}
    BY <1>4 DEF ServeLoad
  <2>2. PICK k : panelLoad' = {k} /\ k.of = l.of
    BY <2>1, LoadServed
  <2> QED
    BY <1>4, <2>2 DEF ServeLoad, ForTheSelection
<1>5. ASSUME LoadAnswered
      PROVE  ForTheSelection'
  BY <1>5 DEF LoadAnswered, FetchOverviewData, ForTheSelection, panelVars, modalVars, overviewVars, liveVars
<1>6. ASSUME CancelEntry \/ CloseCorrection \/ HandleSubmit \/ ThrottleEnds \/ AttendanceEvent
      PROVE  ForTheSelection'
  BY <1>6 DEF CancelEntry, CloseCorrection, HandleSubmit, ThrottleEnds, AttendanceEvent, ClosedEntry,
     ClosedCorrection, RefreshAttendanceData, ForTheSelection, panelVars, modalVars, overviewVars, liveVars
<1>7. ASSUME SubmitManualEntry
      PROVE  ForTheSelection'
  BY <1>7 DEF SubmitManualEntry, ForTheSelection, panelVars, modalVars, overviewVars, liveVars
<1>8. ASSUME NEW m \in PanelGroups, HandleManualEntry(m) \/ ScanMember(m)
      PROVE  ForTheSelection'
  BY <1>8 DEF HandleManualEntry, ScanMember, ForTheSelection, panelVars, modalVars, overviewVars, liveVars
<1>9. ASSUME NEW t \in adds, ServeAdd(t) \/ AddAnswered(t) \/ AddDone(t) \/ AddFails(t)
      PROVE  ForTheSelection'
  BY <1>9 DEF ServeAdd, AddAnswered, AddDone, AddFails, RefreshAttendanceData, ClosedEntry, ForTheSelection,
     panelVars, modalVars, overviewVars, liveVars
<1>10. ASSUME NEW r \in Visible, OpenCorrection(r)
      PROVE  ForTheSelection'
  BY <1>10 DEF OpenCorrection, Visible, ForTheSelection, panelVars, modalVars, overviewVars, liveVars
<1>11. ASSUME ServeVoid
      PROVE  ForTheSelection'
  BY <1>11 DEF ServeVoid, ForTheSelection, panelVars, modalVars, overviewVars, liveVars
<1>12. ASSUME VoidAnswered
      PROVE  ForTheSelection'
  BY <1>12 DEF VoidAnswered, RefreshAttendanceData, VoidTask, ForTheSelection, panelVars, modalVars, overviewVars,
     liveVars
<1>13. ASSUME VoidRefreshed
      PROVE  ForTheSelection'
  BY <1>13 DEF VoidRefreshed, FetchOverviewData, ForTheSelection, panelVars, modalVars, overviewVars, liveVars
<1>14. ASSUME VoidFails
      PROVE  ForTheSelection'
  BY <1>14 DEF VoidFails, ForTheSelection, panelVars, modalVars, overviewVars, liveVars
<1>15. ASSUME NEW g \in PanelGroups, OpenOverview(g)
      PROVE  ForTheSelection'
  BY <1>15 DEF OpenOverview, FetchOverviewData, ForTheSelection, panelVars, modalVars, overviewVars, liveVars
<1>16. ASSUME NEW f \in overviewAsked, OverviewAnswered(f) \/ OverviewFails(f)
      PROVE  ForTheSelection'
  BY <1>16 DEF OverviewAnswered, OverviewFails, Ends, ClosedCorrection, ForTheSelection, panelVars, modalVars,
     overviewVars, liveVars
<1> QED
  BY <1>1, <1>2, <1>3, <1>4, <1>5, <1>6, <1>7, <1>8, <1>9, <1>10, <1>11, <1>12, <1>13, <1>14, <1>15, <1>16
     DEF AttendanceNext, PanelLoads, Entries, Corrections, Overviews

LEMMA NamesExistKept ==
    ASSUME AttendanceTypeOK, Numbered, NamesExist, ForTheSelection, OwnOverview, AttendanceNext
    PROVE  NamesExist'
<1>1. ASSUME NEW s \in Selections, HandleSelectGroup(s)
      PROVE  NamesExist'
  BY <1>1, RecordsStay DEF HandleSelectGroup, Loads, NamesExist, panelVars, modalVars, overviewVars, liveVars
<1>2. ASSUME Retry \/ SkeletonTimer \/ GroupsFail \/ LoadFails \/ OpenEntry
      PROVE  NamesExist'
  BY <1>2, RecordsStay DEF Retry, SkeletonTimer, GroupsFail, LoadFails, OpenEntry, RefreshAttendanceData,
     ClosedEntry, NamesExist, panelVars, modalVars, overviewVars, liveVars
<1>3. ASSUME GroupsAnswered
      PROVE  NamesExist'
  BY <1>3, RecordsStay DEF GroupsAnswered, Loads, NamesExist, panelVars, modalVars, overviewVars, liveVars
<1>4. ASSUME ServeLoad
      PROVE  NamesExist'
  <2>1. PICK l \in panelLoad : panelLoad' = {[l EXCEPT !.answer = {GetRecords(l.of)}]}
    BY <1>4 DEF ServeLoad
  <2>2. \A k \in panelLoad' : k.answer = {GetRecords(l.of)}
    BY <2>1, LoadServed
  <2>3. \A r \in GetRecords(l.of) : Exists(r.id)
    BY DEF GetRecords, Exists
  <2> QED
    BY <1>4, <2>2, <2>3, RecordsStay DEF ServeLoad, NamesExist, modalVars, overviewVars, liveVars
<1>5. ASSUME LoadAnswered
      PROVE  NamesExist'
  BY <1>5, RecordsStay DEF LoadAnswered, FetchOverviewData, NamesExist, panelVars, modalVars, overviewVars, liveVars
<1>6. ASSUME CancelEntry \/ CloseCorrection \/ ThrottleEnds
      PROVE  NamesExist'
  BY <1>6, RecordsStay DEF CancelEntry, CloseCorrection, ThrottleEnds, ClosedEntry, ClosedCorrection, NamesExist,
     panelVars, modalVars, overviewVars, liveVars
<1>7. ASSUME SubmitManualEntry
      PROVE  NamesExist'
  BY <1>7, RecordsStay DEF SubmitManualEntry, NamesExist, panelVars, modalVars, overviewVars, liveVars
<1>8. ASSUME NEW m \in PanelGroups, HandleManualEntry(m)
      PROVE  NamesExist'
  BY <1>8, RecordsStay DEF HandleManualEntry, NamesExist, panelVars, modalVars, overviewVars, liveVars
<1>9. ASSUME NEW t \in adds, ServeAdd(t)
      PROVE  NamesExist'
  <2>1. PICK u : adds' = (adds \ {t}) \cup {u} /\ \A id : Exists(id) \/ id = u.record => Exists(id)'
    BY <1>9, AddServed
  <2> QED
    BY <1>9, <2>1 DEF ServeAdd, NamesExist, overviewVars, liveVars
<1>10. ASSUME NEW t \in adds, AddAnswered(t)
      PROVE  NamesExist'
  <2>1. PICK u : u = [t EXCEPT !.at = "refresh"]
    OBVIOUS
  <2>2. u.at = "refresh" /\ adds' = (adds \ {t}) \cup {u} /\ Exists(t.record)
    BY <1>10, <2>1, AddMoves DEF AddAnswered, NamesExist, AttendanceTypeOK, ListTyped, DialogsTyped, Additions
  <2> QED
    BY <1>10, <2>2, RecordsStay DEF AddAnswered, NamesExist, overviewVars, liveVars
<1>11. ASSUME NEW t \in adds, AddDone(t) \/ AddFails(t)
      PROVE  NamesExist'
  BY <1>11, RecordsStay DEF AddDone, AddFails, ClosedEntry, NamesExist, panelVars, modalVars, overviewVars, liveVars
<1>12. ASSUME NEW r \in Visible, OpenCorrection(r)
      PROVE  NamesExist'
  BY <1>12, RecordsStay DEF OpenCorrection, Visible, NamesExist, panelVars, modalVars, overviewVars, liveVars
<1>13. ASSUME HandleSubmit
      PROVE  NamesExist'
  BY <1>13, RecordsStay DEF HandleSubmit, NamesExist, panelVars, modalVars, overviewVars, liveVars
<1>14. ASSUME ServeVoid
      PROVE  NamesExist'
  BY <1>14, RecordVoided DEF ServeVoid, NamesExist, overviewVars, liveVars
<1>15. ASSUME VoidAnswered
      PROVE  NamesExist'
  BY <1>15, RecordsStay DEF VoidAnswered, RefreshAttendanceData, VoidTask, NamesExist, panelVars, modalVars,
     overviewVars, liveVars
<1>16. ASSUME VoidRefreshed
      PROVE  NamesExist'
  BY <1>16, RecordsStay DEF VoidRefreshed, FetchOverviewData, NamesExist, panelVars, modalVars, overviewVars,
     liveVars
<1>17. ASSUME VoidFails
      PROVE  NamesExist'
  BY <1>17, RecordsStay DEF VoidFails, NamesExist, panelVars, modalVars, overviewVars, liveVars
<1>18. ASSUME NEW g \in PanelGroups, OpenOverview(g)
      PROVE  NamesExist'
  BY <1>18, RecordsStay DEF OpenOverview, FetchOverviewData, NamesExist, panelVars, modalVars, overviewVars,
     liveVars
<1>19. ASSUME NEW f \in overviewAsked, OverviewAnswered(f) \/ OverviewFails(f)
      PROVE  NamesExist'
  BY <1>19, RecordsStay DEF OverviewAnswered, OverviewFails, Ends, ClosedCorrection, NamesExist, panelVars,
     modalVars, overviewVars, liveVars
<1>20. ASSUME NEW m \in PanelGroups, ScanMember(m)
      PROVE  NamesExist'
  <2>1. \A id : Exists(id) => Exists(id)'
    BY <1>20, RecordAdded, RecordsStay DEF ScanMember
  <2> QED
    BY <1>20, <2>1 DEF ScanMember, NamesExist, modalVars, overviewVars
<1>21. ASSUME AttendanceEvent
      PROVE  NamesExist'
  BY <1>21, RecordsStay DEF AttendanceEvent, RefreshAttendanceData, NamesExist, panelVars, modalVars, overviewVars,
     liveVars
<1> QED
  BY <1>1, <1>2, <1>3, <1>4, <1>5, <1>6, <1>7, <1>8, <1>9, <1>10, <1>11, <1>12, <1>13, <1>14, <1>15, <1>16, <1>17,
     <1>18, <1>19, <1>20, <1>21
     DEF AttendanceNext, PanelLoads, Entries, Corrections, Overviews

LEMMA NumberedKept ==
    ASSUME AttendanceTypeOK, Numbered, NamesExist, ForTheSelection, OwnOverview, AttendanceNext
    PROVE  Numbered'
<1>1. ASSUME NEW s \in Selections, HandleSelectGroup(s)
      PROVE  Numbered'
  BY <1>1 DEF HandleSelectGroup, Loads, Numbered, panelVars, modalVars, overviewVars, liveVars
<1>2. ASSUME Retry \/ SkeletonTimer \/ GroupsAnswered \/ GroupsFail \/ ServeLoad
      PROVE  Numbered'
  BY <1>2 DEF Retry, SkeletonTimer, GroupsAnswered, GroupsFail, ServeLoad, RefreshAttendanceData, Loads, Numbered,
     panelVars, modalVars, overviewVars, liveVars
<1>3. ASSUME LoadAnswered \/ LoadFails \/ OpenEntry \/ CancelEntry \/ SubmitManualEntry
      PROVE  Numbered'
  BY <1>3 DEF LoadAnswered, LoadFails, OpenEntry, CancelEntry, SubmitManualEntry, FetchOverviewData, ClosedEntry,
     Numbered, panelVars, modalVars, overviewVars, liveVars
<1>4. ASSUME NEW m \in PanelGroups, HandleManualEntry(m)
      PROVE  Numbered'
  BY <1>4 DEF HandleManualEntry, Numbered, panelVars, modalVars, overviewVars, liveVars
<1>5. ASSUME NEW t \in adds, ServeAdd(t)
      PROVE  Numbered'
  BY <1>5, RecordAdded, AddMoves DEF ServeAdd
<1>6. ASSUME NEW t \in adds, AddAnswered(t) \/ AddDone(t) \/ AddFails(t)
      PROVE  Numbered'
  BY <1>6 DEF AddAnswered, AddDone, AddFails, RefreshAttendanceData, ClosedEntry, Numbered, panelVars, modalVars,
     overviewVars, liveVars
<1>7. ASSUME NEW r \in Visible, OpenCorrection(r)
      PROVE  Numbered'
  BY <1>7 DEF OpenCorrection, Visible, Numbered, panelVars, modalVars, overviewVars, liveVars
<1>8. ASSUME CloseCorrection \/ HandleSubmit \/ VoidAnswered \/ VoidRefreshed \/ VoidFails
      PROVE  Numbered'
  BY <1>8 DEF CloseCorrection, HandleSubmit, VoidAnswered, VoidRefreshed, VoidFails, ClosedCorrection,
     RefreshAttendanceData, VoidTask, FetchOverviewData, Numbered, panelVars, modalVars, overviewVars, liveVars
<1>9. ASSUME ServeVoid
      PROVE  Numbered'
  BY <1>9, RecordVoided
<1>10. ASSUME NEW g \in PanelGroups, OpenOverview(g)
      PROVE  Numbered'
  BY <1>10 DEF OpenOverview, FetchOverviewData, Numbered, panelVars, modalVars, overviewVars, liveVars
<1>11. ASSUME NEW f \in overviewAsked, OverviewAnswered(f) \/ OverviewFails(f)
      PROVE  Numbered'
  BY <1>11 DEF OverviewAnswered, OverviewFails, Ends, ClosedCorrection, Numbered, panelVars, modalVars,
     overviewVars, liveVars
<1>12. ASSUME NEW m \in PanelGroups, ScanMember(m)
      PROVE  Numbered'
  <2>1. records' = records \/ records' = records \cup {NewRecord(m)}
    BY <1>12 DEF ScanMember
  <2> QED
    BY <1>12, <2>1, RecordAdded DEF Numbered
<1>13. ASSUME ThrottleEnds \/ AttendanceEvent
      PROVE  Numbered'
  BY <1>13 DEF ThrottleEnds, AttendanceEvent, RefreshAttendanceData, Numbered, panelVars, modalVars, overviewVars,
     liveVars
<1> QED
  BY <1>1, <1>2, <1>3, <1>4, <1>5, <1>6, <1>7, <1>8, <1>9, <1>10, <1>11, <1>12, <1>13
     DEF AttendanceNext, PanelLoads, Entries, Corrections, Overviews

LEMMA ListTypedKept ==
    ASSUME AttendanceTypeOK, Numbered, NamesExist, ForTheSelection, OwnOverview, AttendanceNext
    PROVE  ListTyped'
<1>1. ASSUME NEW s \in Selections, HandleSelectGroup(s)
      PROVE  ListTyped'
  <2>1. recent' \subseteq Records
    BY <1>1 DEF HandleSelectGroup, AttendanceTypeOK, ListTyped
  <2>2. panelLoad' \subseteq PanelRequests /\ refreshing' = {}
    BY <1>1 DEF HandleSelectGroup, Loads, PanelRequests
  <2> QED
    BY <1>1, <2>1, <2>2 DEF HandleSelectGroup, AttendanceTypeOK, ListTyped
<1>2. ASSUME Retry \/ GroupsFail \/ LoadFails \/ OpenEntry \/ CancelEntry
      PROVE  ListTyped'
  BY <1>2 DEF Retry, GroupsFail, LoadFails, OpenEntry, CancelEntry, RefreshAttendanceData, ClosedEntry, ListTyped,
     panelVars, modalVars, overviewVars, liveVars, AttendanceTypeOK
<1>3. ASSUME SkeletonTimer
      PROVE  ListTyped'
  BY <1>3 DEF SkeletonTimer, AttendanceTypeOK, ListTyped
<1>4. ASSUME GroupsAnswered
      PROVE  ListTyped'
  <2>1. panelLoad' \subseteq PanelRequests
    BY <1>4 DEF GroupsAnswered, Loads, PanelRequests, AttendanceTypeOK, ListTyped, ForTheSelection
  <2>2. kept' \in [Selections -> SUBSET (SUBSET Records)]
    BY <1>4 DEF GroupsAnswered, AttendanceTypeOK, ListTyped
  <2>3. recent' \subseteq Records /\ panel' \in {"ready", "switching", "loading"}
    BY <1>4 DEF GroupsAnswered, AttendanceTypeOK, ListTyped
  <2> QED
    BY <1>4, <2>1, <2>2, <2>3 DEF GroupsAnswered, AttendanceTypeOK, ListTyped
<1>5. ASSUME ServeLoad
      PROVE  ListTyped'
  <2>1. panelLoad' \subseteq PanelRequests
    BY <1>5, LoadServed DEF ServeLoad
  <2> QED
    BY <1>5, <2>1 DEF ServeLoad, AttendanceTypeOK, ListTyped
<1>6. ASSUME LoadAnswered
      PROVE  ListTyped'
  <2>1. PICK l \in panelLoad : recent' \in l.answer /\ kept' = [kept EXCEPT ![l.of] = l.answer] /\ panelLoad' = {}
    BY <1>6 DEF LoadAnswered
  <2>2. l.answer \in SUBSET (SUBSET Records)
    BY DEF AttendanceTypeOK, ListTyped, PanelRequests
  <2> QED
    BY <1>6, <2>1, <2>2 DEF LoadAnswered, AttendanceTypeOK, ListTyped
<1>7. ASSUME SubmitManualEntry \/ CloseCorrection \/ HandleSubmit \/ VoidRefreshed \/ VoidFails
      PROVE  ListTyped'
  BY <1>7 DEF SubmitManualEntry, CloseCorrection, HandleSubmit, VoidRefreshed, VoidFails, ClosedCorrection,
     FetchOverviewData, ListTyped, panelVars, modalVars, overviewVars, liveVars, AttendanceTypeOK,
     RefreshAttendanceData
<1>8. ASSUME NEW m \in PanelGroups, HandleManualEntry(m)
      PROVE  ListTyped'
  BY <1>8 DEF HandleManualEntry, ListTyped, panelVars, modalVars, overviewVars, liveVars, AttendanceTypeOK,
     RefreshAttendanceData
<1>9. ASSUME NEW t \in adds, ServeAdd(t)
      PROVE  ListTyped'
  <2>1. records' = records \cup {NewRecord(t.of)} /\ t.of \in PanelGroups
    BY <1>9, AddMoves DEF ServeAdd
  <2>2. records' \subseteq Records /\ IsFiniteSet(records')
    BY <2>1, RecordAdded
  <2> QED
    BY <1>9, <2>2 DEF ServeAdd, AttendanceTypeOK, ListTyped
<1>10. ASSUME NEW t \in adds, AddAnswered(t)
      PROVE  ListTyped'
  <2>1. PICK r : r = [id |-> t.record, of |-> t.of, voided |-> FALSE]
    OBVIOUS
  <2>2. t.record \in Nat /\ t.of \in PanelGroups /\ t.n \in Nat
    BY DEF AttendanceTypeOK, DialogsTyped, Additions
  <2>3. r \in Records
    BY <2>1, <2>2 DEF Records
  <2>4. recent' = recent \cup {r}
    BY <1>10, <2>1, Zenon DEF AddAnswered
  <2>5. refreshing' = {[of |-> listed, by |-> {t.n}]}
    BY <1>10 DEF AddAnswered, RefreshAttendanceData
  <2> QED
    BY <1>10, <2>2, <2>3, <2>4, <2>5 DEF AddAnswered, AttendanceTypeOK, ListTyped
<1>11. ASSUME NEW t \in adds, AddDone(t) \/ AddFails(t)
      PROVE  ListTyped'
  BY <1>11 DEF AddDone, AddFails, ClosedEntry, ListTyped, panelVars, modalVars, overviewVars, liveVars,
     AttendanceTypeOK, RefreshAttendanceData
<1>12. ASSUME NEW r \in Visible, OpenCorrection(r)
      PROVE  ListTyped'
  BY <1>12 DEF OpenCorrection, Visible, ListTyped, panelVars, modalVars, overviewVars, liveVars, AttendanceTypeOK,
     RefreshAttendanceData
<1>13. ASSUME ServeVoid
      PROVE  ListTyped'
  <2>1. records' \subseteq Records /\ IsFiniteSet(records')
    BY <1>13, RecordVoided
  <2> QED
    BY <1>13, <2>1 DEF ServeVoid, AttendanceTypeOK, ListTyped
<1>14. ASSUME VoidAnswered
      PROVE  ListTyped'
  BY <1>14 DEF VoidAnswered, RefreshAttendanceData, VoidTask, AttendanceTypeOK, ListTyped
<1>15. ASSUME NEW g \in PanelGroups, OpenOverview(g)
      PROVE  ListTyped'
  BY <1>15 DEF OpenOverview, FetchOverviewData, ListTyped, panelVars, modalVars, overviewVars, liveVars,
     AttendanceTypeOK, RefreshAttendanceData
<1>16. ASSUME NEW f \in overviewAsked, OverviewAnswered(f) \/ OverviewFails(f)
      PROVE  ListTyped'
  BY <1>16 DEF OverviewAnswered, OverviewFails, Ends, ClosedCorrection, ListTyped, panelVars, modalVars,
     overviewVars, liveVars, AttendanceTypeOK, RefreshAttendanceData
<1>17. ASSUME NEW m \in PanelGroups, ScanMember(m)
      PROVE  ListTyped'
  <2>1. records' \subseteq Records /\ IsFiniteSet(records')
    BY <1>17, RecordAdded DEF ScanMember, AttendanceTypeOK, ListTyped
  <2> QED
    BY <1>17, <2>1 DEF ScanMember, AttendanceTypeOK, ListTyped, modalVars
<1>18. ASSUME ThrottleEnds \/ AttendanceEvent
      PROVE  ListTyped'
  BY <1>18 DEF ThrottleEnds, AttendanceEvent, RefreshAttendanceData, ListTyped, panelVars, modalVars, overviewVars,
     liveVars, AttendanceTypeOK
<1> QED
  BY <1>1, <1>2, <1>3, <1>4, <1>5, <1>6, <1>7, <1>8, <1>9, <1>10, <1>11, <1>12, <1>13, <1>14, <1>15, <1>16, <1>17,
     <1>18
     DEF AttendanceNext, PanelLoads, Entries, Corrections, Overviews

LEMMA DialogsTypedKept ==
    ASSUME AttendanceTypeOK, Numbered, NamesExist, ForTheSelection, OwnOverview, AttendanceNext
    PROVE  DialogsTyped'
<1>1. ASSUME NEW s \in Selections, HandleSelectGroup(s)
      PROVE  DialogsTyped'
  BY <1>1 DEF HandleSelectGroup, Loads, DialogsTyped, panelVars, modalVars, overviewVars, liveVars,
     AttendanceTypeOK, Voidings, ClosedEntry, ClosedCorrection, Selections
<1>2. ASSUME Retry \/ SkeletonTimer \/ GroupsAnswered \/ GroupsFail \/ ServeLoad
      PROVE  DialogsTyped'
  BY <1>2 DEF Retry, SkeletonTimer, GroupsAnswered, GroupsFail, ServeLoad, RefreshAttendanceData, Loads,
     DialogsTyped, panelVars, modalVars, overviewVars, liveVars, AttendanceTypeOK, Voidings, ClosedEntry,
     ClosedCorrection, Selections
<1>3. ASSUME LoadAnswered \/ LoadFails \/ OpenEntry \/ CancelEntry \/ CloseCorrection
      PROVE  DialogsTyped'
  BY <1>3 DEF LoadAnswered, LoadFails, OpenEntry, CancelEntry, CloseCorrection, FetchOverviewData, ClosedEntry,
     ClosedCorrection, DialogsTyped, panelVars, modalVars, overviewVars, liveVars, AttendanceTypeOK, Voidings,
     Selections
<1>4. ASSUME SubmitManualEntry
      PROVE  DialogsTyped'
  <2>1. PICK n \in 1 .. MaxEntered : adds' = adds \cup {[n |-> n, of |-> entry.confirming, at |-> "sent", record |-> 0]}
    BY <1>4 DEF SubmitManualEntry
  <2>2. entry.confirming \in PanelGroups
    BY <1>4 DEF SubmitManualEntry, Confirming, Selections, AttendanceTypeOK, DialogsTyped
  <2>3. [n |-> n, of |-> entry.confirming, at |-> "sent", record |-> 0] \in Additions
    BY <2>2 DEF Additions
  <2> QED
    BY <1>4, <2>1, <2>3 DEF SubmitManualEntry, AttendanceTypeOK, DialogsTyped
<1>5. ASSUME NEW m \in PanelGroups, HandleManualEntry(m)
      PROVE  DialogsTyped'
  BY <1>5 DEF HandleManualEntry, Selections, AttendanceTypeOK, DialogsTyped
<1>6. ASSUME NEW t \in adds, ServeAdd(t)
      PROVE  DialogsTyped'
  BY <1>6, AddServed DEF ServeAdd, AttendanceTypeOK, DialogsTyped
<1>7. ASSUME NEW t \in adds, AddAnswered(t)
      PROVE  DialogsTyped'
  BY <1>7 DEF AddAnswered, AttendanceTypeOK, DialogsTyped, Additions
<1>8. ASSUME NEW t \in adds, AddDone(t) \/ AddFails(t)
      PROVE  DialogsTyped'
  BY <1>8 DEF AddDone, AddFails, ClosedEntry, DialogsTyped, panelVars, modalVars, overviewVars, liveVars,
     AttendanceTypeOK, Voidings, ClosedCorrection, Selections
<1>9. ASSUME NEW r \in Visible, OpenCorrection(r)
      PROVE  DialogsTyped'
  <2>1. r \in Records
    BY <1>9 DEF Visible, AttendanceTypeOK, ListTyped
  <2> QED
    BY <1>9, <2>1 DEF OpenCorrection, Records, Voidings, AttendanceTypeOK, DialogsTyped
<1>10. ASSUME HandleSubmit \/ ServeVoid \/ VoidAnswered \/ VoidRefreshed \/ VoidFails
      PROVE  DialogsTyped'
  BY <1>10 DEF HandleSubmit, ServeVoid, VoidAnswered, VoidRefreshed, VoidFails, RefreshAttendanceData, VoidTask,
     FetchOverviewData, DialogsTyped, panelVars, modalVars, overviewVars, liveVars, AttendanceTypeOK, Voidings,
     ClosedEntry, ClosedCorrection, Selections
<1>11. ASSUME NEW g \in PanelGroups, OpenOverview(g)
      PROVE  DialogsTyped'
  BY <1>11 DEF OpenOverview, FetchOverviewData, DialogsTyped, panelVars, modalVars, overviewVars, liveVars,
     AttendanceTypeOK, Voidings, ClosedEntry, ClosedCorrection, Selections
<1>12. ASSUME NEW f \in overviewAsked, OverviewAnswered(f) \/ OverviewFails(f)
      PROVE  DialogsTyped'
  BY <1>12 DEF OverviewAnswered, OverviewFails, Ends, ClosedCorrection, DialogsTyped, panelVars, modalVars,
     overviewVars, liveVars, AttendanceTypeOK, Voidings, ClosedEntry, Selections
<1>13. ASSUME NEW m \in PanelGroups, ScanMember(m)
      PROVE  DialogsTyped'
  BY <1>13 DEF ScanMember, DialogsTyped, panelVars, modalVars, overviewVars, liveVars, AttendanceTypeOK, Voidings,
     ClosedEntry, ClosedCorrection, Selections
<1>14. ASSUME ThrottleEnds \/ AttendanceEvent
      PROVE  DialogsTyped'
  BY <1>14 DEF ThrottleEnds, AttendanceEvent, RefreshAttendanceData, DialogsTyped, panelVars, modalVars,
     overviewVars, liveVars, AttendanceTypeOK, Voidings, ClosedEntry, ClosedCorrection, Selections
<1> QED
  BY <1>1, <1>2, <1>3, <1>4, <1>5, <1>6, <1>7, <1>8, <1>9, <1>10, <1>11, <1>12, <1>13, <1>14
     DEF AttendanceNext, PanelLoads, Entries, Corrections, Overviews

LEMMA OverviewTypedKept ==
    ASSUME AttendanceTypeOK, Numbered, NamesExist, ForTheSelection, OwnOverview, AttendanceNext
    PROVE  OverviewTyped'
<1>1. ASSUME NEW s \in Selections, HandleSelectGroup(s)
      PROVE  OverviewTyped'
  BY <1>1 DEF HandleSelectGroup, Loads, OverviewTyped, panelVars, modalVars, overviewVars, liveVars,
     AttendanceTypeOK
<1>2. ASSUME Retry \/ SkeletonTimer \/ GroupsAnswered \/ GroupsFail \/ ServeLoad
      PROVE  OverviewTyped'
  BY <1>2 DEF Retry, SkeletonTimer, GroupsAnswered, GroupsFail, ServeLoad, RefreshAttendanceData, Loads,
     OverviewTyped, panelVars, modalVars, overviewVars, liveVars, AttendanceTypeOK
<1>3. ASSUME LoadAnswered
      PROVE  OverviewTyped'
  <2>1. CASE UNCHANGED overviewAsked
    BY <1>3, <2>1 DEF LoadAnswered, AttendanceTypeOK, OverviewTyped
  <2>2. CASE \E g \in PanelGroups : FetchOverviewData(g, FALSE)
    <3> PICK g \in PanelGroups : FetchOverviewData(g, FALSE)
      BY <2>2
    <3>1. PICK f : overviewAsked' = overviewAsked \cup {f} /\ f.of = g /\ f.early = Overview(g)
      BY OverviewAsked
    <3>2. f.early \in Snapshots
      BY <3>1, NowTyped
    <3> QED
      BY <1>3, <3>1, <3>2 DEF LoadAnswered, AttendanceTypeOK, OverviewTyped
  <2> QED
    BY <1>3, <2>1, <2>2 DEF LoadAnswered
<1>4. ASSUME LoadFails \/ OpenEntry \/ CancelEntry \/ SubmitManualEntry \/ CloseCorrection
      PROVE  OverviewTyped'
  BY <1>4 DEF LoadFails, OpenEntry, CancelEntry, SubmitManualEntry, CloseCorrection, ClosedEntry, ClosedCorrection,
     OverviewTyped, panelVars, modalVars, overviewVars, liveVars, AttendanceTypeOK
<1>5. ASSUME NEW m \in PanelGroups, HandleManualEntry(m) \/ ScanMember(m)
      PROVE  OverviewTyped'
  BY <1>5 DEF HandleManualEntry, ScanMember, OverviewTyped, panelVars, modalVars, overviewVars, liveVars,
     AttendanceTypeOK
<1>6. ASSUME NEW t \in adds, ServeAdd(t) \/ AddAnswered(t) \/ AddDone(t) \/ AddFails(t)
      PROVE  OverviewTyped'
  BY <1>6 DEF ServeAdd, AddAnswered, AddDone, AddFails, RefreshAttendanceData, ClosedEntry, OverviewTyped,
     panelVars, modalVars, overviewVars, liveVars, AttendanceTypeOK
<1>7. ASSUME NEW r \in Visible, OpenCorrection(r)
      PROVE  OverviewTyped'
  BY <1>7 DEF OpenCorrection, Visible, OverviewTyped, panelVars, modalVars, overviewVars, liveVars, AttendanceTypeOK
<1>8. ASSUME HandleSubmit \/ ServeVoid \/ VoidAnswered \/ VoidFails \/ ThrottleEnds
      PROVE  OverviewTyped'
  BY <1>8 DEF HandleSubmit, ServeVoid, VoidAnswered, VoidFails, ThrottleEnds, RefreshAttendanceData, VoidTask,
     OverviewTyped, panelVars, modalVars, overviewVars, liveVars, AttendanceTypeOK
<1>9. ASSUME VoidRefreshed
      PROVE  OverviewTyped'
  <2>1. Voided.of \in PanelGroups
    BY <1>9, VoidedExists DEF VoidRefreshed, AttendanceTypeOK, ListTyped, Records
  <2>2. PICK f : overviewAsked' = overviewAsked \cup {f} /\ f.of = Voided.of /\ f.early = Overview(Voided.of)
    BY <1>9, <2>1, OverviewAsked DEF VoidRefreshed
  <2>3. f.of \in PanelGroups /\ f.early \in Snapshots
    BY <2>1, <2>2, NowTyped
  <2> QED
    BY <1>9, <2>2, <2>3 DEF VoidRefreshed, AttendanceTypeOK, OverviewTyped
<1>10. ASSUME NEW g \in PanelGroups, OpenOverview(g)
      PROVE  OverviewTyped'
  <2>2. PICK f : overviewAsked' = overviewAsked \cup {f} /\ f.of = g /\ f.early = Overview(g)
    BY <1>10, OverviewAsked DEF OpenOverview
  <2>3. f.of \in PanelGroups /\ f.early \in Snapshots
    BY <2>2, NowTyped
  <2> QED
    BY <1>10, <2>2, <2>3 DEF OpenOverview, AttendanceTypeOK, OverviewTyped
<1>11. ASSUME NEW f \in overviewAsked, OverviewAnswered(f)
      PROVE  OverviewTyped'
  <2>1. PICK a \in {f.early, Overview(f.of)} :
            /\ overview' = [overview EXCEPT ![f.of] = a]
            /\ newest' = [newest EXCEPT ![f.of] = IF newest[f.of] < a.knows THEN a.knows ELSE newest[f.of]]
    BY <1>11 DEF OverviewAnswered
  <2>2. a \in Snapshots /\ a.knows \in Int
    BY <2>1, NowTyped DEF AttendanceTypeOK, OverviewTyped, Snapshots
  <2> QED
    BY <1>11, <2>1, <2>2 DEF OverviewAnswered, Ends, AttendanceTypeOK, OverviewTyped
<1>12. ASSUME NEW f \in overviewAsked, OverviewFails(f)
      PROVE  OverviewTyped'
  <2>1. Unfetched \in Snapshots /\ Changes \in Int
    BY ChangesCounted DEF Unfetched, Snapshots
  <2> QED
    BY <1>12, <2>1 DEF OverviewFails, Ends, AttendanceTypeOK, OverviewTyped
<1>13. ASSUME AttendanceEvent
      PROVE  OverviewTyped'
  BY <1>13 DEF AttendanceEvent, RefreshAttendanceData, OverviewTyped, panelVars, modalVars, overviewVars, liveVars,
     AttendanceTypeOK
<1> QED
  BY <1>1, <1>2, <1>3, <1>4, <1>5, <1>6, <1>7, <1>8, <1>9, <1>10, <1>11, <1>12, <1>13
     DEF AttendanceNext, PanelLoads, Entries, Corrections, Overviews

LEMMA EventsTypedKept ==
    ASSUME AttendanceTypeOK, Numbered, NamesExist, ForTheSelection, OwnOverview, AttendanceNext
    PROVE  EventsTyped'
<1>1. ASSUME NEW s \in Selections, HandleSelectGroup(s)
      PROVE  EventsTyped'
  BY <1>1 DEF HandleSelectGroup, Loads, EventsTyped, panelVars, modalVars, overviewVars, liveVars, AttendanceTypeOK
<1>2. ASSUME Retry \/ SkeletonTimer \/ GroupsAnswered \/ GroupsFail \/ ServeLoad
      PROVE  EventsTyped'
  BY <1>2 DEF Retry, SkeletonTimer, GroupsAnswered, GroupsFail, ServeLoad, RefreshAttendanceData, Loads,
     EventsTyped, panelVars, modalVars, overviewVars, liveVars, AttendanceTypeOK
<1>3. ASSUME LoadAnswered \/ LoadFails \/ OpenEntry \/ CancelEntry \/ SubmitManualEntry
      PROVE  EventsTyped'
  BY <1>3 DEF LoadAnswered, LoadFails, OpenEntry, CancelEntry, SubmitManualEntry, FetchOverviewData, ClosedEntry,
     EventsTyped, panelVars, modalVars, overviewVars, liveVars, AttendanceTypeOK
<1>4. ASSUME NEW m \in PanelGroups, HandleManualEntry(m)
      PROVE  EventsTyped'
  BY <1>4 DEF HandleManualEntry, EventsTyped, panelVars, modalVars, overviewVars, liveVars, AttendanceTypeOK
<1>5. ASSUME NEW t \in adds, ServeAdd(t) \/ AddAnswered(t) \/ AddDone(t) \/ AddFails(t)
      PROVE  EventsTyped'
  BY <1>5 DEF ServeAdd, AddAnswered, AddDone, AddFails, RefreshAttendanceData, ClosedEntry, EventsTyped, panelVars,
     modalVars, overviewVars, liveVars, AttendanceTypeOK
<1>6. ASSUME NEW r \in Visible, OpenCorrection(r)
      PROVE  EventsTyped'
  BY <1>6 DEF OpenCorrection, Visible, EventsTyped, panelVars, modalVars, overviewVars, liveVars, AttendanceTypeOK
<1>7. ASSUME CloseCorrection \/ HandleSubmit \/ ServeVoid \/ VoidAnswered \/ VoidRefreshed
      PROVE  EventsTyped'
  BY <1>7 DEF CloseCorrection, HandleSubmit, ServeVoid, VoidAnswered, VoidRefreshed, ClosedCorrection,
     RefreshAttendanceData, VoidTask, FetchOverviewData, EventsTyped, panelVars, modalVars, overviewVars, liveVars,
     AttendanceTypeOK
<1>8. ASSUME VoidFails \/ ThrottleEnds
      PROVE  EventsTyped'
  BY <1>8 DEF VoidFails, ThrottleEnds, EventsTyped, panelVars, modalVars, overviewVars, liveVars, AttendanceTypeOK
<1>9. ASSUME NEW g \in PanelGroups, OpenOverview(g)
      PROVE  EventsTyped'
  BY <1>9 DEF OpenOverview, FetchOverviewData, EventsTyped, panelVars, modalVars, overviewVars, liveVars,
     AttendanceTypeOK
<1>10. ASSUME NEW f \in overviewAsked, OverviewAnswered(f) \/ OverviewFails(f)
      PROVE  EventsTyped'
  BY <1>10 DEF OverviewAnswered, OverviewFails, Ends, ClosedCorrection, EventsTyped, panelVars, modalVars,
     overviewVars, liveVars, AttendanceTypeOK
<1>11. ASSUME NEW m \in PanelGroups, ScanMember(m)
      PROVE  EventsTyped'
  BY <1>11 DEF ScanMember, EventsTyped, AttendanceTypeOK
<1>12. ASSUME AttendanceEvent
      PROVE  EventsTyped'
  BY <1>12 DEF AttendanceEvent, EventsTyped, AttendanceTypeOK
<1> QED
  BY <1>1, <1>2, <1>3, <1>4, <1>5, <1>6, <1>7, <1>8, <1>9, <1>10, <1>11, <1>12
     DEF AttendanceNext, PanelLoads, Entries, Corrections, Overviews

LEMMA ListKeptStays ==
    ASSUME AttendanceTypeOK, Numbered, NamesExist, ForTheSelection, OwnOverview, ListKept, AttendanceNext
    PROVE  ListKept'
<1>1. ASSUME NEW s \in Selections, HandleSelectGroup(s)
      PROVE  ListKept'
  BY <1>1, RecordsStay DEF HandleSelectGroup, Loads, ListKept, panelVars, modalVars, overviewVars, liveVars,
     ListOwed, Excused, Concerns
<1>2. ASSUME Retry \/ SkeletonTimer \/ GroupsFail \/ LoadFails \/ OpenEntry
      PROVE  ListKept'
  BY <1>2, RecordsStay DEF Retry, SkeletonTimer, GroupsFail, LoadFails, OpenEntry, RefreshAttendanceData,
     ClosedEntry, ListKept, panelVars, modalVars, overviewVars, liveVars, ListOwed, Excused, Concerns
<1>3. ASSUME GroupsAnswered
      PROVE  ListKept'
  BY <1>3, RecordsStay DEF GroupsAnswered, Loads, ListKept, panelVars, modalVars, overviewVars, liveVars, ListOwed,
     Excused, Concerns
<1>4. ASSUME ServeLoad
      PROVE  ListKept'
  <2>1. PICK l \in panelLoad : panelLoad' = {[l EXCEPT !.answer = {GetRecords(l.of)}]}
    BY <1>4 DEF ServeLoad
  <2>2. l.of = listed /\ listed' = listed
    BY <1>4 DEF ForTheSelection, ServeLoad
  <2>3. PICK new : panelLoad' = {new} /\ new.answer = {GetRecords(listed)}
    BY <2>1, <2>2, LoadServed
  <2>4. GetRecords(listed)' = GetRecords(listed)
    BY <1>4, <2>2, RecordsStay DEF ServeLoad, GetRecords
  <2> QED
    BY <2>3, <2>4 DEF ListKept
<1>5. ASSUME LoadAnswered
      PROVE  ListKept'
  <2>1. PICK l \in panelLoad : l.answer # {} /\ recent' \in l.answer /\ panelLoad' = {}
    BY <1>5 DEF LoadAnswered
  <2>2. \A k \in panelLoad : k = l
    BY DEF ForTheSelection
  <2>3. UNCHANGED <<records, listed, refreshing, adds, correction, events>>
    BY <1>5 DEF LoadAnswered, modalVars, liveVars
  <2>4. GetRecords(listed)' = GetRecords(listed)
    BY <2>3 DEF GetRecords
  <2>5. CASE Excused
    BY <1>5, <2>5 DEF LoadAnswered, ListKept, Excused
  <2>6. CASE ListOwed
    BY <2>1, <2>2, <2>3, <2>6 DEF ListKept, ListOwed, Concerns
  <2>7. CASE l.answer = {GetRecords(listed)}
    BY <2>1, <2>4, <2>7 DEF ListKept
  <2> QED
    BY <2>5, <2>6, <2>7 DEF ListKept
<1>6. ASSUME CancelEntry \/ CloseCorrection \/ HandleSubmit \/ ThrottleEnds
      PROVE  ListKept'
  BY <1>6, RecordsStay DEF CancelEntry, CloseCorrection, HandleSubmit, ThrottleEnds, ClosedEntry, ClosedCorrection,
     ListKept, panelVars, modalVars, overviewVars, liveVars, ListOwed, Excused, Concerns
<1>7. ASSUME SubmitManualEntry
      PROVE  ListKept'
  BY <1>7, RecordsStay DEF SubmitManualEntry, ListKept, panelVars, modalVars, overviewVars, liveVars, ListOwed,
     Excused, Concerns
<1>8. ASSUME NEW m \in PanelGroups, HandleManualEntry(m)
      PROVE  ListKept'
  BY <1>8, RecordsStay DEF HandleManualEntry, ListKept, panelVars, modalVars, overviewVars, liveVars, ListOwed,
     Excused, Concerns
<1>9. ASSUME NEW t \in adds, ServeAdd(t)
      PROVE  ListKept'
  BY <1>9, AddServed DEF ListKept, ListOwed
<1>10. ASSUME NEW t \in adds, AddAnswered(t) \/ AddDone(t) \/ AddFails(t)
      PROVE  ListKept'
  BY <1>10, RecordsStay DEF AddAnswered, AddDone, AddFails, RefreshAttendanceData, ClosedEntry, ListKept, panelVars,
     modalVars, overviewVars, liveVars, ListOwed, Excused, Concerns
<1>11. ASSUME NEW r \in Visible, OpenCorrection(r)
      PROVE  ListKept'
  BY <1>11, RecordsStay DEF OpenCorrection, Visible, ListKept, panelVars, modalVars, overviewVars, liveVars,
     ListOwed, Excused, Concerns
<1>12. ASSUME ServeVoid
      PROVE  ListKept'
  BY <1>12, RecordsStay DEF ServeVoid, ListKept, panelVars, modalVars, overviewVars, liveVars, ListOwed, Excused,
     Concerns
<1>13. ASSUME VoidAnswered
      PROVE  ListKept'
  BY <1>13, RecordsStay DEF VoidAnswered, RefreshAttendanceData, VoidTask, ListKept, panelVars, modalVars,
     overviewVars, liveVars, ListOwed, Excused, Concerns
<1>14. ASSUME VoidRefreshed
      PROVE  ListKept'
  BY <1>14, RecordsStay DEF VoidRefreshed, FetchOverviewData, ListKept, panelVars, modalVars, overviewVars,
     liveVars, ListOwed, Excused, Concerns
<1>15. ASSUME VoidFails
      PROVE  ListKept'
  BY <1>15, RecordsStay DEF VoidFails, ListKept, panelVars, modalVars, overviewVars, liveVars, ListOwed, Excused,
     Concerns
<1>16. ASSUME NEW g \in PanelGroups, OpenOverview(g)
      PROVE  ListKept'
  BY <1>16, RecordsStay DEF OpenOverview, FetchOverviewData, ListKept, panelVars, modalVars, overviewVars, liveVars,
     ListOwed, Excused, Concerns
<1>17. ASSUME NEW f \in overviewAsked, OverviewAnswered(f)
      PROVE  ListKept'
  <2>1. correction.at = "stored" => correction'.at = "stored"
    BY <1>17 DEF OverviewAnswered, Ends, OwnOverview
  <2> QED
    BY <1>17, <2>1, RecordsStay DEF OverviewAnswered, ListKept, ListOwed, Excused, Concerns, panelVars, liveVars
<1>18. ASSUME NEW f \in overviewAsked, OverviewFails(f)
      PROVE  ListKept'
  <2>1. correction.at = "stored" => correction'.at = "stored"
    BY <1>18 DEF OverviewFails, Ends, OwnOverview
  <2> QED
    BY <1>18, <2>1, RecordsStay DEF OverviewFails, ListKept, ListOwed, Excused, Concerns, panelVars, liveVars
<1>19. ASSUME NEW m \in PanelGroups, ScanMember(m)
      PROVE  ListKept'
  <2>1. UNCHANGED <<listed, recent, panelError, refreshing, panelLoad, adds, correction, listOutdated>>
    BY <1>19 DEF ScanMember, modalVars
  <2>2. CASE UNCHANGED <<records, events>>
    BY <2>1, <2>2, RecordsStay DEF ListKept, ListOwed, Excused, Concerns
  <2>3. CASE records' = records \cup {NewRecord(m)} /\ events' = Append(events, m)
    <3>1. DOMAIN events' = 1 .. Len(events) + 1 /\ events'[Len(events) + 1] = m /\ Len(events) \in Nat
          /\ \A i \in DOMAIN events : i \in DOMAIN events' /\ events'[i] = events[i]
      BY <2>3 DEF AttendanceTypeOK, EventsTyped
    <3>2. CASE Concerns(m)
      <4>1. \E i \in DOMAIN events' : InSelection(events'[i], listed')
        BY <2>1, <3>1, <3>2 DEF Concerns
      <4> QED
        BY <4>1 DEF ListKept, ListOwed, Concerns
    <3>3. CASE ~Concerns(m)
      <4>1. GetRecords(listed)' = GetRecords(listed)
        BY <2>1, <2>3, <3>3, RecordAdded DEF Concerns
      <4>2. ListOwed => ListOwed'
        BY <2>1, <3>1 DEF ListOwed, Concerns
      <4> QED
        BY <2>1, <4>1, <4>2 DEF ListKept, Excused
    <3> QED
      BY <3>2, <3>3
  <2> QED
    BY <1>19, <2>2, <2>3 DEF ScanMember
<1>20. ASSUME AttendanceEvent
      PROVE  ListKept'
  <2>1. UNCHANGED <<records, listed, recent, panelError, panelLoad, adds, correction, listOutdated>>
    BY <1>20 DEF AttendanceEvent, modalVars
  <2>2. CASE Concerns(Head(events))
    BY <1>20, <2>2 DEF AttendanceEvent, RefreshAttendanceData, ListKept, ListOwed
  <2>3. CASE ~Concerns(Head(events)) /\ refreshing' = refreshing
    <3>1. events # <<>> /\ events' = Tail(events)
      BY <1>20 DEF AttendanceEvent
    <3>2. ListOwed => ListOwed'
      BY <2>1, <2>3, <3>1, EventPasses
    <3> QED
      BY <2>1, <3>2, RecordsStay DEF ListKept, Excused
  <2> QED
    BY <1>20, <2>2, <2>3 DEF AttendanceEvent
<1> QED
  BY <1>1, <1>2, <1>3, <1>4, <1>5, <1>6, <1>7, <1>8, <1>9, <1>10, <1>11, <1>12, <1>13, <1>14, <1>15, <1>16, <1>17,
     <1>18, <1>19, <1>20
     DEF AttendanceNext, PanelLoads, Entries, Corrections, Overviews

\* Nothing is learned of a group.
LEMMA OverviewUndisturbed ==
    ASSUME OverviewKept, UNCHANGED <<records, listed, overview, overviewAsked, newest>>, ListWaits => ListWaits'
    PROVE  OverviewKept'
<1>1. PICK last \in [PanelGroups -> Nat] : SnapshotsHold(last) /\ OverviewInTime(last)
  BY DEF OverviewKept
<1>2. SnapshotsHold(last)'
  BY <1>1, RecordsStay DEF SnapshotsHold
<1>3. OverviewInTime(last)'
  BY <1>1 DEF OverviewInTime
<1> QED
  BY <1>2, <1>3 DEF OverviewKept

LEMMA OverviewWaits ==
    ASSUME OverviewKept, UNCHANGED <<records, overview, overviewAsked>>, ListWaits'
    PROVE  OverviewKept'
<1>1. PICK last \in [PanelGroups -> Nat] : SnapshotsHold(last)
  BY DEF OverviewKept
<1>2. SnapshotsHold(last)'
  BY <1>1, RecordsStay DEF SnapshotsHold
<1>3. OverviewInTime(last)'
  BY DEF OverviewInTime
<1> QED
  BY <1>2, <1>3 DEF OverviewKept

\* A group's list is asked for.
LEMMA OverviewIsAsked ==
    ASSUME AttendanceTypeOK, OverviewKept, UNCHANGED <<records, listed, overview, newest>>,
           NEW g \in PanelGroups, NEW own, FetchOverviewData(g, own), ListWaits => ListWaits' \/ g = listed
    PROVE  OverviewKept'
<1>1. PICK last \in [PanelGroups -> Nat] : SnapshotsHold(last) /\ OverviewInTime(last)
  BY DEF OverviewKept
<1>2. PICK f : overviewAsked' = overviewAsked \cup {f} /\ f.of = g /\ f.early = Overview(g)
  BY OverviewAsked
<1>3. f.early.knows = Changes /\ f.early.list = GetRecords(g) /\ Changes \in Nat /\ last[g] <= Changes
  BY <1>1, <1>2, ChangesCounted DEF Overview, SnapshotsHold
<1>4. SnapshotsHold(last)'
  BY <1>1, <1>2, <1>3, RecordsStay DEF SnapshotsHold
<1>5. OverviewInTime(last)'
  BY <1>1, <1>2, <1>3 DEF OverviewInTime
<1> QED
  BY <1>4, <1>5 DEF OverviewKept

\* An entry changes: what was known before does not count, and the panel will
\* ask anew.
LEMMA OverviewOutdated ==
    ASSUME AttendanceTypeOK, OverviewKept, UNCHANGED <<overview, overviewAsked>>,
           Changes' \in Nat, Changes < Changes', ListWaits'
    PROVE  OverviewKept'
<1>1. PICK last \in [PanelGroups -> Nat] : SnapshotsHold(last)
  BY DEF OverviewKept
<1>2. PICK now \in Nat : now = Changes'
  OBVIOUS
<1>3. PICK new \in [PanelGroups -> Nat] : \A g \in PanelGroups : new[g] = now
  <2>1. [g \in PanelGroups |-> now] \in [PanelGroups -> Nat]
    OBVIOUS
  <2> QED
    BY <2>1
<1>4. \A k \in Int : k <= Changes => k <= now /\ ~(k >= now)
  BY <1>2, ChangesCounted
<1>5. \A g \in PanelGroups : overview[g].knows \in Int
  BY DEF AttendanceTypeOK, OverviewTyped, Snapshots
<1>6. \A f \in overviewAsked : f.early.knows \in Int /\ f.of \in PanelGroups
  BY DEF AttendanceTypeOK, OverviewTyped, Snapshots
<1>7. SnapshotsHold(new)'
  <2>1. \A g \in PanelGroups : new[g] <= Changes'
    BY <1>2, <1>3
  <2>2. \A g \in PanelGroups : overview'[g].knows <= Changes' /\ ~(overview'[g].knows >= new[g])
    BY <1>1, <1>2, <1>3, <1>4, <1>5 DEF SnapshotsHold
  <2>3. \A f \in overviewAsked' : f.early.knows <= Changes' /\ ~(f.early.knows >= new[f.of])
    BY <1>1, <1>2, <1>3, <1>4, <1>6 DEF SnapshotsHold
  <2> QED
    BY <2>1, <2>2, <2>3 DEF SnapshotsHold
<1>8. OverviewInTime(new)'
  BY DEF OverviewInTime
<1> QED
  BY <1>7, <1>8 DEF OverviewKept

\* A member of another group is recorded: only that group's list changes.
LEMMA OtherGroupChanges ==
    ASSUME AttendanceTypeOK, Numbered, OverviewKept, UNCHANGED <<listed, overview, overviewAsked, newest>>,
           NEW m \in PanelGroups, m # listed, records' = records \cup {NewRecord(m)}, ListWaits => ListWaits'
    PROVE  OverviewKept'
<1>1. PICK last \in [PanelGroups -> Nat] : SnapshotsHold(last) /\ OverviewInTime(last)
  BY DEF OverviewKept
<1>2. PICK now \in Nat : now = Changes'
  BY RecordAdded
<1>3. PICK new \in [PanelGroups -> Nat] : new[m] = now /\ \A g \in PanelGroups \ {m} : new[g] = last[g]
  <2>1. [last EXCEPT ![m] = now] \in [PanelGroups -> Nat]
    OBVIOUS
  <2>2. /\ [last EXCEPT ![m] = now][m] = now
        /\ \A g \in PanelGroups \ {m} : [last EXCEPT ![m] = now][g] = last[g]
    OBVIOUS
  <2> QED
    BY <2>1, <2>2
<1>4. \A k \in Int : k <= Changes => k <= now /\ ~(k >= now)
  BY <1>2, ChangesCounted, RecordAdded
<1>5. \A g \in PanelGroups : overview[g].knows \in Int
  BY DEF AttendanceTypeOK, OverviewTyped, Snapshots
<1>6. \A f \in overviewAsked : f.early.knows \in Int /\ f.of \in PanelGroups
  BY DEF AttendanceTypeOK, OverviewTyped, Snapshots
<1>7. \A g \in PanelGroups \ {m} : GetRecords(g)' = GetRecords(g)
  BY RecordAdded, PanelAssumption DEF InSelection
<1>8. \A g \in PanelGroups : new[g] <= now
  BY <1>1, <1>3, <1>4 DEF SnapshotsHold
<1>9. \A g \in PanelGroups : /\ overview[g].knows <= now
                             /\ overview[g].knows >= new[g] => overview[g].list = GetRecords(g)'
  <2> SUFFICES ASSUME NEW g \in PanelGroups
               PROVE  /\ overview[g].knows <= now
                      /\ overview[g].knows >= new[g] => overview[g].list = GetRecords(g)'
    OBVIOUS
  <2>1. overview[g].knows <= now /\ ~(overview[g].knows >= now)
    BY <1>1, <1>4, <1>5 DEF SnapshotsHold
  <2>2. CASE g = m
    BY <1>3, <2>1, <2>2
  <2>3. CASE g # m
    BY <1>1, <1>3, <1>7, <2>1, <2>3 DEF SnapshotsHold
  <2> QED
    BY <2>2, <2>3
<1>10. \A f \in overviewAsked : /\ f.early.knows <= now
                                /\ f.early.knows >= new[f.of] => f.early.list = GetRecords(f.of)'
  <2> SUFFICES ASSUME NEW f \in overviewAsked
               PROVE  /\ f.early.knows <= now
                      /\ f.early.knows >= new[f.of] => f.early.list = GetRecords(f.of)'
    OBVIOUS
  <2>1. f.early.knows <= now /\ ~(f.early.knows >= now) /\ f.of \in PanelGroups
    BY <1>1, <1>4, <1>6 DEF SnapshotsHold
  <2>2. CASE f.of = m
    BY <1>3, <2>1, <2>2
  <2>3. CASE f.of # m
    BY <1>1, <1>3, <1>7, <2>1, <2>3 DEF SnapshotsHold
  <2> QED
    BY <2>2, <2>3
<1>11. SnapshotsHold(new)'
  BY <1>2, <1>8, <1>9, <1>10 DEF SnapshotsHold
<1>12. OverviewInTime(new)'
  BY <1>1, <1>3 DEF OverviewInTime
<1> QED
  BY <1>11, <1>12 DEF OverviewKept

LEMMA OverviewKeptStays ==
    ASSUME AttendanceTypeOK, Numbered, NamesExist, ForTheSelection, OwnOverview, OverviewKept, AttendanceNext
    PROVE  OverviewKept'
<1>1. ASSUME NEW s \in Selections, HandleSelectGroup(s)
      PROVE  OverviewKept'
  BY <1>1, OverviewWaits DEF HandleSelectGroup, Loads, ListWaits, Excused, modalVars, overviewVars
<1>2. ASSUME Retry
      PROVE  OverviewKept'
  BY <1>2, OverviewUndisturbed DEF Retry, RefreshAttendanceData, ListWaits, ListOwed, Excused, Concerns, panelVars,
     modalVars, overviewVars, liveVars
<1>3. ASSUME SkeletonTimer
      PROVE  OverviewKept'
  BY <1>3, OverviewUndisturbed DEF SkeletonTimer, ListWaits, ListOwed, Excused, Concerns, panelVars, modalVars,
     overviewVars, liveVars
<1>4. ASSUME GroupsAnswered
      PROVE  OverviewKept'
  BY <1>4, OverviewWaits DEF GroupsAnswered, Loads, ListWaits, Excused, modalVars, overviewVars
<1>5. ASSUME GroupsFail
      PROVE  OverviewKept'
  BY <1>5, OverviewUndisturbed DEF GroupsFail, ListWaits, ListOwed, Excused, Concerns, panelVars, modalVars,
     overviewVars, liveVars
<1>6. ASSUME ServeLoad
      PROVE  OverviewKept'
  BY <1>6, OverviewUndisturbed DEF ServeLoad, ListWaits, ListOwed, Excused, Concerns, panelVars, modalVars,
     overviewVars, liveVars
<1>7. ASSUME LoadAnswered
      PROVE  OverviewKept'
  <2>1. PICK l \in panelLoad : IF l.of \in PanelGroups THEN FetchOverviewData(l.of, FALSE) ELSE UNCHANGED overviewAsked
    BY <1>7 DEF LoadAnswered
  <2>2. l.of = listed
    BY DEF ForTheSelection
  <2>3. UNCHANGED <<records, listed, overview, newest>>
    BY <1>7 DEF LoadAnswered
  <2>4. CASE listed \in PanelGroups
    <3>1. FetchOverviewData(listed, FALSE)
      BY <2>1, <2>2, <2>4
    <3> QED
      BY <2>3, <2>4, <3>1, OverviewIsAsked
  <2>5. CASE listed \notin PanelGroups
    <3>1. UNCHANGED overviewAsked
      BY <2>1, <2>2, <2>5
    <3>2. PICK last \in [PanelGroups -> Nat] : SnapshotsHold(last)
      BY DEF OverviewKept
    <3>3. SnapshotsHold(last)'
      BY <2>3, <3>1, <3>2, RecordsStay DEF SnapshotsHold
    <3> QED
      BY <2>3, <2>5, <3>3 DEF OverviewKept, OverviewInTime
  <2> QED
    BY <2>4, <2>5
<1>8. ASSUME LoadFails
      PROVE  OverviewKept'
  BY <1>8, OverviewUndisturbed DEF LoadFails, ListWaits, ListOwed, Excused, Concerns, panelVars, modalVars,
     overviewVars, liveVars
<1>9. ASSUME OpenEntry
      PROVE  OverviewKept'
  BY <1>9, OverviewUndisturbed DEF OpenEntry, ListWaits, ListOwed, Excused, Concerns, panelVars, modalVars,
     overviewVars, liveVars
<1>10. ASSUME CancelEntry
      PROVE  OverviewKept'
  BY <1>10, OverviewUndisturbed DEF CancelEntry, ListWaits, ListOwed, Excused, Concerns, panelVars, modalVars,
     overviewVars, liveVars
<1>11. ASSUME SubmitManualEntry
      PROVE  OverviewKept'
  BY <1>11, OverviewUndisturbed DEF SubmitManualEntry, ListWaits, ListOwed, Excused, Concerns, panelVars, modalVars,
     overviewVars, liveVars
<1>12. ASSUME NEW m \in PanelGroups, HandleManualEntry(m)
      PROVE  OverviewKept'
  BY <1>12, OverviewUndisturbed DEF HandleManualEntry, ListWaits, ListOwed, Excused, Concerns, panelVars, modalVars,
     overviewVars, liveVars
<1>13. ASSUME NEW t \in adds, ServeAdd(t)
      PROVE  OverviewKept'
  <2>1. Changes' \in Nat /\ Changes < Changes'
    BY <1>13, AddMoves, RecordAdded DEF ServeAdd
  <2> QED
    BY <1>13, <2>1, AddServed, OverviewOutdated DEF ServeAdd, ListWaits, ListOwed, overviewVars
<1>14. ASSUME NEW t \in adds, AddAnswered(t)
      PROVE  OverviewKept'
  BY <1>14, OverviewUndisturbed DEF AddAnswered, RefreshAttendanceData, ListWaits, ListOwed, Excused, Concerns,
     panelVars, modalVars, overviewVars, liveVars
<1>15. ASSUME NEW t \in adds, AddDone(t)
      PROVE  OverviewKept'
  BY <1>15, OverviewUndisturbed DEF AddDone, ListWaits, ListOwed, Excused, Concerns, panelVars, modalVars,
     overviewVars, liveVars
<1>16. ASSUME NEW t \in adds, AddFails(t)
      PROVE  OverviewKept'
  BY <1>16, OverviewUndisturbed DEF AddFails, ListWaits, ListOwed, Excused, Concerns, panelVars, modalVars,
     overviewVars, liveVars
<1>17. ASSUME NEW r \in Visible, OpenCorrection(r)
      PROVE  OverviewKept'
  BY <1>17, OverviewUndisturbed DEF OpenCorrection, ListWaits, ListOwed, Excused, Concerns, panelVars, modalVars,
     overviewVars, liveVars
<1>18. ASSUME CloseCorrection
      PROVE  OverviewKept'
  BY <1>18, OverviewUndisturbed DEF CloseCorrection, ListWaits, ListOwed, Excused, Concerns, panelVars, modalVars,
     overviewVars, liveVars
<1>19. ASSUME HandleSubmit
      PROVE  OverviewKept'
  BY <1>19, OverviewUndisturbed DEF HandleSubmit, ListWaits, ListOwed, Excused, Concerns, panelVars, modalVars,
     overviewVars, liveVars
<1>20. ASSUME ServeVoid
      PROVE  OverviewKept'
  <2>1. Changes' \in Nat /\ Changes < Changes'
    BY <1>20, RecordVoided
  <2>2. correction'.at = "stored"
    BY <1>20 DEF ServeVoid, AttendanceTypeOK, DialogsTyped, Voidings
  <2> QED
    BY <1>20, <2>1, <2>2, OverviewOutdated DEF ServeVoid, ListWaits, ListOwed, overviewVars
<1>21. ASSUME VoidAnswered
      PROVE  OverviewKept'
  BY <1>21, OverviewUndisturbed DEF VoidAnswered, RefreshAttendanceData, ListWaits, ListOwed, Excused, Concerns,
     panelVars, modalVars, overviewVars, liveVars
<1>22. ASSUME VoidRefreshed
      PROVE  OverviewKept'
  <2>1. PICK g \in PanelGroups : FetchOverviewData(g, TRUE)
    BY <1>22, VoidedExists DEF VoidRefreshed, AttendanceTypeOK, ListTyped, Records
  <2>2. ListWaits => ListWaits'
    BY <1>22 DEF VoidRefreshed, ListWaits, ListOwed, Excused, Concerns, panelVars, liveVars
  <2> QED
    BY <1>22, <2>1, <2>2, OverviewIsAsked DEF VoidRefreshed, panelVars
<1>23. ASSUME VoidFails
      PROVE  OverviewKept'
  BY <1>23, OverviewUndisturbed DEF VoidFails, ListWaits, ListOwed, Excused, Concerns, panelVars, modalVars,
     overviewVars, liveVars
<1>24. ASSUME NEW g \in PanelGroups, OpenOverview(g)
      PROVE  OverviewKept'
  <2>1. ListWaits => ListWaits'
    BY <1>24 DEF OpenOverview, ListWaits, ListOwed, Excused, Concerns, panelVars, modalVars, liveVars
  <2> QED
    BY <1>24, <2>1, OverviewIsAsked DEF OpenOverview, panelVars
<1>25. ASSUME NEW f \in overviewAsked, OverviewAnswered(f)
      PROVE  OverviewKept'
  <2>1. PICK last \in [PanelGroups -> Nat] : SnapshotsHold(last) /\ OverviewInTime(last)
    BY DEF OverviewKept
  <2>2. PICK a \in {f.early, Overview(f.of)} :
            /\ overview' = [overview EXCEPT ![f.of] = a]
            /\ newest' = [newest EXCEPT ![f.of] = IF newest[f.of] < a.knows THEN a.knows ELSE newest[f.of]]
    BY <1>25 DEF OverviewAnswered
  <2>3. f.of \in PanelGroups /\ f.early.knows \in Int /\ Changes \in Nat
    BY ChangesCounted DEF AttendanceTypeOK, OverviewTyped, Snapshots
  <2>4. Overview(f.of).knows = Changes /\ Overview(f.of).list = GetRecords(f.of) /\ last[f.of] <= Changes
    BY <2>1, <2>3 DEF Overview, SnapshotsHold
  <2>5. /\ a.knows \in Int /\ a.knows <= Changes
        /\ a.knows >= last[f.of] => a.list = GetRecords(f.of)
        /\ f.early.knows >= last[f.of] => a.knows >= last[f.of]
    BY <2>1, <2>2, <2>3, <2>4 DEF SnapshotsHold
  <2>6. UNCHANGED <<records, listed>> /\ overviewAsked' = overviewAsked \ {f}
    BY <1>25 DEF OverviewAnswered, Ends, panelVars
  <2>7. overview'[f.of] = a /\ \A g \in PanelGroups \ {f.of} : overview'[g] = overview[g]
    BY <2>2, <2>3 DEF AttendanceTypeOK, OverviewTyped
  <2>8. /\ newest'[f.of] >= newest[f.of] /\ newest'[f.of] >= a.knows /\ newest[f.of] \in Int /\ newest'[f.of] \in Int
        /\ \A g \in PanelGroups \ {f.of} : newest'[g] = newest[g]
    <3>1. PICK most : most = IF newest[f.of] < a.knows THEN a.knows ELSE newest[f.of]
      OBVIOUS
    <3>2. newest[f.of] \in Int /\ newest \in [PanelGroups -> Int]
      BY <2>3 DEF AttendanceTypeOK, OverviewTyped
    <3>3. most \in Int /\ most >= newest[f.of] /\ most >= a.knows
      BY <2>5, <3>1, <3>2
    <3>4. newest' = [newest EXCEPT ![f.of] = most]
      BY <2>2, <3>1
    <3> QED
      BY <2>3, <3>2, <3>3, <3>4
  <2>9. SnapshotsHold(last)'
    <3>1. \A g \in PanelGroups : overview'[g].knows <= Changes /\ (overview'[g].knows >= last[g] => overview'[g].list = GetRecords(g))
      BY <2>1, <2>5, <2>7 DEF SnapshotsHold
    <3> QED
      BY <2>1, <2>6, <3>1, RecordsStay DEF SnapshotsHold
  <2>10. ListWaits => ListWaits'
    <3>1. correction.at = "stored" => correction'.at = "stored"
      BY <1>25 DEF OverviewAnswered, Ends, OwnOverview
    <3> QED
      BY <1>25, <3>1 DEF OverviewAnswered, ListWaits, ListOwed, Excused, Concerns, panelVars, liveVars
  <2>11. OverviewInTime(last)'
    <3> SUFFICES ASSUME listed \in PanelGroups, ~ListWaits
                 PROVE  \/ \E h \in overviewAsked' : h.of = listed /\ h.early.knows >= last[listed]
                        \/ newest'[listed] >= last[listed]
      BY <2>6, <2>10 DEF OverviewInTime
    <3>1. CASE newest[listed] >= last[listed]
      BY <2>8, <3>1
    <3>2. ASSUME NEW h \in overviewAsked, h.of = listed, h.early.knows >= last[listed]
          PROVE  h \in overviewAsked' \/ newest'[listed] >= last[listed]
      <4>1. CASE h # f
        BY <2>6, <4>1
      <4>2. CASE h = f
        <5>1. a.knows >= last[listed] /\ newest'[listed] >= a.knows /\ last[listed] \in Nat
          BY <2>5, <2>8, <3>2, <4>2
        <5> QED
          BY <2>5, <2>8, <3>2, <4>2, <5>1
      <4> QED
        BY <4>1, <4>2
    <3> QED
      BY <2>1, <3>1, <3>2 DEF OverviewInTime
  <2> QED
    BY <2>9, <2>11 DEF OverviewKept
<1>26. ASSUME NEW f \in overviewAsked, OverviewFails(f)
      PROVE  OverviewKept'
  <2>1. PICK last \in [PanelGroups -> Nat] : SnapshotsHold(last) /\ OverviewInTime(last)
    BY DEF OverviewKept
  <2>2. f.of \in PanelGroups /\ Changes \in Nat /\ last[f.of] <= Changes
    BY <2>1, ChangesCounted DEF AttendanceTypeOK, OverviewTyped, SnapshotsHold
  <2>3. UNCHANGED <<records, listed>> /\ overviewAsked' = overviewAsked \ {f}
    BY <1>26 DEF OverviewFails, Ends, panelVars
  <2>4. overview'[f.of].knows = -1 /\ \A g \in PanelGroups \ {f.of} : overview'[g] = overview[g]
    BY <1>26, <2>2 DEF OverviewFails, Unfetched, AttendanceTypeOK, OverviewTyped
  <2>5. newest'[f.of] = Changes /\ \A g \in PanelGroups \ {f.of} : newest'[g] = newest[g]
    BY <1>26, <2>2 DEF OverviewFails, AttendanceTypeOK, OverviewTyped
  <2>6. SnapshotsHold(last)'
    BY <2>1, <2>2, <2>3, <2>4, RecordsStay DEF SnapshotsHold
  <2>7. ListWaits => ListWaits'
    <3>1. correction.at = "stored" => correction'.at = "stored"
      BY <1>26 DEF OverviewFails, Ends, OwnOverview
    <3> QED
      BY <1>26, <3>1 DEF OverviewFails, ListWaits, ListOwed, Excused, Concerns, panelVars, liveVars
  <2>8. OverviewInTime(last)'
    BY <2>1, <2>2, <2>3, <2>5, <2>7 DEF OverviewInTime
  <2> QED
    BY <2>6, <2>8 DEF OverviewKept
<1>27. ASSUME NEW m \in PanelGroups, ScanMember(m)
      PROVE  OverviewKept'
  <2>1. UNCHANGED <<listed, panelError, refreshing, panelLoad, adds, correction, listOutdated, overview, overviewAsked, newest>>
    BY <1>27 DEF ScanMember, modalVars, overviewVars
  <2>2. CASE UNCHANGED <<records, events>>
    BY <2>1, <2>2, OverviewUndisturbed DEF ListWaits, ListOwed, Excused, Concerns
  <2>3. CASE records' = records \cup {NewRecord(m)} /\ events' = Append(events, m)
    <3>1. DOMAIN events' = 1 .. Len(events) + 1 /\ events'[Len(events) + 1] = m /\ Len(events) \in Nat
          /\ \A i \in DOMAIN events : i \in DOMAIN events' /\ events'[i] = events[i]
      BY <2>3 DEF AttendanceTypeOK, EventsTyped
    <3>2. CASE Concerns(m)
      <4>1. \E i \in DOMAIN events' : InSelection(events'[i], listed)
        BY <3>1, <3>2 DEF Concerns
      <4>2. ListWaits'
        BY <2>1, <4>1 DEF ListWaits, ListOwed, Concerns
      <4>3. Changes' \in Nat /\ Changes < Changes'
        BY <2>3, RecordAdded
      <4> QED
        BY <2>1, <4>2, <4>3, OverviewOutdated
    <3>3. CASE ~Concerns(m)
      <4>1. m # listed
        BY <3>3 DEF Concerns, InSelection
      <4>2. ListWaits => ListWaits'
        BY <2>1, <3>1 DEF ListWaits, ListOwed, Excused, Concerns
      <4> QED
        BY <2>1, <2>3, <4>1, <4>2, OtherGroupChanges
    <3> QED
      BY <3>2, <3>3
  <2> QED
    BY <1>27, <2>2, <2>3 DEF ScanMember
<1>28. ASSUME ThrottleEnds
      PROVE  OverviewKept'
  BY <1>28, OverviewUndisturbed DEF ThrottleEnds, ListWaits, ListOwed, Excused, Concerns, panelVars, modalVars,
     overviewVars, liveVars
<1>29. ASSUME AttendanceEvent
      PROVE  OverviewKept'
  <2>1. UNCHANGED <<records, listed, panelError, panelLoad, adds, correction, listOutdated, overview, overviewAsked, newest>>
    BY <1>29 DEF AttendanceEvent, modalVars, overviewVars
  <2>2. CASE Concerns(Head(events))
    BY <1>29, <2>1, <2>2, OverviewWaits DEF AttendanceEvent, RefreshAttendanceData, ListWaits, ListOwed
  <2>3. CASE ~Concerns(Head(events)) /\ refreshing' = refreshing
    <3>1. events # <<>> /\ events' = Tail(events)
      BY <1>29 DEF AttendanceEvent
    <3>2. ListOwed => ListOwed'
      BY <2>1, <2>3, <3>1, EventPasses
    <3> QED
      BY <2>1, <3>2, OverviewUndisturbed DEF ListWaits, Excused
  <2> QED
    BY <1>29, <2>2, <2>3 DEF AttendanceEvent
<1> QED
  BY <1>1, <1>2, <1>3, <1>4, <1>5, <1>6, <1>7, <1>8, <1>9, <1>10, <1>11, <1>12, <1>13, <1>14, <1>15, <1>16, <1>17,
     <1>18, <1>19, <1>20, <1>21, <1>22, <1>23, <1>24, <1>25, <1>26, <1>27, <1>28, <1>29
     DEF AttendanceNext, PanelLoads, Entries, Corrections, Overviews

LEMMA AttendanceStarts == AttendanceInit => AttendanceInv
<1> SUFFICES ASSUME AttendanceInit
             PROVE  AttendanceInv
  OBVIOUS
<1>1. records \subseteq Records /\ IsFiniteSet(records) /\ Numbered
  <2>1. CASE records = {}
    BY <2>1, FS_EmptySet DEF Numbered
  <2>2. CASE \E g \in PanelGroups : records = {[id |-> 1, of |-> g, voided |-> FALSE]}
    <3> SUFFICES ASSUME NEW g \in PanelGroups, records = {[id |-> 1, of |-> g, voided |-> FALSE]}
                 PROVE  records \subseteq Records /\ IsFiniteSet(records) /\ Numbered
      BY <2>2
    <3>1. PICK r : r = [id |-> 1, of |-> g, voided |-> FALSE]
      OBVIOUS
    <3>2. r \in Records /\ r.id = 1
      BY <3>1 DEF Records
    <3>3. records = {r}
      BY <3>1, Zenon
    <3>4. IsFiniteSet(records) /\ Cardinality(records) = 1
      BY <3>3, FS_Singleton
    <3> QED
      BY <3>2, <3>3, <3>4 DEF Numbered
  <2> QED
    BY <2>1, <2>2 DEF AttendanceInit
<1>2. \A s : GetRecords(s) \subseteq Records /\ \A r \in GetRecords(s) : Exists(r.id)
  BY <1>1 DEF GetRecords, Exists
<1>3. ListTyped
  BY <1>1, <1>2 DEF ListTyped, AttendanceInit
<1>4. DialogsTyped
  BY DEF DialogsTyped, AttendanceInit, ClosedEntry, ClosedCorrection, Voidings, Selections
<1>5. Changes \in Nat
  <2>1. Changes = Cardinality(records) + Cardinality(VoidsOf(records))
    BY ChangesAre
  <2> QED
    BY <1>1, <2>1, VoidsCounted
<1>6. \A g : Overview(g) \in Snapshots /\ Overview(g).knows = Changes /\ Overview(g).list = GetRecords(g)
  BY <1>2, <1>5 DEF Overview, Snapshots
<1>7. OverviewTyped
  BY <1>5, <1>6 DEF OverviewTyped, AttendanceInit
<1>8. AttendanceTypeOK
  BY <1>3, <1>4, <1>7 DEF AttendanceTypeOK, EventsTyped, AttendanceInit
<1>9. NamesExist
  BY <1>2 DEF NamesExist, AttendanceInit, ClosedCorrection
<1>10. ForTheSelection /\ OwnOverview /\ ListKept
  BY DEF ForTheSelection, OwnOverview, ListKept, AttendanceInit
<1>11. OverviewKept
  <2>1. PICK last \in [PanelGroups -> Nat] : \A g \in PanelGroups : last[g] = 0
    <3>1. [g \in PanelGroups |-> 0] \in [PanelGroups -> Nat]
      OBVIOUS
    <3> QED
      BY <3>1
  <2>2. SnapshotsHold(last)
    BY <1>5, <1>6, <2>1 DEF SnapshotsHold, AttendanceInit
  <2>3. OverviewInTime(last)
    BY <1>5, <2>1 DEF OverviewInTime, AttendanceInit
  <2> QED
    BY <2>2, <2>3 DEF OverviewKept
<1> QED
  BY <1>1, <1>8, <1>9, <1>10, <1>11 DEF AttendanceInv

LEMMA AttendanceRests == AttendanceInv /\ UNCHANGED attendanceVars => AttendanceInv'
<1> SUFFICES ASSUME AttendanceInv, UNCHANGED attendanceVars
             PROVE  AttendanceInv'
  OBVIOUS
<1> USE DEF AttendanceInv, attendanceVars, panelVars, modalVars, overviewVars, liveVars
<1>1. AttendanceTypeOK'
  BY DEF AttendanceTypeOK, EventsTyped, ListTyped, DialogsTyped, OverviewTyped
<1>2. Numbered' /\ ForTheSelection' /\ OwnOverview'
  BY DEF Numbered, ForTheSelection, OwnOverview
<1>3. NamesExist'
  BY RecordsStay DEF NamesExist
<1>4. ListKept'
  BY RecordsStay DEF ListKept, Excused, ListOwed, Concerns
<1>5. ListWaits => ListWaits'
  BY DEF ListWaits, Excused, ListOwed, Concerns
<1>6. OverviewKept'
  BY <1>5, OverviewUndisturbed
<1> QED
  BY <1>1, <1>2, <1>3, <1>4, <1>6

THEOREM AttendanceInductive == AttendanceSpec => []AttendanceInv
<1>1. AttendanceInv /\ [AttendanceNext]_attendanceVars => AttendanceInv'
  <2> SUFFICES ASSUME AttendanceInv, [AttendanceNext]_attendanceVars
               PROVE  AttendanceInv'
    OBVIOUS
  <2>1. CASE AttendanceNext
    <3>1. AttendanceTypeOK'
      BY <2>1, ListTypedKept, DialogsTypedKept, OverviewTypedKept, EventsTypedKept DEF AttendanceInv, AttendanceTypeOK
    <3>2. Numbered' /\ NamesExist' /\ ForTheSelection' /\ OwnOverview'
      BY <2>1, NumberedKept, NamesExistKept, ForTheSelectionKept, OwnOverviewKept DEF AttendanceInv
    <3>3. ListKept' /\ OverviewKept'
      BY <2>1, ListKeptStays, OverviewKeptStays DEF AttendanceInv
    <3> QED
      BY <3>1, <3>2, <3>3 DEF AttendanceInv
  <2> QED
    BY <2>1, AttendanceRests
<1> QED
  BY <1>1, AttendanceStarts, PTL DEF AttendanceSpec

\* Once nothing is under way and no error is shown, the panel lists what the
\* service has of the selection, and so does the overview of the group whose
\* newest answer it has (useAttendanceGroups.ts, fetchOverviewData): however
\* entries, voids, scans, selections and answers follow each other.
THEOREM ListsAreRight == AttendanceSpec => []AttendanceSettles
<1>1. AttendanceInv => AttendanceSettles
  <2> SUFFICES ASSUME AttendanceInv, AtRest, ~panelError, ~listOutdated
               PROVE  /\ Visible = GetRecords(listed)
                      /\ listed \in PanelGroups /\ overviewAsked = {} /\ overview[listed].knows >= newest[listed]
                         => OverviewShows(listed) = GetRecords(listed)
    BY DEF AttendanceSettles
  <2>1. ~ListOwed /\ panelLoad = {} /\ ~Excused
    BY DEF AtRest, ListOwed, Excused
  <2>2. Visible = GetRecords(listed)
    BY <2>1 DEF AttendanceInv, ListKept, ForTheSelection, Visible
  <2>3. ASSUME listed \in PanelGroups, overviewAsked = {}, overview[listed].knows >= newest[listed]
        PROVE  overview[listed].list = GetRecords(listed)
    <3>1. PICK last \in [PanelGroups -> Nat] : SnapshotsHold(last) /\ OverviewInTime(last)
      BY DEF AttendanceInv, OverviewKept
    <3>2. newest[listed] >= last[listed]
      BY <2>1, <2>3, <3>1 DEF OverviewInTime, ListWaits
    <3>3. newest[listed] \in Int /\ last[listed] \in Int /\ overview[listed].knows \in Int
      BY <2>3, <3>1 DEF AttendanceInv, AttendanceTypeOK, OverviewTyped, Snapshots
    <3>4. overview[listed].knows >= last[listed]
      BY <2>3, <3>2, <3>3
    <3> QED
      BY <2>3, <3>1, <3>4 DEF SnapshotsHold
  <2> QED
    BY <2>2, <2>3 DEF OverviewShows
<1> QED
  BY <1>1, AttendanceInductive, PTL

================================================================================

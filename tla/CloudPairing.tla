---------------------------- MODULE CloudPairing ----------------------------
(***************************************************************************)
(* Connecting this computer to a location in the cloud and disconnecting   *)
(* it: the page of the settings (Sync), its handlers in the main process   *)
(* (syncHandlers), what the renderer remembers of the connection           *)
(* (cloudSyncState), and starting, suspending and stopping the exchange.   *)
(*                                                                         *)
(* A handler is called from the page without delay and runs up to its      *)
(* first await; it waits as a task, is served by others, and replies to    *)
(* the page that called it if that page is still open.  The cloud is       *)
(* external: it hands out codes, which an administrator approves for one   *)
(* of its locations.  Of the exchange only what it copies is kept; the     *)
(* module CloudSync has the rest.  A device name and a server are one      *)
(* value here, what the page is to be saved for before it asks for a code. *)
(***************************************************************************)
EXTENDS Integers, Sequences, FiniteSets

CONSTANTS
    Servers,        \* clouds, the official one and custom ones
    Sites,          \* locations there are in the first of them
    Official,       \* the first of them
    OrgOf,          \* the organization of a location
    MaxCodes,       \* bound on codes, and on polls and handlers at once
    MaxSteps,       \* bound on what the user and the administrator do
    MaxFailures,    \* bound on failed requests and ends of the application
    Nobody          \* no location, organization, code

ASSUME PairingAssumption ==
    /\ Official \in Servers
    /\ Nobody \notin Sites
    /\ {MaxCodes, MaxSteps, MaxFailures} \subseteq Nat

VARIABLES
    store,      \* persistentStore: the location and whether the exchange is enabled
    origin,     \* sync.dataOrigin
    local,      \* what the local database holds: whose data, in which organization's scope
    manager,    \* BackgroundSyncManager: its timers run, and it is suspended
    exchange,   \* performSync: where it is, and the location it was started for
    tasks,      \* handlers that wait
    snap,       \* cloudSyncState's snapshot
    stale,      \* a refresh of it is under way
    sheetOpen,  \* the page Sync: what it shows
    codes,      \* external: the device codes
    copied,     \* history: whose data the exchange has sent to which location
    slips,      \* history: what makes the exceptions of the properties
    steps, failures

pairingVars == <<store, origin, local, manager, exchange, tasks, snap, stale, sheetOpen, codes, copied, slips,
                 steps, failures>>
page == sheetOpen

Step == steps < MaxSteps /\ steps' = steps + 1
Failing == failures < MaxFailures /\ failures' = failures + 1

(***************************************************************************)
(* Values.                                                                 *)
(***************************************************************************)
Connected == store.site # Nobody

\* getCurrentOrganizationId: the scope the local backend is asked in.
Scope(s) == IF s.site = Nobody THEN Nobody ELSE OrgOf[s.site]
InScope == {r \in local : r.scope = Scope(store)}

\* getRemoteSyncStatus, as far as the page looks at it.
Status == [ready |-> TRUE, connected |-> Connected, server |-> store.server]

NoPageOpen == [open |-> FALSE, draft |-> Official, code |-> Nobody, asking |-> FALSE,
               failed |-> FALSE, busy |-> FALSE]

Suspended == [running |-> FALSE, suspended |-> TRUE, again |-> FALSE]
Stopped == [manager EXCEPT !.running = FALSE, !.again = FALSE]

\* syncManager.start.
Running(s) == [running |-> s.enabled /\ s.site # Nobody, suspended |-> FALSE, again |-> FALSE]

NoExchange == [at |-> "idle", site |-> Nobody]
Begun == IF store.site = Nobody THEN NoExchange ELSE [at |-> "push", site |-> store.site]

\* performSync with the manager m: one that runs is followed by another.
Syncs(m) ==
    /\ exchange' = IF exchange.at = "idle" /\ ~m.suspended THEN Begun ELSE exchange
    /\ manager' = [m EXCEPT !.again = @ \/ (exchange.at # "idle" /\ ~m.suspended)]

\* The caller is answered at the end of the exchange it began, or at once.
Waits(m) == exchange.at = "idle" /\ ~m.suspended /\ Connected

ExchangeEnds ==
    /\ exchange' = IF manager.again /\ ~manager.suspended THEN Begun ELSE NoExchange
    /\ manager' = [manager EXCEPT !.again = FALSE]

(***************************************************************************)
(* The page and what is asked for it.  A request for a code that is not    *)
(* the latest, a poll for another code and a handler called by a page that *)
(* was closed are answered without a trace on the page.                    *)
(***************************************************************************)
Overdue(ts, kinds) == {IF t.kind \in kinds THEN [t EXCEPT !.live = FALSE] ELSE t : t \in ts}

\* The effects of the page when its draft or the snapshot has changed.
Effects(p, s) ==
    LET draft == IF s.server # snap.server THEN s.server ELSE p.draft
        kept == draft = p.draft /\ s.ready /\ ~s.connected
    IN  IF ~p.open THEN p
        ELSE [p EXCEPT !.draft = draft,
                       !.code = IF kept THEN @ ELSE Nobody,
                       !.asking = kept /\ @,
                       !.failed = @ /\ draft = p.draft /\ ~s.connected]

Undisturbed(p, s) == s.ready /\ ~s.connected /\ s.server = snap.server

PageShows(s) ==
    /\ snap' = s
    /\ sheetOpen' = Effects(page, s)
    /\ tasks' = IF Undisturbed(page, s) THEN tasks ELSE Overdue(tasks, {"code", "poll"})

\* An answer without a code.
Refused == 0

\* Otherwise the page shows that it loads, or a button to load again.
Usable == page.open /\ snap.ready

\* pairingConfigDirty.
Dirty == page.draft # snap.server

MayAsk == Usable /\ ~Dirty /\ ~page.busy /\ ~snap.connected

\* startReversePairing; unless the computer is connected the main process asks
\* the cloud.
Asks(p, ts) ==
    /\ sheetOpen' = [p EXCEPT !.asking = TRUE, !.failed = FALSE]
    /\ tasks' = Overdue(ts, {"code"}) \cup
         {[kind |-> "code", live |-> TRUE, server |-> p.draft, got |-> IF Connected THEN Refused ELSE Nobody]}

PairingInit ==
    /\ store \in {[site |-> Nobody, enabled |-> FALSE, server |-> Official]} \cup
                 [site : Sites, enabled : {TRUE}, server : {Official}]
    /\ origin \in IF store.site # Nobody THEN {store.site} ELSE {Nobody} \cup Sites
    /\ local \in {{}, {[of |-> origin, scope |-> Scope(store)]}}
    /\ manager = Running(store)
    /\ exchange = NoExchange
    /\ tasks = {}
    /\ snap = Status
    /\ stale = FALSE
    /\ sheetOpen = NoPageOpen
    /\ codes = <<>>
    /\ copied = {}
    /\ slips = {}
    /\ steps = 0
    /\ failures = 0

Disconnecting == \E t \in tasks : t.kind = "disconnect" /\ t.at = "remote"
Connecting == \E t \in tasks : t.kind \in {"poll", "pair"} /\ t.at = "assign"

others == <<origin, local, codes, copied, slips>>
mainState == <<store, manager, exchange>>
view == <<snap, stale>>

OpenPage ==
    /\ Step
    /\ ~page.open
    /\ sheetOpen' = [NoPageOpen EXCEPT !.open = TRUE, !.draft = snap.server]
    /\ UNCHANGED <<mainState, others, view, tasks, failures>>

ClosePage ==
    /\ Step
    /\ page.open
    /\ sheetOpen' = NoPageOpen
    /\ tasks' = Overdue(tasks, {"code", "poll", "pair", "disconnect", "now"})
    /\ UNCHANGED <<mainState, others, view, failures>>

\* The fields are disabled while the computer is connected or something is saved.
EditFields(server) ==
    /\ Step
    /\ Usable /\ ~snap.connected /\ ~page.busy /\ server # page.draft
    /\ sheetOpen' = [page EXCEPT !.draft = server, !.code = Nobody, !.asking = FALSE, !.failed = FALSE]
    /\ tasks' = Overdue(tasks, {"code", "poll"})
    /\ UNCHANGED <<mainState, others, view, failures>>

\* A page that shows nothing asks for a code by itself.
AutoInitiate ==
    /\ MayAsk /\ ~page.asking /\ page.code = Nobody /\ ~page.failed
    /\ Len(codes) < MaxCodes
    /\ Asks(page, tasks)
    /\ UNCHANGED <<mainState, others, view, steps, failures>>

\* The button next to the code, and the end of the code's time.
RefreshCode ==
    /\ Step
    /\ MayAsk /\ ~page.asking /\ page.code # Nobody
    /\ Asks(page, tasks)
    /\ UNCHANGED <<mainState, others, view, failures>>

\* The button next to the error, or the computer is online again.
RetryPairing ==
    /\ Step
    /\ MayAsk /\ page.failed
    /\ Asks(page, tasks)
    /\ UNCHANGED <<mainState, others, view, failures>>

\* The cloud hands out a code.
ServeCode(t) ==
    /\ t.kind = "code" /\ t.got = Nobody
    /\ \/ /\ Len(codes) < MaxCodes
          /\ codes' = Append(codes, [server |-> t.server, state |-> "pending", site |-> Nobody])
          /\ tasks' = (tasks \ {t}) \cup {[t EXCEPT !.got = Len(codes) + 1]}
          /\ UNCHANGED failures
       \/ Failing /\ tasks' = (tasks \ {t}) \cup {[t EXCEPT !.got = Refused]} /\ UNCHANGED codes
    /\ UNCHANGED <<mainState, origin, local, copied, slips, view, sheetOpen, steps>>

LatestCode(t) == t.live

CodeAnswered(t) ==
    /\ t.kind = "code" /\ t.got # Nobody
    /\ tasks' = Overdue(tasks \ {t}, IF LatestCode(t) THEN {"poll"} ELSE {})
    /\ sheetOpen' = IF ~LatestCode(t) THEN page
                    ELSE IF t.got = Refused THEN [page EXCEPT !.asking = FALSE, !.failed = TRUE, !.code = Nobody]
                    ELSE [page EXCEPT !.asking = FALSE, !.code = t.got]
    /\ UNCHANGED <<mainState, others, view, steps, failures>>

\* The administrator.
Decide(c) ==
    /\ Step
    /\ codes[c].state = "pending"
    /\ \/ codes[c].server = Official /\ \E s \in Sites : codes' = [codes EXCEPT ![c].state = "approved", ![c].site = s]
       \/ \E s \in {"denied", "expired"} : codes' = [codes EXCEPT ![c].state = s]
    /\ UNCHANGED <<mainState, origin, local, copied, slips, view, tasks, sheetOpen, failures>>

\* The next poll may be sent before the last one is answered.
Poll ==
    /\ Usable /\ page.code # Nobody /\ ~Dirty /\ ~snap.connected
    /\ codes[page.code].state # "pending"
    /\ Cardinality({t \in tasks : t.kind = "poll"}) < MaxCodes
    /\ tasks' = tasks \cup {[kind |-> "poll", live |-> TRUE, code |-> page.code, at |-> "ask", site |-> Nobody]}
    /\ UNCHANGED <<mainState, others, view, sheetOpen, steps, failures>>

\* The handlers of the page's buttons, and the code an administrator has sent.
Busy == sheetOpen' = [page EXCEPT !.busy = TRUE]

HandlePair(site) ==
    /\ Step
    /\ Usable /\ ~page.busy /\ ~snap.connected /\ page.draft = Official
    /\ Busy
    /\ tasks' = Overdue(tasks, {"poll"}) \cup {[kind |-> "pair", live |-> TRUE, at |-> "ask", site |-> site]}
    /\ UNCHANGED <<mainState, others, view, failures>>

HandleDisconnect ==
    /\ Step
    /\ Usable /\ ~page.busy /\ snap.connected
    /\ Busy
    /\ manager' = Suspended
    /\ tasks' = tasks \cup {[kind |-> "disconnect", live |-> TRUE, at |-> "suspend", site |-> store.site]}
    /\ UNCHANGED <<store, exchange, others, view, failures>>

\* update-config: what the page believes is saved.  It is answered at once.
HandleSaveConfig ==
    /\ Step
    /\ Usable /\ ~page.busy
    /\ page.draft # store.server => ~Connected
    /\ LET s == [store EXCEPT !.server = page.draft, !.enabled = snap.connected]
       IN  /\ store' = s
           /\ manager' = IF s.enabled /\ Connected THEN Running(s) ELSE Stopped
    /\ stale' = TRUE
    /\ sheetOpen' = [page EXCEPT !.code = Nobody, !.failed = FALSE]
    /\ tasks' = Overdue(tasks, {"poll"})
    /\ UNCHANGED <<exchange, others, snap, failures>>

HandleManualSync ==
    /\ Step
    /\ Usable /\ ~page.busy /\ snap.connected
    /\ Busy
    /\ Syncs(manager)
    /\ tasks' = tasks \cup {[kind |-> "now", live |-> TRUE, waits |-> Waits(manager)]}
    /\ UNCHANGED <<store, others, view, failures>>

ManualSyncAnswered(t) ==
    /\ t.kind = "now" /\ (t.waits => exchange.at = "idle")
    /\ tasks' = tasks \ {t}
    /\ sheetOpen' = IF t.live THEN [page EXCEPT !.busy = FALSE] ELSE page
    /\ stale' = TRUE
    /\ UNCHANGED <<mainState, others, snap, steps, failures>>

(***************************************************************************)
(* poll-device-authorization and pair-device.                              *)
(***************************************************************************)
Instead(t, u) == tasks' = (tasks \ {t}) \cup {u}

\* The reply to the page: a poll that connects has it load the connection, one
\* that found its code expired asks for another; the handler of a code gives
\* its buttons back.
Reply(t, answer) ==
    LET rest == tasks \ {t}
    IN  IF t.kind = "pair" /\ t.live
        THEN sheetOpen' = [page EXCEPT !.busy = FALSE] /\ tasks' = Overdue(rest, {"poll"})
        ELSE IF ~t.live \/ answer \in {"approved", "failed"} THEN sheetOpen' = page /\ tasks' = rest
        ELSE IF answer = "denied" THEN sheetOpen' = [page EXCEPT !.failed = TRUE, !.code = Nobody] /\ tasks' = Overdue(rest, {"poll"})
        ELSE IF MayAsk /\ ~page.asking /\ Len(codes) < MaxCodes THEN Asks(page, rest)
        ELSE sheetOpen' = page /\ tasks' = rest

\* A poll that fails is not reported to the window, a code that fails is.
\* Seeded bug: neither is.
Untold(t) ==
    /\ Reply(t, "failed")
    /\ UNCHANGED stale

HandlerFails(t) ==
    /\ Reply(t, "failed")
    /\ stale' = (stale \/ t.kind = "pair")

\* Seeded bug: what the computer holds is not compared with where it comes from.
NoOrigin(site) == TRUE
FromHere(site) == origin \in {Nobody, site}

\* What is stored of the location, and then the local rows are assigned to it.
Connects(t, site) ==
    /\ origin' = site
    /\ store' = [site |-> site, enabled |-> TRUE, server |-> Official]
    /\ slips' = slips \cup (IF Connected THEN {"twice"} ELSE {}) \cup (IF Disconnecting THEN {"crossed"} ELSE {})
    /\ Instead(t, [t EXCEPT !.at = "assign", !.site = site])
    /\ UNCHANGED <<stale, sheetOpen, failures>>

\* validatePairingDestination.
Validated(t, site) ==
    \/ Connected /\ HandlerFails(t) /\ UNCHANGED <<store, origin, slips, failures>>
    \/ ~Connected /\ FromHere(site) /\ Connects(t, site)
    \/ /\ ~Connected /\ ~FromHere(site)
       /\ Instead(t, [t EXCEPT !.at = "verify", !.site = site])
       /\ UNCHANGED <<store, origin, slips, stale, sheetOpen, failures>>

ServePoll(t) ==
    /\ t.kind = "poll" /\ t.at = "ask"
    /\ LET c == codes[t.code]
       IN  \/ c.state = "approved" /\ Validated(t, c.site)
           \/ /\ c.state \in {"denied", "expired"} /\ Reply(t, c.state)
              /\ UNCHANGED <<store, origin, slips, stale, failures>>
           \/ Failing /\ HandlerFails(t) /\ UNCHANGED <<store, origin, slips>>
    /\ UNCHANGED <<local, manager, exchange, snap, codes, copied, steps>>

ServePair(t) ==
    /\ t.kind = "pair" /\ t.at = "ask"
    /\ \/ Validated(t, t.site)
       \/ Failing /\ HandlerFails(t) /\ UNCHANGED <<store, origin, slips>>
    /\ UNCHANGED <<local, manager, exchange, snap, codes, copied, steps>>

\* The directory the computer holds is asked for; whether it is connected by
\* now is not looked at again.
Verified(t) ==
    /\ t.kind \in {"poll", "pair"} /\ t.at = "verify"
    /\ \/ InScope = {} /\ Connects(t, t.site)
       \/ InScope # {} /\ HandlerFails(t) /\ UNCHANGED <<store, origin, slips, failures>>
       \/ Failing /\ HandlerFails(t) /\ UNCHANGED <<store, origin, slips>>
    /\ UNCHANGED <<local, manager, exchange, snap, codes, copied, steps>>

\* Seeded bug: only what is of the location is taken into the scope.
OwnTaken(site) == {IF r.scope = Nobody /\ r.of = site THEN [r EXCEPT !.scope = OrgOf[site]] ELSE r : r \in local}
Taken(site) == {IF r.scope = Nobody THEN [r EXCEPT !.scope = OrgOf[site]] ELSE r : r \in local}

\* assign_organization_id takes what has no organization into the scope, and
\* the first exchange begins.  A request that fails may have been served.
Assigned(t) ==
    /\ t.kind \in {"poll", "pair"} /\ t.at = "assign"
    /\ \/ /\ local' = Taken(t.site)
          /\ Syncs(Running(store))
          /\ Instead(t, [t EXCEPT !.at = IF Waits(Running(store)) THEN "sync" ELSE "queued"])
          /\ UNCHANGED <<store, slips, stale, sheetOpen, failures>>
       \/ /\ Failing
          /\ local' \in {local, Taken(t.site)}
          /\ store' = [store EXCEPT !.enabled = FALSE]
          /\ slips' = slips \cup {IF t.kind = "poll" THEN "untold" ELSE "unassigned"}
          /\ HandlerFails(t)
          /\ UNCHANGED <<manager, exchange>>
    /\ UNCHANGED <<origin, snap, codes, copied, steps>>

FirstSynced(t) ==
    /\ t.kind \in {"poll", "pair"}
    /\ t.at = "queued" \/ (t.at = "sync" /\ exchange.at = "idle")
    /\ Reply(t, "approved")
    /\ stale' = TRUE
    /\ UNCHANGED <<mainState, others, snap, steps, failures>>

(***************************************************************************)
(* disconnect-device.                                                      *)
(***************************************************************************)
\* suspend waits for the exchange; then the local rows leave the scope.  When
\* that fails the connection is retained, and the rows may have left it.
Unpaired(t) ==
    /\ t.kind = "disconnect" /\ t.at = "suspend" /\ exchange.at = "idle"
    /\ LET left == {IF Scope(store) \in {r.scope, Nobody} THEN [r EXCEPT !.scope = Nobody] ELSE r : r \in local}
       IN  \/ /\ local' = left
              /\ Instead(t, [t EXCEPT !.at = "remote"])
              /\ origin' = IF t.site # Nobody THEN t.site ELSE origin
              /\ slips' = IF origin' # origin \/ Connecting THEN slips \cup {"crossed"} ELSE slips
              /\ UNCHANGED <<manager, sheetOpen, stale, failures>>
           \/ /\ Failing
              /\ local' \in {local, left}
              /\ slips' = IF local' # local THEN slips \cup {"unanswered"} ELSE slips
              /\ manager' = Running(store)
              /\ tasks' = tasks \ {t}
              /\ sheetOpen' = IF t.live THEN [page EXCEPT !.busy = FALSE] ELSE page
              /\ UNCHANGED <<origin, stale>>
    /\ UNCHANGED <<store, exchange, snap, codes, copied, steps>>

\* Whatever the cloud answers, the connection is cleared.
Disconnected(t) ==
    /\ t.kind = "disconnect" /\ t.at = "remote"
    /\ store' = [store EXCEPT !.site = Nobody, !.enabled = FALSE]
    /\ manager' = Stopped
    /\ codes' = [c \in DOMAIN codes |-> IF codes[c].site = t.site THEN [codes[c] EXCEPT !.state = "expired"] ELSE codes[c]]
    /\ stale' = TRUE
    /\ tasks' = tasks \ {t}
    /\ sheetOpen' = IF t.live THEN [page EXCEPT !.busy = FALSE, !.code = Nobody, !.failed = FALSE] ELSE page
    /\ slips' = IF exchange.at # "idle" THEN slips \cup {"resumed"} ELSE slips
    /\ UNCHANGED <<exchange, origin, local, copied, snap, steps, failures>>

(***************************************************************************)
(* The exchange, and what the window is told of the connection.            *)
(***************************************************************************)
SyncTimer ==
    /\ Step
    /\ manager.running
    /\ Syncs(manager)
    /\ UNCHANGED <<store, others, tasks, view, sheetOpen, failures>>

\* What is in scope is sent; data that came from nowhere becomes the location's.
Push ==
    /\ exchange.at = "push"
    /\ \/ /\ ~manager.suspended
          /\ copied' = copied \cup {<<r.of, exchange.site>> : r \in InScope}
          /\ local' = {IF r \in InScope /\ r.of = Nobody THEN [r EXCEPT !.of = exchange.site] ELSE r : r \in local}
          /\ exchange' = [exchange EXCEPT !.at = "pull"]
          /\ UNCHANGED <<manager, failures>>
       \/ manager.suspended /\ ExchangeEnds /\ UNCHANGED <<local, copied, failures>>
       \/ Failing /\ exchange' = [exchange EXCEPT !.at = "pull"] /\ UNCHANGED <<local, manager, copied>>
    /\ UNCHANGED <<store, origin, codes, slips, tasks, view, sheetOpen, steps>>

\* The location's directory is imported in the scope of the moment; the window
\* is told unless the exchange was suspended.
Pull ==
    /\ exchange.at = "pull"
    /\ local' \in {local} \cup (IF manager.suspended THEN {} ELSE {local \cup {[of |-> exchange.site, scope |-> Scope(store)]}})
    /\ ExchangeEnds
    /\ stale' = (stale \/ ~manager.suspended)
    /\ slips' = IF Disconnecting THEN slips \cup {"resumed"} ELSE slips
    /\ UNCHANGED <<store, origin, codes, copied, tasks, snap, sheetOpen, steps, failures>>

\* refreshCloudSyncConfig.
SnapshotRefreshed ==
    /\ stale
    /\ stale' = FALSE
    /\ PageShows(Status)
    /\ UNCHANGED <<mainState, others, steps, failures>>

RefreshFailed ==
    /\ stale /\ Failing
    /\ stale' = FALSE
    /\ PageShows([snap EXCEPT !.ready = FALSE])
    /\ UNCHANGED <<mainState, others, steps>>

RetryLoad ==
    /\ Step
    /\ page.open /\ ~snap.ready
    /\ stale' = TRUE
    /\ UNCHANGED <<mainState, others, snap, tasks, sheetOpen, failures>>

\* Somebody is scanned, or added: data of this computer, in the scope of the moment.
Work ==
    /\ Step
    /\ local' = local \cup {[of |-> IF Connected THEN store.site ELSE origin, scope |-> Scope(store)]}
    /\ slips' = IF Disconnecting THEN slips \cup {"worked"} ELSE slips
    /\ UNCHANGED <<mainState, origin, codes, copied, tasks, view, sheetOpen, failures>>

\* The application ends and is started again.
Relaunch ==
    /\ Failing
    /\ tasks' = {}
    /\ exchange' = NoExchange
    /\ manager' = Running(store)
    /\ snap' = Status
    /\ stale' = FALSE
    /\ sheetOpen' = NoPageOpen
    /\ slips' = IF Disconnecting \/ Connecting THEN slips \cup {"interrupted"} ELSE slips
    /\ UNCHANGED <<store, origin, local, codes, copied, steps>>

PairingNext ==
    \/ OpenPage \/ ClosePage \/ (\E s \in Servers : EditFields(s))
    \/ AutoInitiate \/ RefreshCode \/ RetryPairing \/ Poll
    \/ (\E c \in DOMAIN codes : Decide(c))
    \/ (\E s \in Sites : HandlePair(s)) \/ HandleDisconnect \/ HandleSaveConfig \/ HandleManualSync
    \/ \E t \in tasks :
          \/ ServeCode(t) \/ CodeAnswered(t) \/ ManualSyncAnswered(t)
          \/ ServePoll(t) \/ ServePair(t) \/ Verified(t) \/ Assigned(t) \/ FirstSynced(t)
          \/ Unpaired(t) \/ Disconnected(t)
    \/ SyncTimer \/ Push \/ Pull \/ SnapshotRefreshed \/ RefreshFailed \/ RetryLoad \/ Work \/ Relaunch

PairingSpec == PairingInit /\ [][PairingNext]_pairingVars

(***************************************************************************)
(* What must hold.                                                         *)
(***************************************************************************)
\* Data that belongs to one location is never copied to another one, through
\* any sequence of pairings, disconnections and failures (syncHandlers: "Keep
\* that origin across disconnects so reconnecting cannot silently copy it into
\* another organization").  Exceptions: two pairings at once, of a code typed in
\* and of a poll ("twice"); a pairing, or a disconnect of what was connected
\* before, while a disconnect is under way ("crossed"); an exchange that goes on
\* while the cloud is asked to disconnect, as the configuration was saved or
\* another disconnect failed meanwhile ("resumed"); work at that time, which stays
\* in the scope of the organization, is not seen when the next pairing looks for
\* data, and goes to another location of that organization ("worked").
OriginKept ==
    slips \cap {"twice", "crossed", "resumed", "worked"} = {} => \A c \in copied : c[1] \in {Nobody, c[2]}

\* When nothing is under way the application sees all the data it has.
\* Exceptions: those four, the end of the application between a row's scope and
\* the store's ("interrupted"), and a scope whose change failed or was not answered.
NothingStranded ==
    tasks = {} /\ exchange.at = "idle" /\ slips = {} => InScope = local

\* When nothing is under way the window knows whether the computer is connected,
\* unless a poll connected it and then could not assign the local rows ("untold").
ViewSettles ==
    tasks = {} /\ exchange.at = "idle" /\ ~stale /\ "untold" \notin slips /\ snap.ready => snap = Status

=============================================================================

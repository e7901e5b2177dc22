------------------------------- MODULE Updates -------------------------------
(***************************************************************************)
(* The search for a newer release: updater.ts in the main process, which   *)
(* asks GitHub, keeps the last answer and checks by itself every 24 hours, *)
(* and UpdaterService in the window, which keeps what it was told in the   *)
(* settings file and shows it after the next launch too.                   *)
(*                                                                         *)
(* Time passes in ticks, Interval of them are 24 hours.  A check lasts no  *)
(* longer than its timeout of 8 seconds, so that no tick falls into it,    *)
(* and what the main process says is stored and shown at once.  A version  *)
(* is a number, and GitHub offers the largest one released.                *)
(***************************************************************************)
EXTENDS Integers

CONSTANTS
    Interval,       \* CHECK_INTERVAL_MS and BACKGROUND_CHECK_INTERVAL_MS
    LastTick,       \* bound on time
    MaxVersion,     \* bound on versions
    MaxChecks,      \* bound on checks the user or the cloud asks for
    MaxUnreachable, \* bound on checks that get no answer
    MaxLaunched     \* bound on launches

ASSUME UpdatesAssumption ==
    /\ Interval \in Nat \ {0} /\ MaxVersion \in Nat \ {0}
    /\ {LastTick, MaxChecks, MaxUnreachable, MaxLaunched} \subseteq Nat

VARIABLES
    tick,
    released,       \* external: the last release
    installed,      \* the version that runs, or ran last
    started,        \* the application runs
    cachedInfo,     \* updater.ts: cachedUpdateInfo
    lastCheckTime,
    awaiting,       \* who awaits pendingCheckPromise
    nextCheck,      \* when the background check is due
    tray,           \* the version the tray's menu offers, 0 if none
    updateInfo,     \* UpdaterService: cachedUpdateInfo, also in the settings file
    trayBehind,     \* history: the window was told something the tray was not
    silence,        \* history: for how long a release out there is not shown
    checks, unreachable, launched

mainVars == <<cachedInfo, lastCheckTime, awaiting>>
shownVars == <<tray, updateInfo, trayBehind, silence>>
countVars == <<checks, unreachable, launched>>
updateVars == <<tick, released, installed, started, mainVars, nextCheck, shownVars, countVars>>

NoInfo == [latest |-> 0, hasUpdate |-> FALSE, outcome |-> "none"]

UpdatesInit ==
    /\ tick = 0 /\ released = 1 /\ installed = 1 /\ started = TRUE
    /\ cachedInfo = NoInfo /\ lastCheckTime = 0 /\ awaiting = {}
    /\ nextCheck = 0
    /\ tray = 0 /\ updateInfo = NoInfo
    /\ trayBehind = FALSE /\ silence = 0
    /\ checks = 0 /\ unreachable = 0 /\ launched = 1

-----------------------------------------------------------------------------
(* What is found and who is told of it.                                    *)

CompareVersions(a, b) == a > b

\* The main process's answer: a check that fails or finds the computer offline
\* names the running version as the latest.
Info(outcome) ==
    [latest    |-> IF outcome = "ok" THEN released ELSE installed,
     hasUpdate |-> outcome = "ok" /\ CompareVersions(released, installed),
     outcome   |-> outcome]

SetUpdateAvailable(info) == IF info.hasUpdate THEN info.latest ELSE 0

\* The handler of the window's checks and the background check tell the tray
\* and the window, the latter not when the computer is offline.
TellsBoth(info, whom) ==
    \/ whom \cap {"About", "WindowBar"} # {}
    \/ "background" \in whom /\ info.outcome # "offline"

\* The command UPGRADE tells the window alone, of an update alone.
TellsWindow(info, whom) == "upgrade" \in whom /\ info.hasUpdate

Tells(info, whom) ==
    /\ tray' = IF TellsBoth(info, whom) THEN SetUpdateAvailable(info) ELSE tray
    /\ updateInfo' = IF TellsBoth(info, whom) \/ TellsWindow(info, whom) THEN info ELSE updateInfo
    /\ trayBehind' = (~TellsBoth(info, whom) /\ (trayBehind \/ TellsWindow(info, whom)))

\* Nothing is kept silent any more once the last release is shown.
IsShown(info) == info.hasUpdate /\ info.latest = released
Notices == silence' = IF IsShown(updateInfo') THEN 0 ELSE silence

-----------------------------------------------------------------------------
(* The checks: one at a time, whoever asks meanwhile waits for its answer. *)

NotLater == tick - lastCheckTime <= Interval
Recent == tick - lastCheckTime < Interval

\* A background check that is due when the computer is offline, when the last
\* answer is recent enough, or otherwise.
SkipBackgroundCheck ==
    /\ started /\ tick = nextCheck
    /\ unreachable < MaxUnreachable /\ unreachable' = unreachable + 1
    /\ nextCheck' = tick + Interval
    /\ silence' = 0
    /\ UNCHANGED <<tick, released, installed, started, mainVars, tray, updateInfo, trayBehind, checks, launched>>

RunCheck ==
    /\ started /\ tick = nextCheck
    /\ nextCheck' = tick + Interval
    /\ IF awaiting = {} /\ cachedInfo # NoInfo /\ Recent
       THEN Tells(cachedInfo, {"background"}) /\ UNCHANGED awaiting
       ELSE awaiting' = awaiting \cup {"background"} /\ UNCHANGED <<tray, updateInfo, trayBehind>>
    /\ Notices
    /\ UNCHANGED <<tick, released, installed, started, cachedInfo, lastCheckTime, countVars>>

\* A check that is forced: of the page About, which has a button for it unless
\* it shows an update or that there is no internet, the window's menu, and the
\* cloud's command UPGRADE.
AsksForCheck(who) ==
    /\ started /\ who \notin awaiting
    /\ checks < MaxChecks /\ checks' = checks + 1
    /\ awaiting' = awaiting \cup {who}
    /\ UNCHANGED <<tick, released, installed, started, cachedInfo, lastCheckTime, nextCheck, shownVars, unreachable,
                   launched>>

HasButton == ~updateInfo.hasUpdate /\ updateInfo.outcome # "offline"
HandleCheckForUpdates == HasButton /\ AsksForCheck("About")
HandleCheckUpdates == AsksForCheck("WindowBar")
Upgrade == AsksForCheck("upgrade")

\* The answer arrives.  An offline computer leaves no trace in the cache.
CheckForUpdates(outcome) ==
    /\ awaiting # {} /\ awaiting' = {}
    /\ IF outcome = "offline"
       THEN UNCHANGED <<cachedInfo, lastCheckTime>>
       ELSE cachedInfo' = Info(outcome) /\ lastCheckTime' = tick
    /\ Tells(Info(outcome), awaiting)
    /\ UNCHANGED <<tick, released, installed, started, nextCheck, checks, launched>>

CheckSucceeds ==
    /\ CheckForUpdates("ok")
    /\ Notices
    /\ UNCHANGED unreachable

CheckFails(outcome) ==
    /\ unreachable < MaxUnreachable /\ unreachable' = unreachable + 1
    /\ CheckForUpdates(outcome)
    /\ silence' = 0

-----------------------------------------------------------------------------
(* Releases, time, and the end of the application and its next launch,     *)
(* possibly of another version.                                            *)

Publish ==
    /\ released < MaxVersion /\ released' = released + 1
    /\ UNCHANGED <<tick, installed, started, mainVars, nextCheck, shownVars, countVars>>

TimePasses ==
    /\ tick < LastTick /\ tick' = tick + 1
    /\ awaiting = {} /\ (started => tick # nextCheck)
    /\ silence' = IF started /\ released > installed /\ ~IsShown(updateInfo) THEN silence + 1 ELSE 0
    /\ UNCHANGED <<released, installed, started, mainVars, nextCheck, tray, updateInfo, trayBehind, countVars>>

AppEnds ==
    /\ started /\ launched < MaxLaunched /\ started' = FALSE
    /\ cachedInfo' = NoInfo /\ lastCheckTime' = 0 /\ awaiting' = {}
    /\ tray' = 0 /\ silence' = 0
    /\ UNCHANGED <<tick, released, installed, nextCheck, updateInfo, trayBehind, countVars>>

\* What the settings file says of the version that ran is not trusted.
Trusted(version) == updateInfo
Recomputed(version) == [updateInfo EXCEPT !.hasUpdate = CompareVersions(updateInfo.latest, version)]

LoadFromStore(version) ==
    updateInfo' = IF updateInfo = NoInfo THEN NoInfo ELSE Recomputed(version)

LaunchVersion(version) ==
    /\ ~started /\ started' = TRUE /\ launched' = launched + 1
    /\ installed' = version
    /\ LoadFromStore(version)
    /\ nextCheck' = tick
    /\ trayBehind' = TRUE
    /\ UNCHANGED <<tick, released, mainVars, tray, silence, checks, unreachable>>

UpdatesNext ==
    \/ SkipBackgroundCheck \/ RunCheck
    \/ HandleCheckForUpdates \/ HandleCheckUpdates \/ Upgrade
    \/ CheckSucceeds \/ \E outcome \in {"failed", "offline"} : CheckFails(outcome)
    \/ Publish \/ TimePasses \/ AppEnds
    \/ \E version \in 1..released : LaunchVersion(version)

UpdatesSpec == UpdatesInit /\ [][UpdatesNext]_updateVars

-----------------------------------------------------------------------------
(* Properties                                                              *)

\* What is offered is newer than what runs, also after a launch of another
\* version, and the tray's menu and the window offer the same: but from a
\* launch to its first check, and after an UPGRADE until the next one.
OffersAgree ==
    started =>
        /\ updateInfo.hasUpdate => CompareVersions(updateInfo.latest, installed)
        /\ ~trayBehind => tray = (IF updateInfo.hasUpdate THEN updateInfo.latest ELSE 0)

\* An application that keeps running and reaches GitHub at every check shows a
\* release before 48 hours have passed, however its background checks fall
\* between the checks the user or the cloud asks for.
ToldInTime == silence < 2 * Interval
=============================================================================

--------------------------- MODULE BackendLifecycle ---------------------------
(***************************************************************************)
(* The supervision of the local backend by the Electron main process:      *)
(* start, crash restarts, health checks and quitting                       *)
(* (app/src/electron/backend/BackendProcessManager.ts, backendService.ts   *)
(* and main.ts), over the backend processes of the operating system.       *)
(*                                                                         *)
(* The main process is one JavaScript thread: what it does between two     *)
(* awaits is one step, and any other callback may run at an await.  It may *)
(* be relaunched; the backends it leaves behind are then not its children. *)
(***************************************************************************)
EXTENDS Integers, FiniteSets

CONSTANTS
    MaxCrashesPerWindow,  \* MAX_CRASHES_PER_WINDOW
    MaxPids,              \* bound: backends ever spawned
    MaxLaunches,          \* bound: launches of the application
    MaxDeaths,            \* bound: backends that die by themselves
    MaxTimeouts,          \* bound: starts given up while their backend lives
    MaxWindows            \* bound: crash windows that pass in a launch

ASSUME ConstantsAssumption ==
    /\ {MaxCrashesPerWindow, MaxPids, MaxLaunches} \subseteq Nat \ {0}
    /\ {MaxDeaths, MaxTimeouts, MaxWindows} \subseteq Nat

Pids   == 1 .. MaxPids
NoPid  == 0
Timers == 1 .. MaxCrashesPerWindow
Probes == {"monitor", "readiness"}

VARIABLES
    app,        \* the main process
    launch,     \* how often the application was launched
    \* the operating system
    state,      \* of each backend process
    death,      \* how it ended: exit code 0, another code, a signal of somebody
                \* else, or killed by the main process
    spawner,    \* the launch that spawned it
    \* BackendProcessManager
    process,    \* this.process: the child it owns
    running,    \* status.isRunning
    stopping,   \* isStoppingManually
    startup,    \* startupPromise: null, pending, or resolved and kept
    at,         \* where _start is
    victim,     \* the listener _start is about to terminate
    crashes,    \* crashTimestamps inside the window
    timer,      \* the restart timers of the exit handler
    quarry,     \* the listener each of them is about to terminate
    reported,   \* children whose exit event has been handled
    monitor,    \* healthCheckTimer is set
    probe,      \* the answers of health checks that are not applied yet
    misled,     \* history: an answer was taken for that of its child
    \* bounds
    deaths, timeouts, windows

os      == <<state, death, spawner>>
child   == <<process, reported>>
starting == <<startup, at, victim>>
timers  == <<timer, quarry>>
health  == <<monitor, probe>>
bounds  == <<deaths, timeouts, windows, misled>>
vars == <<app, launch, os, child, running, stopping, starting, crashes, timers,
          health, bounds>>

Alive(p)    == state[p] \in {"starting", "listening"}
Mine(p)     == state[p] # "unborn" /\ spawner[p] = launch
Listeners   == {p \in Pids : state[p] = "listening"}
Unreported(p) == Mine(p) /\ state[p] = "dead" /\ p \notin reported
Up          == app # "down"

\* findListeningPid: the process that holds the backend port.
Listener    == IF Listeners = {} THEN NoPid ELSE CHOOSE p \in Listeners : TRUE
Serving     == process # NoPid /\ Listener = process
Unborn      == {p \in Pids : state[p] = "unborn"}

Init ==
    /\ app = "down" /\ launch = 0
    /\ state = [p \in Pids |-> "unborn"]
    /\ death = [p \in Pids |-> "none"]
    /\ spawner = [p \in Pids |-> 0]
    /\ process = NoPid /\ reported = {}
    /\ running = FALSE /\ stopping = FALSE
    /\ startup = "null" /\ at = "idle" /\ victim = NoPid
    /\ crashes = 0
    /\ timer = [t \in Timers |-> "off"]
    /\ quarry = [t \in Timers |-> NoPid]
    /\ monitor = FALSE /\ probe = [k \in Probes |-> "none"]
    /\ deaths = 0 /\ timeouts = 0 /\ windows = 0 /\ misled = FALSE

-----------------------------------------------------------------------------
(* Backend processes. *)

\* A terminated backend that handles SIGTERM ends with code 0, one that does
\* not, or is killed, ends by the signal.
Terminated(p) ==
    IF p # NoPid /\ Alive(p)
    THEN /\ state' = [state EXCEPT ![p] = "dead"]
         /\ \E how \in {"zero", "killed"} : death' = [death EXCEPT ![p] = how]
    ELSE UNCHANGED <<state, death>>

\* uvicorn binds the port when its startup is done, and exits when it cannot.
Listen(p) ==
    /\ state[p] = "starting"
    /\ IF Listeners = {}
       THEN /\ state' = [state EXCEPT ![p] = "listening"]
            /\ UNCHANGED death
       ELSE /\ state' = [state EXCEPT ![p] = "dead"]
            /\ death' = [death EXCEPT ![p] = "code"]
    /\ UNCHANGED <<app, launch, spawner, child, running, stopping, starting,
                   crashes, timers, health, bounds>>

Die(p) ==
    /\ Alive(p) /\ deaths < MaxDeaths
    /\ state' = [state EXCEPT ![p] = "dead"]
    /\ \E how \in {"code", "signal"} : death' = [death EXCEPT ![p] = how]
    /\ deaths' = deaths + 1
    /\ UNCHANGED <<app, launch, spawner, child, running, stopping, starting,
                   crashes, timers, health, timeouts, windows, misled>>

-----------------------------------------------------------------------------
(* start and _start. *)

\* A start that is under way is shared; one that finds the backend running
\* returns before its try block, whose finally clears startupPromise.
StartCalled ==
    IF startup # "null" THEN UNCHANGED <<stopping, startup, at>>
    ELSE /\ stopping' = FALSE
         /\ startup' = IF running THEN "kept" ELSE "pending"
         /\ at' = IF running THEN at ELSE "terminate"

\* killAllBackendProcesses: the child it owns, then whoever listens.
TerminateOwned ==
    /\ Up /\ at = "terminate"
    /\ Terminated(process)
    /\ at' = "find"
    /\ UNCHANGED <<app, launch, spawner, child, running, stopping, startup,
                   victim, crashes, timers, health, bounds>>

FindListening ==
    /\ Up /\ at = "find"
    /\ victim' = IF Listener = process THEN NoPid ELSE Listener
    /\ at' = "evict"
    /\ UNCHANGED <<app, launch, os, child, running, stopping, startup, crashes,
                   timers, health, bounds>>

\* The rest of killAllBackendProcesses, and spawn.
Spawn ==
    /\ Up /\ at = "evict"
    /\ \E p \in Unborn :
        /\ \A q \in Unborn : p <= q
        /\ IF victim # NoPid /\ Alive(victim)
           THEN /\ state' = [state EXCEPT ![victim] = "dead", ![p] = "starting"]
                /\ \E how \in {"zero", "killed"} :
                       death' = [death EXCEPT ![victim] = how]
           ELSE /\ state' = [state EXCEPT ![p] = "starting"]
                /\ UNCHANGED death
        /\ spawner' = [spawner EXCEPT ![p] = launch]
        /\ process' = p
    /\ victim' = NoPid
    /\ at' = "wait"
    /\ UNCHANGED <<app, launch, reported, running, stopping, startup, crashes,
                   timers, health, bounds>>

\* process.exitCode stays null until the exit event, and after a signal.
ExitCodeKnown == process \in reported /\ death[process] \in {"zero", "code"}
Awaited == process # NoPid /\ Alive(process)

\* waitForBackendReady: any process that answers the port will do.  An exit in
\* the next turn of the event loop comes before the answer.
HealthSeen ==
    /\ Up /\ app # "exiting" /\ at = "wait"
    /\ ~ExitCodeKnown
    /\ Listeners # {}
    /\ at' = "seen"
    /\ UNCHANGED <<app, launch, os, child, running, stopping, startup, victim,
                   crashes, timers, health, bounds>>

Ready ==
    /\ Up /\ at = "seen"
    /\ running' = TRUE
    /\ IF process = NoPid
       THEN at' = "fail" /\ UNCHANGED <<startup, monitor>>
       ELSE at' = "idle" /\ startup' = "null" /\ monitor' = TRUE
    /\ misled' = (misled \/ ~Serving)
    /\ UNCHANGED <<app, launch, os, child, stopping, victim, crashes, timers,
                   probe, deaths, timeouts, windows>>

\* A seeded bug: exitCode is not looked at while waiting.
GiveUpOnTimeout ==
    /\ Up /\ at = "wait" /\ Awaited /\ Listeners = {}
    /\ timeouts < MaxTimeouts /\ timeouts' = timeouts + 1
    /\ monitor' = FALSE
    /\ at' = "fail"
    /\ UNCHANGED <<app, launch, os, child, running, stopping, startup, victim,
                   crashes, timers, probe, deaths, windows, misled>>

\* waitForBackendReady throws, and _start cleans up.
GiveUp ==
    /\ Up /\ at = "wait"
    /\ \/ ExitCodeKnown /\ UNCHANGED timeouts
       \/ /\ ~Awaited /\ ~ExitCodeKnown /\ Listeners = {}
          /\ \A p \in Pids : ~Unreported(p)
          /\ UNCHANGED timeouts
       \/ /\ Awaited /\ Listeners = {}
          /\ timeouts < MaxTimeouts
          /\ timeouts' = timeouts + 1
    /\ monitor' = FALSE
    /\ at' = "fail"
    /\ UNCHANGED <<app, launch, os, child, running, stopping, startup, victim,
                   crashes, timers, probe, deaths, windows, misled>>

\* The catch and finally blocks; the first start's failure is shown to the user.
Failed ==
    /\ Up /\ at = "fail"
    /\ Terminated(process)
    /\ process' = NoPid
    /\ startup' = "null" /\ at' = "idle"
    /\ app' = IF app = "boot" THEN "dialog" ELSE app
    /\ UNCHANGED <<launch, spawner, reported, running, stopping, victim, crashes,
                   timers, health, bounds>>

-----------------------------------------------------------------------------
(* The exit handler and its restart timers. *)

\* Seeded bugs: the limit is reached one crash too early, or too late.
ExhaustedAtLimit(n)   == n >= MaxCrashesPerWindow
Exhausted(n) == n > MaxCrashesPerWindow

Exit(p) ==
    /\ Up /\ Unreported(p)
    /\ reported' = reported \cup {p}
    /\ running' = FALSE
    /\ monitor' = (monitor /\ process = NoPid)
    /\ IF stopping \/ death[p] = "zero" THEN UNCHANGED <<crashes, timer>>
       ELSE /\ crashes' = crashes + 1
            /\ IF Exhausted(crashes') THEN UNCHANGED timer
               ELSE \E t \in Timers :
                      /\ timer[t] = "off" /\ \A u \in 1 .. t - 1 : timer[u] # "off"
                      /\ timer' = [timer EXCEPT ![t] = "armed"]
    /\ UNCHANGED <<app, launch, os, process, stopping, starting, quarry, probe,
                   bounds>>

\* The crashes of more than CRASH_WINDOW_MS ago no longer count.  (Once the
\* limit is reached nothing restarts, and a window that passes changes nothing.)
WindowPasses ==
    /\ Up /\ crashes \in 1 .. MaxCrashesPerWindow /\ windows < MaxWindows
    /\ \A t \in Timers : timer[t] = "off"
    /\ crashes' = 0
    /\ windows' = windows + 1
    /\ UNCHANGED <<app, launch, os, child, running, stopping, starting, timers,
                   health, deaths, timeouts, misled>>

\* The shortest delay of a timer, 1 s, is longer than the 250 ms between two
\* looks at exitCode, and than the poll that notices a terminated process.
Due == at # "fail" /\ ~(at = "wait" /\ ExitCodeKnown)

TimerFires(t) ==
    /\ Up /\ timer[t] = "armed" /\ Due
    /\ timer' = [timer EXCEPT ![t] = IF stopping \/ running THEN "off" ELSE "find"]
    /\ UNCHANGED <<app, launch, os, child, running, stopping, starting, crashes,
                   quarry, health, bounds>>

TimerFinds(t) ==
    /\ Up /\ timer[t] = "find"
    /\ quarry' = [quarry EXCEPT ![t] = Listener]
    /\ timer' = [timer EXCEPT ![t] = "start"]
    /\ UNCHANGED <<app, launch, os, child, running, stopping, starting, crashes,
                   health, bounds>>

TimerStarts(t) ==
    /\ Up /\ timer[t] = "start"
    /\ Terminated(quarry[t])
    /\ quarry' = [quarry EXCEPT ![t] = NoPid]
    /\ timer' = [timer EXCEPT ![t] = "off"]
    /\ StartCalled
    /\ UNCHANGED <<app, launch, spawner, child, running, victim, crashes, health,
                   bounds>>

-----------------------------------------------------------------------------
(* Health checks of the monitor, and of whoever asks for readiness. *)

\* Only the monitor acts on a failed check.
Ask(k) ==
    /\ Up /\ probe[k] = "none"
    /\ IF k = "monitor" THEN monitor /\ ~stopping ELSE Listeners # {}
    /\ probe' = [probe EXCEPT ![k] = IF Listeners = {} THEN "failed" ELSE "ok"]
    /\ UNCHANGED <<app, launch, os, child, running, stopping, starting, crashes,
                   timers, monitor, bounds>>

Answered(k) ==
    /\ Up /\ probe[k] # "none"
    /\ probe' = [probe EXCEPT ![k] = "none"]
    /\ running' = (probe[k] = "ok")
    /\ misled' = (misled \/ (probe[k] = "ok" /\ ~Serving))
    /\ UNCHANGED <<app, launch, os, child, stopping, starting, crashes, timers,
                   monitor, deaths, timeouts, windows>>

-----------------------------------------------------------------------------
(* main.ts. *)

\* The application comes up and starts its backend.
Launch ==
    /\ app = "down" /\ launch < MaxLaunches
    /\ app' = "boot" /\ launch' = launch + 1
    /\ startup' = "pending" /\ at' = "terminate"
    /\ UNCHANGED <<os, child, running, stopping, victim, crashes, timers, health,
                   bounds>>

\* Nothing is left of a main process that ends; its backends may be.
Gone ==
    /\ app' = "down"
    /\ process' = NoPid /\ reported' = {}
    /\ running' = FALSE /\ stopping' = FALSE
    /\ startup' = "null" /\ at' = "idle" /\ victim' = NoPid
    /\ crashes' = 0
    /\ timer' = [t \in Timers |-> "off"]
    /\ quarry' = [t \in Timers |-> NoPid]
    /\ monitor' = FALSE /\ probe' = [k \in Probes |-> "none"]
    /\ windows' = 0 /\ misled' = FALSE
    /\ UNCHANGED <<launch, os, deaths, timeouts>>

\* The start has resolved, and the backend answers with the token of its own.
Opened ==
    /\ app = "boot" /\ at = "idle"
    /\ Serving
    /\ app' = "open"
    /\ UNCHANGED <<launch, os, child, running, stopping, starting, crashes,
                   timers, health, bounds>>

\* checkReadiness does not succeed within maxWaitTime.
NotReady ==
    /\ app = "boot" /\ at = "idle"
    /\ app' = "dialog"
    /\ UNCHANGED <<launch, os, child, running, stopping, starting, crashes,
                   timers, health, bounds>>

\* Retry in the error dialog: app.relaunch and app.exit, without before-quit.
Relaunch == app = "dialog" /\ Gone

\* before-quit: killSync; the exit follows in a callback of its own.
KillSync ==
    /\ app \in {"boot", "dialog", "open"}
    /\ app' = "exiting"
    /\ stopping' = TRUE
    /\ Terminated(IF process # NoPid THEN process ELSE Listener)
    /\ process' = NoPid /\ running' = FALSE /\ monitor' = FALSE
    /\ UNCHANGED <<launch, spawner, reported, starting, crashes, timers, probe,
                   bounds>>

\* Quit in the dialog of the closed window: isQuitting is set before app.quit,
\* so before-quit takes the cleanup for done.
CloseQuit ==
    /\ app = "open"
    /\ app' = "exiting"
    /\ UNCHANGED <<launch, os, child, running, stopping, starting, crashes,
                   timers, health, bounds>>

ExitApp == app = "exiting" /\ Gone

Backend(p) == Listen(p) \/ Die(p)
Start == TerminateOwned \/ FindListening \/ Spawn \/ HealthSeen \/ Ready
         \/ GiveUp \/ Failed
Restart(t) == TimerFires(t) \/ TimerFinds(t) \/ TimerStarts(t)
Main == Launch \/ Opened \/ NotReady \/ Relaunch \/ KillSync \/ CloseQuit \/ ExitApp

Next ==
    \/ \E p \in Pids : Backend(p) \/ Exit(p)
    \/ Start
    \/ \E t \in Timers : Restart(t)
    \/ \E k \in Probes : Ask(k) \/ Answered(k)
    \/ WindowPasses
    \/ Main

Spec == Init /\ [][Next]_vars

\* Backends finish starting, and callbacks that are due run; deaths, users and
\* the questions of the renderer owe nothing.
FairSpec ==
    /\ Spec
    /\ \A p \in Pids : WF_vars(Listen(p)) /\ WF_vars(Exit(p))
    /\ WF_vars(Start) /\ WF_vars(ExitApp)
    /\ \A t \in Timers : WF_vars(Restart(t))
    /\ \A k \in Probes : WF_vars(Answered(k))

-----------------------------------------------------------------------------
(* Properties. *)

\* Whoever awaits a start is answered, however the backend ends meanwhile,
\* unless the application ends (or the bound on spawns is reached).
StartSettles ==
    startup = "pending" ~> startup # "pending" \/ app = "down" \/ Unborn = {}

\* The window is open, the crash limit is not reached, and a spawn within the
\* bounds is left.
MayRestart ==
    app = "open" /\ crashes <= MaxCrashesPerWindow /\ Unborn # {}

\* A backend that exits with an error is replaced by one that listens
\* ("Unexpected crash detected. Auto-restarting"), also when a backend of an
\* earlier launch takes the port.  Excepted are a signal of somebody else, which
\* a waiting start does not notice; a start given up while its backend lives,
\* whose orderly end is no crash; and an answer that is taken for the child's
\* although the child is dead or another backend gave it.
Recovered ==
    <>[](/\ MayRestart /\ ~misled
         /\ \A p \in Pids : Mine(p) => death[p] \in {"none", "code"})
        => <>[]Serving

\* When the application exits at the user's request, while no start is under
\* way, it leaves no backend of its own behind (main.ts, cleanup: "Stopping
\* backend...").
QuitStopsBackend ==
    [][ExitApp /\ at = "idle" => \A p \in Pids : Mine(p) => ~Alive(p)]_vars
=============================================================================

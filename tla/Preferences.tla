------------------------------ MODULE Preferences ------------------------------
(***************************************************************************)
(* What the window keeps in the settings file: the administrator lock and  *)
(* the choices of the first start.  The window loads them once, shows its  *)
(* own copy from then on and writes every change behind the user's back;   *)
(* the main process writes the same file when Facenox Cloud resets the PIN.*)
(*                                                                         *)
(* Window and main process talk over two channels that keep their order.   *)
(* The PIN is the default one or another, a lockout is named by the wrong  *)
(* attempt that began it, sidebar and sound settings are left out.         *)
(***************************************************************************)
EXTENDS Integers, Sequences

CONSTANTS
    MaxChoices,     \* bound on what the user changes
    MaxWrong,       \* bound on wrong attempts
    MaxResets,      \* bound on resets from the cloud
    MaxLaunches,    \* bound on launches
    MaxCalls        \* bound on calls under way when the user acts: they take no time

ASSUME PreferencesAssumption ==
    {MaxChoices, MaxWrong, MaxResets} \subseteq Nat /\ {MaxLaunches, MaxCalls} \subseteq Nat \ {0}

VARIABLES
    file,           \* the settings file
    window,         \* off, starting, loading or hydrated
    copy,           \* the window's copy, which it shows
    awaited,        \* what it has read, when it waits for a write before it shows it
    toMain,         \* calls on their way to the main process
    toWindow,       \* answers and events on their way to the window
    surface,        \* what lies over the main screen: none, prompt, settings or the intro that closes
    elapsed,        \* the last lockout whose time is over
    resetStands,    \* history: the PIN was reset and not turned on since
    resetMissed,    \* history: the window read, or ended, as it was told of a reset
    firstChoice,    \* history: what the last finished intro chose
    cloudOffered,   \* history: the page for the cloud was opened after it
    choices, wrong, resets, launches

channelVars == <<toMain, toWindow>>
windowVars == <<window, copy, awaited, surface>>
resetVars == <<resetStands, resetMissed>>
introVars == <<firstChoice, cloudOffered>>
boundVars == <<choices, wrong, resets, launches>>
preferencesVars == <<file, channelVars, windowVars, elapsed, resetVars, introVars, boundVars>>

Security == {"enabled", "pin", "key", "attempts", "lockout"}

\* The store's defaults, and what the window shows before it has read.
DefaultSettings ==
    [enabled |-> FALSE, pin |-> "default", key |-> 0, attempts |-> 0, lockout |-> 0,
     intro |-> FALSE, cloud |-> FALSE, sound |-> "current"]

InitialState == [DefaultSettings EXCEPT !.key = -1]

\* A file of an earlier version names a sound that has moved since.
PreferencesInit ==
    /\ file \in {DefaultSettings,
                 [DefaultSettings EXCEPT !.enabled = TRUE, !.pin = "own", !.intro = TRUE],
                 [DefaultSettings EXCEPT !.enabled = TRUE, !.pin = "own", !.intro = TRUE, !.sound = "legacy"]}
    /\ window = "off"
    /\ copy = InitialState
    /\ awaited = DefaultSettings
    /\ toMain = <<>> /\ toWindow = <<>>
    /\ surface = "none"
    /\ elapsed = 0
    /\ resetStands = FALSE /\ resetMissed = FALSE
    /\ firstChoice = "none" /\ cloudOffered = FALSE
    /\ choices = 0 /\ wrong = 0 /\ resets = 0 /\ launches = 0

Locked == copy.lockout > elapsed
Hydrated == window = "hydrated"

(***************************************************************************)
(* The copy and the file.                                                  *)
(***************************************************************************)
\* Seeded bug: the attempts are taken for part of the prompt.
ForgetsAttempts(from, to) == \E f \in Security \ {"attempts", "lockout"} : from[f] # to[f]
SecurityChanged(from, to) == \E f \in Security : from[f] # to[f]

\* Seeded bug: the choice of the intro lasts as long as the window.
ChoiceForgotten(from, to) == FALSE
ChoiceChanged(from, to) == from.cloud # to.cloud

Only(fields, values) == [f \in fields |-> values[f]]

\* The subscriber: each changed choice is written at once; the five security
\* values together, after the ones in the file are read.
Subscriber(from, to) ==
    (IF from.intro # to.intro THEN <<[call |-> "set", field |-> "intro", values |-> Only({"intro"}, to)]>> ELSE <<>>)
    \o (IF ChoiceChanged(from, to) THEN <<[call |-> "set", field |-> "cloud", values |-> Only({"cloud"}, to)]>> ELSE <<>>)
    \o (IF SecurityChanged(from, to) THEN <<[call |-> "get", field |-> "security", values |-> Only(Security, to)]>> ELSE <<>>)

Sets(to) == copy' = to /\ toMain' = toMain \o Subscriber(copy, to)

\* The file keeps the fields that a call does not set.
Over(values) == [f \in DOMAIN file |-> IF f \in DOMAIN values THEN values[f] ELSE file[f]]

\* The main process serves one call.
StoreHandler ==
    /\ toMain # <<>>
    /\ LET call == Head(toMain) IN
           CASE call.call = "load" ->
                    /\ toWindow' = Append(toWindow, [call |-> "load", field |-> "all", values |-> file])
                    /\ UNCHANGED file
             [] call.call = "get" ->
                    /\ toWindow' = Append(toWindow, call)
                    /\ UNCHANGED file
             [] call.call = "set" ->
                    /\ file' = Over(call.values)
                    /\ toWindow' = IF call.field = "sound"
                                   THEN Append(toWindow, [call |-> "saved", field |-> "sound", values |-> <<>>]) ELSE toWindow
    /\ toMain' = Tail(toMain)
    /\ UNCHANGED <<windowVars, elapsed, resetVars, introVars, boundVars>>

\* The security values are written once those in the file have been read.
SetSecuritySettings ==
    /\ toWindow # <<>> /\ Head(toWindow).call = "get"
    /\ toMain' = Append(toMain, [Head(toWindow) EXCEPT !.call = "set"])
    /\ toWindow' = Tail(toWindow)
    /\ UNCHANGED <<file, windowVars, elapsed, resetVars, introVars, boundVars>>

(***************************************************************************)
(* Launches.                                                               *)
(***************************************************************************)
Launch ==
    /\ window = "off" /\ launches < MaxLaunches
    /\ launches' = launches + 1
    /\ window' = "starting"
    /\ copy' = InitialState
    /\ surface' = "none"
    /\ UNCHANGED <<file, awaited, channelVars, elapsed, resetVars, introVars, choices, wrong, resets>>

\* The page's scripts run: from here on the window hears of resets.
LoadInitialSettings ==
    /\ window = "starting"
    /\ window' = "loading"
    /\ toMain' = Append(toMain, [call |-> "load", field |-> "all", values |-> <<>>])
    /\ UNCHANGED <<file, copy, awaited, toWindow, surface, elapsed, resetVars, introVars, boundVars>>

Hydrates(values) ==
    /\ window' = "hydrated"
    /\ Sets([values EXCEPT !.sound = "current"])

\* A sound that has moved is corrected in the file first.
SettingsRead ==
    /\ toWindow # <<>> /\ Head(toWindow).call = "load"
    /\ toWindow' = Tail(toWindow)
    /\ LET values == Head(toWindow).values IN
           IF values.sound = "legacy"
           THEN /\ awaited' = values
                /\ toMain' = Append(toMain, [call |-> "set", field |-> "sound", values |-> Only({"sound"}, DefaultSettings)])
                /\ UNCHANGED <<window, copy>>
           ELSE Hydrates(values) /\ UNCHANGED awaited
    /\ UNCHANGED <<file, surface, elapsed, resetVars, introVars, boundVars>>

SoundSaved ==
    /\ toWindow # <<>> /\ Head(toWindow).call = "saved"
    /\ toWindow' = Tail(toWindow)
    /\ Hydrates(awaited)
    /\ awaited' = DefaultSettings
    /\ UNCHANGED <<file, surface, elapsed, resetVars, introVars, boundVars>>

\* The application ends, or its window crashes: what is on its way is lost.
Quit ==
    /\ window # "off"
    /\ window' = "off"
    /\ toMain' = <<>> /\ toWindow' = <<>>
    /\ copy' = InitialState /\ awaited' = DefaultSettings /\ surface' = "none"
    /\ resetMissed' = (resetMissed \/ (resetStands /\ channelVars # <<<<>>, <<>>>>))
    /\ UNCHANGED <<file, elapsed, resetStands, introVars, boundVars>>

(***************************************************************************)
(* The administrator lock.                                                 *)
(***************************************************************************)
Acts == Len(toMain) + Len(toWindow) < MaxCalls
Chooses == Acts /\ choices < MaxChoices /\ choices' = choices + 1 /\ UNCHANGED <<wrong, resets, launches>>

\* App shows the main screen once the intro was seen.
MainShown == Hydrated /\ copy.intro /\ surface # "closing"

RequestOpenSettings ==
    /\ MainShown /\ surface = "none"
    /\ surface' = IF copy.enabled THEN "prompt" ELSE "settings"
    /\ UNCHANGED <<file, window, copy, awaited, channelVars, elapsed, resetVars, introVars, boundVars>>

ClosePinPrompt ==
    /\ surface = "prompt"
    /\ surface' = "none"
    /\ UNCHANGED <<file, window, copy, awaited, channelVars, elapsed, resetVars, introVars, boundVars>>

\* Closed by hand, or by the timer of an unattended computer.
CloseSettings ==
    /\ surface = "settings"
    /\ surface' = "none"
    /\ UNCHANGED <<file, window, copy, awaited, channelVars, elapsed, resetVars, introVars, boundVars>>

\* Four digits have been entered: the keys do nothing while the prompt is locked.
PinEntered == surface = "prompt" /\ ~Locked /\ Acts

\* verifyPin with the right PIN.
VerifyPin ==
    /\ PinEntered
    /\ surface' = "settings"
    /\ Sets([copy EXCEPT !.attempts = 0, !.lockout = 0])
    /\ UNCHANGED <<file, window, awaited, toWindow, elapsed, resetVars, introVars, boundVars>>

\* The third wrong attempt, and every one after it, locks the prompt.
RecordFailedPinAttempt ==
    /\ PinEntered
    /\ wrong < MaxWrong /\ wrong' = wrong + 1
    /\ Sets([copy EXCEPT !.attempts = @ + 1, !.lockout = IF copy.attempts + 1 >= 3 THEN wrong + 1 ELSE 0])
    /\ UNCHANGED <<file, window, awaited, toWindow, surface, elapsed, resetVars, introVars, choices, resets, launches>>

LockoutEnds ==
    /\ Locked
    /\ elapsed' = copy.lockout
    /\ UNCHANGED <<file, channelVars, windowVars, resetVars, introVars, boundVars>>

\* The page "Emergency recovery" of the prompt: a lockout does not concern it.
RecoveryKeyEntered == surface = "prompt"

VerifyRecoveryKey ==
    /\ RecoveryKeyEntered /\ Chooses
    /\ surface' = "settings"
    /\ Sets([copy EXCEPT !.pin = "default", !.enabled = FALSE, !.attempts = 0, !.lockout = 0])
    /\ UNCHANGED <<file, window, awaited, toWindow, elapsed, resetVars, introVars>>

\* The switch "Administrator PIN lock".
SwitchLock ==
    /\ surface = "settings" /\ Chooses
    /\ Sets([copy EXCEPT !.enabled = ~@])
    /\ resetStands' = (resetStands /\ copy.enabled)
    /\ UNCHANGED <<file, window, awaited, toWindow, surface, elapsed, resetMissed, introVars>>

\* The PIN and the recovery key can be changed under the switch that is on.
LockPanelShown == surface = "settings" /\ copy.enabled

\* The new PIN has been entered twice.
HandlePinInputChange ==
    /\ LockPanelShown /\ Chooses
    /\ Sets([copy EXCEPT !.pin = "own"])
    /\ UNCHANGED <<file, window, awaited, toWindow, surface, elapsed, resetVars, introVars>>

\* The button has been clicked twice.
HandleRegenerateKey ==
    /\ LockPanelShown /\ Chooses
    /\ Sets([copy EXCEPT !.key = @ + 1])
    /\ UNCHANGED <<file, window, awaited, toWindow, surface, elapsed, resetVars, introVars>>

\* A command of the cloud: the main process writes the file and tells the
\* window, which hears it once its scripts run.
ResetValues(values) == [values EXCEPT !.pin = "default", !.enabled = FALSE, !.attempts = 0, !.lockout = 0]

ResetPin ==
    /\ resets < MaxResets /\ resets' = resets + 1
    /\ file' = ResetValues(file)
    /\ toWindow' = IF window \in {"loading", "hydrated"}
                   THEN Append(toWindow, [call |-> "reset", field |-> "security", values |-> <<>>])
                   ELSE toWindow
    /\ resetStands' = TRUE
    /\ UNCHANGED <<toMain, windowVars, elapsed, resetMissed, introVars, choices, wrong, launches>>

\* Shown, and not written.
OnlyShows == copy' = ResetValues(copy) /\ UNCHANGED toMain

\* Before the window is hydrated nothing is written, and what it has read
\* replaces what it shows.
AppliesReset ==
    IF Hydrated THEN Sets(ResetValues(copy)) ELSE OnlyShows

OnPinReset ==
    /\ toWindow # <<>> /\ Head(toWindow).call = "reset"
    /\ toWindow' = Tail(toWindow)
    /\ AppliesReset
    /\ surface' = IF surface = "prompt" THEN "none" ELSE surface
    /\ resetMissed' = (resetMissed \/ ~Hydrated)
    /\ UNCHANGED <<file, window, awaited, elapsed, resetStands, introVars, boundVars>>

(***************************************************************************)
(* The first start.                                                        *)
(***************************************************************************)
IntroShown == Hydrated /\ ~copy.intro /\ surface = "none"

\* handleFinish: the choice at once, the intro when its window has faded.
HandleFinish ==
    /\ IntroShown /\ Chooses
    /\ \E choice \in {"offline", "cloud"} :
           /\ firstChoice' = choice
           /\ Sets([copy EXCEPT !.cloud = @ \/ choice = "cloud"])
    /\ cloudOffered' = FALSE
    /\ surface' = "closing"
    /\ UNCHANGED <<file, window, awaited, toWindow, elapsed, resetVars>>

SetHasSeenIntro ==
    /\ surface = "closing"
    /\ surface' = "none"
    /\ Sets([copy EXCEPT !.intro = TRUE])
    /\ UNCHANGED <<file, window, awaited, toWindow, elapsed, resetVars, introVars, boundVars>>

\* The main screen opens the settings for the cloud once.
OfferCloudSetup ==
    /\ MainShown /\ copy.cloud
    /\ surface' = IF copy.enabled THEN "prompt" ELSE "settings"
    /\ cloudOffered' = TRUE
    /\ Sets([copy EXCEPT !.cloud = FALSE])
    /\ UNCHANGED <<file, window, awaited, toWindow, elapsed, resetVars, firstChoice, boundVars>>

PreferencesNext ==
    \/ StoreHandler \/ SetSecuritySettings \/ Launch \/ LoadInitialSettings \/ SettingsRead \/ SoundSaved \/ Quit
    \/ RequestOpenSettings \/ ClosePinPrompt \/ CloseSettings \/ VerifyPin \/ RecordFailedPinAttempt \/ LockoutEnds
    \/ VerifyRecoveryKey \/ SwitchLock \/ HandlePinInputChange \/ HandleRegenerateKey \/ ResetPin \/ OnPinReset
    \/ HandleFinish \/ SetHasSeenIntro \/ OfferCloudSetup

PreferencesSpec == PreferencesInit /\ [][PreferencesNext]_preferencesVars

(***************************************************************************)
(* What must hold.                                                         *)
(***************************************************************************)
Settled == Hydrated /\ toMain = <<>> /\ toWindow = <<>>

\* Once nothing is on its way the file holds what the window shows, so the
\* next launch shows it too.
FileAsShown == Settled => \A f \in (Security \cup {"intro", "cloud"}) : file[f] = copy[f]

\* A PIN that the cloud has reset stays off until somebody turns it on: no
\* write that was under way, and no write of other values, brings it back,
\* unless the window was still reading, or ended while calls were under way.
ResetHolds == Settled /\ resetStands /\ ~resetMissed => ~file.enabled /\ ~copy.enabled

\* When the file says that the intro was seen, the choice for the cloud has
\* been followed or is still noted, however the first launch has ended.
ChoiceKept == file.intro /\ firstChoice = "cloud" => cloudOffered \/ file.cloud

=============================================================================

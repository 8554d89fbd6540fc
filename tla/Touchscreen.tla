---------------------------- MODULE Touchscreen -----------------------------
(***************************************************************************)
(* The touchscreen (firmware/src/io/touchscreen) and the outputs it shows  *)
(* as icons: it follows the levels that Outputs publishes, Outputs         *)
(* publishes them again when the screen has changed.                       *)
(*                                                                         *)
(* A command reaches the display byte by byte, without a lock.  The        *)
(* dispatcher, which sends the icons, may get into the middle of a command *)
(* of the touchscreen thread: the display then understands neither.        *)
(***************************************************************************)
EXTENDS Outputs

CONSTANTS
    IconScreens,  \* by component: [on, off] screens, the component is drawn on either
    PageTargets,  \* screens that a button may select
    InitialScreen,
    TouchEnabled  \* by preset: the setting that enables the touchscreen

ASSUME TouchAssumption ==
    /\ \A p \in Presets : 1 \in DOMAIN p /\ DOMAIN p \subseteq DOMAIN TouchEnabled
    /\ \A n \in DOMAIN TouchEnabled : TouchEnabled[n] \in BOOLEAN

VARIABLES
    screen,      \* _active_screen_id
    initialized, \* _initialized
    display,     \* what the display shows: [page, icon], icons not drawn since the page are "none"
    turning,     \* set_screen() on the touchscreen thread: [at, to, cut], at "none", "page", "adopt" or "announce"
    missed,      \* ghost: components whose last level did not reach the display
    strayed,     \* ghost: components drawn between the command that turned to this page and the store of the active screen
    crossed      \* ghost: the dispatcher got into the last set_screen() of the thread, and no page was sent alone since

ghostVars == <<missed, strayed, crossed>>
touchVars == <<screen, initialized, display, turning, ghostVars>>
feedbackVars == <<outputVars, touchVars>>

NoTurn == [at |-> "none", to |-> 0, cut |-> FALSE]
Blank(page) == [page |-> page, icon |-> [t \in TouchOutputs |-> "none"]]
\* "page" draws a page without icons; until then the icons are those of the old one.
ShowPage(page) == display' = Blank(page) /\ strayed' = {}

FeedbackInit ==
    /\ OutputsInit
    /\ initialized = TouchEnabled[1]
    /\ screen = InitialScreen
    /\ display = Blank(InitialScreen)
    /\ turning = NoTurn
    /\ missed = {} /\ strayed = {} /\ crossed = FALSE
    /\ bus = IF initialized THEN <<[kind |-> "screen"]>> ELSE <<>>

OnScreen(t, s) == IconScreens[t].on # IconScreens[t].off /\ s \in {IconScreens[t].on, IconScreens[t].off}

\* A command in the middle of another one destroys both.
DrawIcon(t, on) ==
    IF turning.at = "page"
    THEN turning' = [turning EXCEPT !.cut = TRUE] /\ missed' = missed \cup {t} /\ UNCHANGED <<display, strayed>>
    ELSE /\ display' = [display EXCEPT !.icon[t] = IF on THEN "on" ELSE "off"]
         /\ missed' = missed \ {t}
         /\ strayed' = IF turning.at = "adopt" THEN strayed \cup {t} ELSE strayed
         /\ UNCHANGED turning
\* set_icon_state()
SetIcon(t, on) ==
    IF ~initialized \/ ~OnScreen(t, screen) THEN UNCHANGED <<display, turning, missed, strayed>> ELSE DrawIcon(t, on)

\* The OscIoSignal subscriber.
HandleLevel ==
    /\ bus # <<>> /\ Head(bus).kind = "level"
    /\ bus' = Tail(bus)
    /\ IF ioFrozen
       THEN missed' = missed \cup {Head(bus).index} /\ UNCHANGED <<display, turning, strayed>>
       ELSE SetIcon(Head(bus).index, Head(bus).on)
    /\ UNCHANGED <<output, shown, joined, pulseState, settingState, ioFrozen, budget, raced, screen, initialized, crossed>>

\* process_switch(): a button that selects a page.  The command takes a while ...
TouchPage ==
    /\ initialized /\ ~ioFrozen /\ turning = NoTurn
    /\ Spend("touches")
    /\ \E page \in PageTargets : turning' = [at |-> "page", to |-> page, cut |-> FALSE]
    /\ UNCHANGED <<levelState, pulseState, settingState, ioFrozen, raced, screen, initialized, display, ghostVars>>
\* ... and has been shown, unless the dispatcher got into it; ...
PageSent ==
    /\ turning.at = "page"
    /\ turning' = [turning EXCEPT !.at = "adopt"]
    /\ IF turning.cut THEN UNCHANGED <<display, strayed>> ELSE ShowPage(turning.to)
    /\ crossed' = turning.cut
    /\ UNCHANGED <<outputVars, screen, initialized, missed>>
\* ... then the screen is the active one ...
AdoptScreen ==
    /\ turning.at = "adopt"
    /\ screen' = turning.to
    /\ turning' = [turning EXCEPT !.at = "announce"]
    /\ UNCHANGED <<outputVars, initialized, display, ghostVars>>
\* ... and Outputs is told.
AnnounceScreen ==
    /\ turning.at = "announce"
    /\ bus' = Append(bus, [kind |-> "screen"])
    /\ turning' = NoTurn
    /\ missed' = IF turning.cut THEN missed \cup TouchOutputs ELSE missed
    /\ UNCHANGED <<output, shown, joined, pulseState, settingState, ioFrozen, budget, raced, screen, initialized, display,
                   strayed, crossed>>

\* A command of the dispatcher: one of the touchscreen thread that it interrupts is destroyed with it.
SendPage(page) ==
    /\ IF turning.at = "page"
       THEN turning' = [turning EXCEPT !.cut = TRUE] /\ missed' = TouchOutputs /\ UNCHANGED <<display, strayed>>
       ELSE ShowPage(page) /\ UNCHANGED <<turning, missed>>
    /\ crossed' = (turning.at \in {"page", "adopt"})

\* Mutant: the display shows the first screen, but the active one stays what it was.
EnableUnstored(enable) ==
    IF enable = initialized THEN UNCHANGED touchVars
    ELSE /\ initialized' = enable
         /\ IF enable THEN SendPage(InitialScreen) /\ UNCHANGED screen
            ELSE /\ turning' = [turning EXCEPT !.cut = turning.at = "page"]
                 /\ UNCHANGED <<display, screen, ghostVars>>
\* init() selects the first screen, deinit_model() stops the hardware.
Enable(enable) ==
    IF enable = initialized THEN UNCHANGED touchVars
    ELSE /\ initialized' = enable
         /\ IF enable THEN SendPage(InitialScreen) /\ screen' = InitialScreen
            ELSE /\ turning' = [turning EXCEPT !.cut = turning.at = "page"]
                 /\ UNCHANGED <<display, screen, ghostVars>>
SignalsOf(enable) == IF enable /\ ~initialized THEN <<[kind |-> "screen"]>> ELSE <<>>

\* PresetChanged, to which both subscribe; the touchscreen also while I/O is frozen.
SelectPreset ==
    \E number \in 0 .. 1 :
        /\ number + 1 \in DOMAIN preset
        /\ ChangePreset(number, SignalsOf(TouchEnabled[number + 1]))
        /\ Enable(TouchEnabled[number + 1])

\* sys_config_set(): the setting Enable.
WriteEnable ==
    /\ Spend("writes")
    /\ Enable(~initialized)
    /\ bus' = bus \o SignalsOf(~initialized)
    /\ UNCHANGED <<output, shown, joined, pulseState, settingState, ioFrozen, raced>>

\* sys_config_set(): the setting InitialScreen selects the screen.
WriteScreen ==
    /\ Spend("writes")
    /\ initialized
    /\ \E page \in PageTargets :
        /\ screen' = page
        /\ SendPage(page)
    /\ bus' = Append(bus, [kind |-> "screen"])
    /\ UNCHANGED <<output, shown, joined, pulseState, settingState, ioFrozen, raced, initialized>>

\* Outputs answers a new screen, unless I/O is frozen.
AnswerScreen ==
    /\ ScreenChanged
    /\ missed' = IF ioFrozen THEN TouchOutputs ELSE missed
    /\ UNCHANGED <<screen, initialized, display, turning, strayed, crossed>>

TouchThread == (bus = <<>> \/ Locked) /\ (TouchPage \/ PageSent \/ AdoptScreen \/ AnnounceScreen)
TouchNext ==
    \/ TouchThread \/ HandleLevel \/ AnswerScreen
    \/ SelectPreset \/ WriteEnable \/ WriteScreen
FeedbackNext == (OutputsNext /\ UNCHANGED touchVars) \/ TouchNext
FeedbackSpec == FeedbackInit /\ [][FeedbackNext]_feedbackVars
\* The threads and the dispatcher go on as long as they have something to do.
FeedbackFairSpec ==
    /\ FeedbackSpec
    /\ WF_feedbackVars(OutputsThread /\ UNCHANGED touchVars)
    /\ WF_feedbackVars(TouchThread) /\ WF_feedbackVars(HandleLevel \/ AnswerScreen)

---------------------------------------------------------------------------
(* Properties *)

\* set_icon_state(), set_screen(): when the signals have been handled, an icon on the screen that is
\* active and shown is drawn as its output, unless its signal fell into a freeze or into another command.
IconsShown ==
    initialized /\ bus = <<>> /\ turning = NoTurn /\ display.page = screen =>
        \A t \in TouchOutputs \ missed :
            OnScreen(t, screen) => display.icon[t] = IF shown[t] # 0 THEN "on" ELSE "off"

\* process_update(): in timer mode an output that pulses goes dark sooner or later.
TimerPulses ==
    \A o \in OutputIndices :
        LET pulses == pulse.mode = "Timer" /\ output[o].pulseOn /\ ~ioFrozen
        IN  pulses /\ output[o].state ~> ~pulses \/ ~output[o].state

\* set_screen(): the page that is shown is the active screen, and no icon of another screen is on it, through pages
\* turned on both threads, presets and settings.  It takes two steps to turn a page: excepted are the time between
\* them, an icon drawn then until the next page (strayed), and a command of the dispatcher that cut off the page of
\* the thread or sent one of its own before the store, until a page is sent undisturbed (crossed).
PageIsActive ==
    initialized /\ ~crossed =>
        /\ turning.at # "adopt" => display.page = screen
        /\ \A t \in TouchOutputs \ strayed : ~OnScreen(t, display.page) => display.icon[t] = "none"
=============================================================================

----------------------------- MODULE Indicators ------------------------------
(***************************************************************************)
(* The activity indicators (firmware/src/io/indicators): LEDs that are lit *)
(* for a moment by traffic, inverted while a configuration session is      *)
(* open, and one that shows whether the device has an address.             *)
(*                                                                         *)
(* The works that end a flash run on the cooperative workqueue of the      *)
(* kernel: they do not interrupt a handler of the dispatcher, unless it    *)
(* sleeps, as the one that shows the start does.                           *)
(***************************************************************************)
EXTENDS NetworkBus

CONSTANTS
    Indicated, \* traffic indicators that the board has
    Flashes    \* STARTUP_INDICATOR_FLASH_COUNT

ASSUME IndicatorAssumption == "NetworkUp" \notin Indicated /\ Flashes \in Nat \ {0}

VARIABLES
    lit,       \* indicators that are on, "NetworkUp" with them
    idleWork,  \* traffic indicators with a scheduled work
    invert,    \* _invert
    networkUp, \* _network_up
    flashing,  \* what is left of the start's flashes, on and off counted
    cleared    \* ghost: indicators that the flashes left as they are not while the session is open

indicatorVars == <<lit, idleWork, invert, networkUp, flashing, cleared>>

\* HwaHw::set(): an indicator that the board does not have stays dark.
On(types) == lit' = lit \cup (types \cap (Indicated \cup {"NetworkUp"}))
Off(types) == lit' = lit \ types
Set(types, on) == IF on THEN On(types) ELSE Off(types)

IndicatorInit ==
    /\ lit = {} /\ idleWork = {} /\ invert = FALSE /\ networkUp = FALSE
    /\ flashing = 0 /\ cleared = {}

\* on_traffic(): set_active() and schedule_idle()
HandleTraffic(type) ==
    /\ Set({type}, ~invert)
    /\ idleWork' = idleWork \cup {type}
    /\ cleared' = cleared \ {type}
    /\ bus' = Tail(bus)
    /\ UNCHANGED <<invert, networkUp, flashing>>

\* set_idle(), at the end of TRAFFIC_INDICATOR_TIMEOUT_MS
EndFlash ==
    /\ \E type \in idleWork :
          /\ Set({type}, invert)
          /\ idleWork' = idleWork \ {type}
          /\ cleared' = cleared \ {type}
    /\ UNCHANGED <<invert, networkUp, flashing, sharedVars>>

\* on_network_identity()
ShowIdentity(announced) ==
    /\ networkUp' = (announced # 0)
    /\ Set({"NetworkUp"}, announced # 0)
    /\ UNCHANGED <<idleWork, invert, flashing, cleared>>

\* Mutant: works of the traffic before are not cancelled, and traffic stays as it is shown.
ShowSessionOnly(open) ==
    /\ invert' = open
    /\ lit' = lit
    /\ cleared' = {}
    /\ bus' = Tail(bus)
    /\ UNCHANGED <<idleWork, networkUp, flashing>>
\* ConfigurationSessionOpened, ConfigurationSessionClosed
ShowSession(open) ==
    /\ invert' = open
    /\ idleWork' = {}
    /\ lit' = (IF open THEN lit \cup Indicated ELSE lit \ Indicated)
              \cup (IF ~open /\ networkUp THEN {"NetworkUp"} ELSE {})
    /\ cleared' = {}
    /\ bus' = Tail(bus)
    /\ UNCHANGED <<networkUp, flashing>>

\* InitComplete: indicate_startup() sleeps between its steps, with the dispatcher.
StartFlashes ==
    /\ flashing' = 2 * Flashes
    /\ UNCHANGED <<lit, idleWork, invert, networkUp, cleared, bus>>
FlashStep ==
    /\ flashing > 0
    /\ flashing' = flashing - 1
    /\ Set(Indicated, flashing % 2 = 0)
    /\ cleared' = IF flashing = 1 /\ invert THEN Indicated ELSE {}
    /\ bus' = IF flashing = 1 THEN Tail(bus) ELSE bus
    /\ UNCHANGED <<idleWork, invert, networkUp, frozen, budget>>
=============================================================================

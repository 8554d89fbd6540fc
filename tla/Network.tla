------------------------------- MODULE Network -------------------------------
(***************************************************************************)
(* The network components together: OSC, mDNS, the WebSockets transport    *)
(* with System's session, and the indicators.  They share the dispatcher.  *)
(***************************************************************************)
EXTENDS Osc, Mdns, Indicators, WebSockets

networkVars == <<sharedVars, oscVars, mdnsVars, indicatorVars, webVars>>

NetworkInit ==
    /\ OscInit /\ MdnsInit /\ IndicatorInit /\ WebInit
    /\ bus = <<>> /\ frozen = FALSE
    /\ budget \in Budgets

\* The dispatcher is cooperative: the other threads go on when it has nothing to do, sleeps in the flashes of the start,
\* or waits for a lock of the WebSockets send thread.
Quiet == IF bus = <<>> THEN TRUE ELSE flashing > 0 \/ (Head(bus).kind = "response" /\ Locked)

\* Signals that other components handle.
Skip == bus' = Tail(bus) /\ UNCHANGED <<oscVars, indicatorVars, webVars>>
Dispatch ==
    /\ bus # <<>> /\ flashing = 0
    /\ LET signal == Head(bus)
       IN CASE signal.kind = "osc" -> HandleSignal(signal.signal) /\ UNCHANGED <<indicatorVars, webVars>>
            [] signal.kind = "identity" ->
                   HandleIdentity(signal) /\ ShowIdentity(signal.address) /\ UNCHANGED webVars
            [] signal.kind = "traffic" -> HandleTraffic(signal.type) /\ UNCHANGED <<oscVars, webVars>>
            [] signal.kind = "opened" -> ShowSession(TRUE) /\ UNCHANGED <<oscVars, webVars>>
            [] signal.kind = "closed" -> ShowSession(FALSE) /\ UNCHANGED <<oscVars, webVars>>
            [] signal.kind = "init" -> StartFlashes /\ UNCHANGED <<oscVars, webVars>>
            [] signal.kind = "request" -> HandleRequest(signal) /\ UNCHANGED <<oscVars, indicatorVars>>
            [] signal.kind = "disconnect" -> HandleDisconnect(signal) /\ UNCHANGED <<oscVars, indicatorVars>>
            [] signal.kind = "response" -> HandleResponse(signal) /\ UNCHANGED <<oscVars, indicatorVars>>
            [] OTHER -> Skip
    /\ UNCHANGED <<mdnsVars, frozen, budget>>
Flash == FlashStep /\ UNCHANGED <<oscVars, mdnsVars, webVars>>

OscThreads ==
    /\ Quiet
    /\ TakeWake \/ SendThread \/ SendTo \/ ReadThread \/ Receive \/ ReceiveFault \/ StartOsc
    /\ UNCHANGED <<mdnsVars, indicatorVars, webVars>>
OscOutside ==
    /\ Quiet
    /\ PublishSignal \/ WriteOsc \/ TimePasses \/ HostChanges
    /\ UNCHANGED <<mdnsVars, indicatorVars, webVars>>
MdnsThreads ==
    /\ Quiet
    /\ StartMdns \/ ChangeAddress \/ HandleAddressEvent \/ PublishIdentity \/ WriteHostname
    /\ UNCHANGED <<oscVars, indicatorVars, webVars>>
IndicatorWork == Quiet /\ EndFlash /\ UNCHANGED <<oscVars, mdnsVars, webVars>>
WebThreads ==
    /\ Quiet
    /\ \/ Accept \/ Replace \/ NotifyReplaced \/ Adopt
       \/ TakeClient \/ ReceiveFrame \/ HandleSysEx \/ HandleBegin \/ CloseClient \/ NotifyClosed
       \/ TakeTx \/ NextFrame \/ SendFrame
       \/ ConfigTimeout \/ ClientSends \/ ClientLeaves
    /\ UNCHANGED <<oscVars, mdnsVars, indicatorVars>>

\* System has started everything, MIDI over USB shows traffic, System freezes the protocols before a reboot.
System ==
    /\ Quiet
    /\ \/ /\ oscOn /\ networkName # <<>> /\ Spend("inits")
          /\ bus' = Append(bus, [kind |-> "init"]) /\ UNCHANGED frozen
       \/ /\ Spend("traffic")
          /\ \E type \in Indicated : bus' = Append(bus, Traffic(type))
          /\ UNCHANGED frozen
       \/ ~frozen /\ Spend("freezes") /\ frozen' = TRUE /\ UNCHANGED bus
    /\ UNCHANGED <<oscVars, mdnsVars, indicatorVars, webVars>>

NetworkNext ==
    \/ Dispatch \/ Flash \/ OscThreads \/ OscOutside \/ MdnsThreads \/ IndicatorWork \/ WebThreads \/ System

NetworkSpec == NetworkInit /\ [][NetworkNext]_networkVars

----------------------------------------------------------------------------
(* Properties *)

\* However changes of the address, the work that reads it and the signal overlap: when nothing is under way, OSC knows
\* the address that the device has and the indicator shows whether it has one, under a name that is a valid label.
IdentityFollowed ==
    networkName # <<>> =>
        /\ ~addressEvent /\ ~identityWork /\ ~Signalled("identity") =>
              /\ identity = [received |-> TRUE, name |-> networkName, address |-> address]
              /\ ("NetworkUp" \in lit) = (address # 0)
        /\ \A i \in DOMAIN networkName : networkName[i] \in Digits \cup Small \cup {Dash}
        /\ Dash \notin {networkName[1], networkName[Len(networkName)]}

\* An indicator without a work shows the state of the configuration session, traffic of before it included: it is lit
\* while the session is open and dark otherwise, but for the flashes of the start, which do not know the session.
IndicatorsSettle ==
    flashing = 0 /\ ~Signalled("opened") /\ ~Signalled("closed") =>
        /\ invert = config.on
        /\ \A type \in Indicated \ (idleWork \cup cleared) : (type \in lit) = invert
=============================================================================

-------------------------------- MODULE Mdns ---------------------------------
(***************************************************************************)
(* mDNS: the host name, and the identity that a work item of the           *)
(* System workqueue publishes when the address may have changed            *)
(* (protocol/mdns, common/src/protocols/mdns).                             *)
(***************************************************************************)
EXTENDS NetworkBus

CONSTANTS
    Hostnames,      \* what the database may hold: sequences of CUSTOM_HOSTNAME_SIZE characters
    HostnameWrites, \* [index, value] that a SysEx request writes
    Addresses,      \* addresses the device may get
    Prefix, Target, \* HOSTNAME_PREFIX and the name of the board
    SerialNumbers,  \* bytes that identify the device, none when the chip has no serial number
    TargetUid,      \* the bytes that are taken then
    SuffixBytes     \* SERIAL_SUFFIX_BYTES

VARIABLES
    serial,       \* of this device
    hostname,     \* MdnsHostname of the database
    customName,   \* _custom_hostname and _custom_hostname_loaded
    networkName,  \* the name of the identity, empty before init()
    address,      \* the address of the interface, 0 when there is none
    addressEvent, \* the event of the last change has not been handled
    identityWork  \* _network_identity_work is scheduled

mdnsVars == <<serial, hostname, customName, networkName, address, addressEvent, identityWork>>

Nul == 0
Dash == 45
\* std::isalnum() in the "C" locale, without the capitals that are written in small letters
Digits == 48 .. 57
Small == 97 .. 122
Capitals == 65 .. 90

ASSUME MdnsAssumption ==
    /\ Hostnames \subseteq Seq(0 .. 255) /\ \A w \in HostnameWrites : w.value \in 0 .. 255
    /\ 0 \notin Addresses
    /\ Prefix \in Seq(Digits \cup Small \cup {Dash}) /\ Prefix # <<>> /\ Head(Prefix) # Dash
    /\ Target \in Seq(0 .. 255)
    /\ SerialNumbers \cup {TargetUid} \subseteq Seq(0 .. 255) /\ TargetUid # <<>>
    /\ SuffixBytes \in Nat \ {0}

Lower(c) == IF c \in Capitals THEN c + 32 ELSE c

\* hostname_safe_char()
SafeCharacter(c) == IF c \in Digits \cup Small \cup Capitals THEN Lower(c) ELSE Dash
Hex(bytes) ==
    LET Digit(n) == IF n < 10 THEN 48 + n ELSE 87 + n
    IN [i \in 1 .. 2 * Len(bytes) |-> LET byte == bytes[(i + 1) \div 2]
                                      IN Digit(IF i % 2 = 1 THEN byte \div 16 ELSE byte % 16)]
\* HwaHw::serial_number(): the last bytes; append_serial(): or the identifier of the board.
Serial ==
    LET first == IF Len(serial) > SuffixBytes THEN Len(serial) - SuffixBytes + 1 ELSE 1
    IN Hex(IF serial = <<>> THEN TargetUid ELSE SubSeq(serial, first, Len(serial)))
\* default_hostname()
DefaultHostname == Prefix \o <<Dash>> \o [i \in DOMAIN Target |-> SafeCharacter(Target[i])] \o <<Dash>> \o Serial

\* make_hostname() and custom_hostname(): letters, digits and inner dashes up to the terminator, or the default.
CustomHostname(name) ==
    LET ends == {i \in DOMAIN name : name[i] = Nul}
        length == (CHOOSE i \in ends : \A j \in ends : i <= j) - 1
    IN IF ends = {} \/ length = 0 THEN DefaultHostname
       ELSE IF \E i \in 1 .. length : name[i] \notin Digits \cup Small \cup Capitals \cup {Dash} THEN DefaultHostname
       ELSE IF Dash \in {name[1], name[length]} THEN DefaultHostname
       ELSE [i \in 1 .. length |-> Lower(name[i])]

\* load_custom_hostname(): up to the terminator, once.
Loaded ==
    LET ends == {i \in DOMAIN hostname : hostname[i] = Nul}
    IN IF customName.loaded THEN customName.characters
       ELSE [i \in DOMAIN hostname |-> IF \E j \in ends : j <= i THEN Nul ELSE hostname[i]]

MdnsInit ==
    /\ serial \in SerialNumbers
    /\ hostname \in Hostnames
    /\ customName = [loaded |-> FALSE, characters |-> [i \in DOMAIN hostname |-> Nul]]
    /\ networkName = <<>>
    /\ address \in Addresses \cup {0}
    /\ addressEvent = FALSE /\ identityWork = FALSE

\* init(): the name is fixed here, changes of the address are followed from here on.
StartMdns ==
    /\ networkName = <<>> /\ Spend("mdns")
    /\ networkName' = CustomHostname(Loaded)
    /\ customName' = [loaded |-> TRUE, characters |-> Loaded]
    /\ addressEvent' = FALSE
    /\ identityWork' = TRUE
    /\ UNCHANGED <<serial, hostname, address, bus, frozen>>

\* The stack changes the address and raises the event, which has no effect before init().
ChangeAddress ==
    /\ Spend("addresses")
    /\ address' \in (Addresses \cup {0}) \ {address}
    /\ addressEvent' = (networkName # <<>>)
    /\ UNCHANGED <<serial, hostname, customName, networkName, identityWork, bus, frozen>>
\* Mutant: the removal of the address is logged only.
AddressAddedOnly ==
    /\ addressEvent
    /\ addressEvent' = FALSE
    /\ identityWork' = (identityWork \/ address # 0)
    /\ UNCHANGED <<serial, hostname, customName, networkName, address, sharedVars>>
\* ip_event_handler(): the work is rescheduled without delay, whatever the event.
HandleAddressEvent ==
    /\ addressEvent
    /\ addressEvent' = FALSE
    /\ identityWork' = TRUE
    /\ UNCHANGED <<serial, hostname, customName, networkName, address, sharedVars>>
\* The work: the address as it is now.
PublishIdentity ==
    /\ identityWork
    /\ identityWork' = FALSE
    /\ bus' = Append(bus, [kind |-> "identity", name |-> networkName, address |-> address])
    /\ UNCHANGED <<serial, hostname, customName, networkName, address, addressEvent, frozen, budget>>

\* sys_config_set(): stored, and kept for reads; the name itself changes with the next start.
WriteHostname ==
    /\ Spend("hostnameWrites")
    /\ \E w \in HostnameWrites :
          /\ hostname' = [hostname EXCEPT ![w.index] = w.value]
          /\ customName' = [loaded |-> TRUE, characters |-> [customName.characters EXCEPT ![w.index] = w.value]]
    /\ UNCHANGED <<serial, networkName, address, addressEvent, identityWork, bus, frozen>>
=============================================================================

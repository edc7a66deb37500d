------------------------------ MODULE DriverCmd -----------------------------
(***************************************************************************)
(* The private commands of wpa_supplicant (wpa_supplicant_8_lib/              *)
(* driver_cmd_nl80211.c): the dispatcher, the counter of consecutive errors   *)
(* behind the message HANGED, and the event after a change of the country.    *)
(*                                                                         *)
(* There are two interfaces: "wlan", a net device, and "p2p", a dedicated P2P *)
(* device that has none; its wpa_supplicant may know wlan as its parent.      *)
(***************************************************************************)
EXTENDS WifiDriver

CONSTANTS
    DRV_NUMBER_SEQUENTIAL_ERRORS,  \* of android_drv.h (external)
    MaxCmds,       \* bound on the commands
    CmdFaults      \* what may fail: "ioctl", "flags"

ASSUME CmdAssumption == {DRV_NUMBER_SEQUENTIAL_ERRORS, MaxCmds} \subseteq Nat

Iface == {"wlan", "p2p"}
Cmd == [name : {"STOP", "START", "MACADDR", "SETBAND", "RSSI"}] \cup [name : {"COUNTRY"}, code : Countries]

VARIABLES
    parent,        \* wpa_s->parent of p2p: "none", "gone" (without drv_priv) or "wlan"
    drv_errors,
    up,            \* the flags of wlan
    announced,     \* the latest driver state of wlan: "STOPPED" or "STARTED"
    known,         \* the country whose channels wpa_supplicant has
    log,           \* history: the private commands, and whether they succeeded
    hanged,        \* history: the commands after which HANGED was reported
    cfailed        \* history: calls that failed

cmdVars == <<parent, drv_errors, up, announced, known, log, hanged, cfailed>>

CmdInit ==
    /\ parent = "none" /\ drv_errors = 0
    /\ up = TRUE /\ announced = "STARTED"
    /\ known = country
    /\ log = <<>> /\ hanged = {} /\ cfailed = {}

CmdOk(call) == IF call \in CmdFaults THEN BOOLEAN ELSE {TRUE}

\* wpa_supplicant adds and removes interfaces (external).
ParentChanges ==
    /\ Len(log) < MaxCmds
    /\ parent' \in {"none", "gone", "wlan"} \ {parent}
    /\ UNCHANGED <<country, drv_errors, up, announced, known, log, hanged, cfailed>>

\* The interface that a command acts on: without a net device it is rerouted to the parent.
Target(i) == IF i = "p2p" /\ parent = "wlan" THEN "wlan" ELSE i

\* A parent without its driver data.
Refused(i) == i = "p2p" /\ parent = "gone"

-----------------------------------------------------------------------------
\* Slip: HANGED comes one error early.
HangsEarly(errors) == errors >= DRV_NUMBER_SEQUENTIAL_ERRORS

Hangs(errors) == errors > DRV_NUMBER_SEQUENTIAL_ERRORS

\* wpa_driver_send_hang_msg, or the reset of the counter, which all interfaces share.
Count(ok) ==
    LET errors == drv_errors + 1
    IN  /\ drv_errors' = IF ok \/ Hangs(errors) THEN 0 ELSE errors
        /\ hanged' = IF ~ok /\ Hangs(errors) THEN hanged \cup {Len(log) + 1} ELSE hanged
        /\ log' = Append(log, ok)

\* Slip: only a change of the bands is reported.
NotifiesBands(c, ok) == ok /\ c.name = "SETBAND"

\* wpa_driver_notify_country_change, after which wpa_supplicant gets the channels anew.
Notifies(c, ok) == ok /\ c.name \in {"COUNTRY", "SETBAND"}

\* The ioctl; there is none for an interface without a net device.
Private(i, c) ==
    /\ c.name \in {"COUNTRY", "SETBAND", "RSSI"}
    /\ ~Refused(i)
    /\ Len(log) < MaxCmds
    /\ \E ok \in IF Target(i) = "wlan" THEN CmdOk("ioctl") ELSE {FALSE} :
        /\ Count(ok)
        /\ country' = IF ok /\ c.name = "COUNTRY" THEN c.code ELSE country
        /\ known' = IF Notifies(c, ok) THEN country' ELSE known
        /\ cfailed' = IF ok THEN cfailed ELSE cfailed \cup {"ioctl"}
    /\ UNCHANGED <<parent, up, announced>>

\* STOP and START announce the state whether or not the flags could be set.
StopStart(i, c) ==
    /\ c.name \in {"STOP", "START"}
    /\ ~Refused(i)
    /\ \E ok \in IF Target(i) = "wlan" THEN CmdOk("flags") ELSE {FALSE} :
        /\ up' = IF ok THEN c.name = "START" ELSE up
        /\ cfailed' = IF ok THEN cfailed ELSE cfailed \cup {"flags"}
    /\ announced' = IF Target(i) = "wlan" THEN IF c.name = "START" THEN "STARTED" ELSE "STOPPED" ELSE announced
    /\ UNCHANGED <<country, parent, drv_errors, known, log, hanged>>

\* MACADDR, whose failure is not counted, and commands that are refused.
NoEffect(i, c) ==
    /\ c.name = "MACADDR" \/ Refused(i)
    /\ UNCHANGED <<country, cmdVars>>

CmdNext ==
    \/ ParentChanges
    \/ \E i \in Iface, c \in Cmd : Private(i, c) \/ StopStart(i, c) \/ NoEffect(i, c)
=============================================================================

----------------------------- MODULE VendorOps ------------------------------
(***************************************************************************)
(* The vendor interface (bt_vendor_skw.c): init, USERIAL_OPEN, FW_CFG,        *)
(* USERIAL_CLOSE and cleanup, over several sessions of a process that may     *)
(* die.  What a port does between open and close is in PortLifecycle; here it *)
(* is closed, opened (its device only) or running (its threads, too).         *)
(*                                                                         *)
(* The stack closes what it opened, also after an open that failed, before it *)
(* opens again or cleans up.                                                *)
(***************************************************************************)
EXTENDS BdAddr

CONSTANTS
    Confs,         \* the configuration files, as VendorConf!Load gives them: the number of
                   \* BtDeviceNode lines, whether the first is marked as a UART ('?'), whether
                   \* load_skwbt_conf stopped at a line, SkwBtUartOnly; no file is NoConf
    NoConf,
    MaxOpens,      \* bound on the calls of USERIAL_OPEN
    MaxCrashes     \* bound on the deaths of the process

Port == 0..3
CMDEVT == 0
ACL == 1
AUDIO == 2
ISO == 3
NoPort == -1

ASSUME ConfsAssumption ==
    Confs \subseteq [nodes : 0..4, uart : BOOLEAN, broken : BOOLEAN, only : BOOLEAN] \cup {NoConf}
ASSUME BoundsAssumption == {MaxOpens, MaxCrashes} \subseteq Nat

VARIABLES
    conf,          \* skwbt.conf
    pc,            \* "down", "init", "up", then through USERIAL_OPEN to "opened"
    transtype,     \* the bits of skwbt_transtype
    named,         \* ports with a port_name
    port,          \* scomm_vnd: "closed", "opened", "running"
    boot,          \* btboot_fp is open
    btpw,          \* btpw_fp: "none", "open", or "stale" (closed, but not reset)
    idx,           \* of USERIAL_OPEN
    stack,         \* the port whose socket the stack was given
    opens, crashes,
    socketFailed,  \* a socket_open of this USERIAL_OPEN failed
    twice          \* history: btpw_fp was closed twice

opVars == <<pc, transtype, named, port, boot, btpw, idx, stack, socketFailed>>
bounds == <<conf, opens, crashes>>
vars == <<addrVars, failed, opVars, bounds, twice>>

Init ==
    /\ AddrInit
    /\ pc = "down" /\ transtype = {} /\ named = {}
    /\ port = [p \in Port |-> "closed"]
    /\ boot = FALSE /\ btpw = "none"
    /\ idx = 0 /\ stack = NoPort /\ socketFailed = FALSE
    /\ conf \in Confs /\ opens = 0 /\ crashes = 0 /\ twice = FALSE

\* init: scomm_vendor_init, load_skwbt_conf; skw_addr_gen_init follows.  load_skwbt_conf sets the
\* transport only if it read the whole file.
InitCall ==
    /\ pc = "down"
    /\ pc' = "init" /\ gen' = "start"
    /\ port' = [p \in Port |-> "closed"]
    /\ named' = IF conf = NoConf THEN {} ELSE {p \in Port : p < conf.nodes}
    /\ transtype' = IF conf = NoConf \/ conf.broken THEN transtype
                    ELSE {"H4"} \cup (IF conf.uart THEN {"UART"} ELSE {})
    /\ UNCHANGED <<ap, file, bdaddr_lap, bdaddr_valid, given, torn, failed, boot, btpw, idx, stack,
                   socketFailed, bounds, twice>>

InitAddr ==
    /\ pc = "init"
    /\ GenOpen \/ GenWrite
    /\ pc' = IF gen' = "idle" THEN "up" ELSE "init"
    /\ UNCHANGED <<transtype, named, port, boot, btpw, idx, stack, socketFailed, bounds, twice>>

-----------------------------------------------------------------------------
(* USERIAL_OPEN *)

\* Slip: a descriptor that looks open is kept.
BtpwAfterKept(opened) == IF btpw # "none" THEN btpw ELSE IF opened THEN "open" ELSE "none"

\* btpw_fp after "/dev/BTDATA" was opened.
BtpwAfter(opened) == IF opened THEN "open" ELSE "none"

Uart == "UART" \in transtype

\* The boot device, which a UART needs only beside SDIO or USB, and then the wake-up device.
OpenBoot ==
    /\ pc = "up" /\ opens < MaxOpens
    /\ opens' = opens + 1
    /\ idx' = 0 /\ socketFailed' = FALSE
    /\ LET needed == ~Uart \/ ~conf.only
       IN  \E booted \in Ok("boot"), data \in Ok("data") :
            /\ boot' = IF needed THEN booted ELSE boot
            /\ btpw' = IF Uart /\ needed /\ booted THEN BtpwAfter(data) ELSE btpw
            /\ failed' = failed \cup Note("boot", booted) \cup Note("data", data)
            /\ pc' = IF needed /\ ~booted THEN "opened" ELSE IF Uart THEN "uart" ELSE "ports"
    /\ UNCHANGED <<addrVars, transtype, named, port, stack, conf, crashes, twice>>

\* Slip: the stack gets the last socket.
TakeFdLast(fd, p) == p

\* The stack gets the first socket that was opened.
TakeFd(fd, p) == IF fd = NoPort THEN p ELSE fd

\* usbsdio_open or uart_open, and socket_open.
OpenDevice(p, opened, paired) ==
    /\ port' = [port EXCEPT ![p] = IF ~opened THEN "closed" ELSE IF paired THEN "running" ELSE "opened"]
    /\ stack' = IF opened /\ paired THEN TakeFd(stack, p) ELSE stack
    /\ socketFailed' = (socketFailed \/ (opened /\ ~paired))
    /\ failed' = failed \cup Note("device", opened) \cup Note("socket", paired)

OpenUart ==
    /\ pc = "uart"
    /\ \E opened \in Ok("device"), paired \in Ok("socket") : OpenDevice(CMDEVT, opened, paired)
    /\ pc' = "opened"
    /\ UNCHANGED <<addrVars, transtype, named, boot, btpw, idx, bounds, twice>>

\* What opening the device of a port may return: there is none with the name of a UART whose
\* '?' was not taken off.
Opens(p) == IF p = CMDEVT /\ conf.uart /\ ~Uart THEN {FALSE} ELSE Ok("device")

\* One round of the loop over the ports.
OpenPort ==
    /\ pc = "ports" /\ idx \in Port
    /\ IF idx \in named
       THEN \E opened \in Opens(idx), paired \in Ok("socket") :
                /\ OpenDevice(idx, opened, paired)
                /\ IF opened THEN idx' = idx + 1 /\ UNCHANGED pc
                             ELSE pc' = "classify" /\ UNCHANGED idx
       ELSE idx' = idx + 1 /\ UNCHANGED <<port, stack, socketFailed, failed, pc>>
    /\ UNCHANGED <<addrVars, transtype, named, boot, btpw, bounds, twice>>

\* Slip: off by one.
TransportStrict(i) == IF i < ACL THEN "USB" ELSE "SDIO"

\* USB has at most the first port.
Transport(i) == IF i <= ACL THEN "USB" ELSE "SDIO"

\* The bit is added to those of earlier calls.
OpenEnd ==
    /\ pc = "classify" \/ (pc = "ports" /\ idx \notin Port)
    /\ transtype' = transtype \cup {Transport(idx)}
    /\ pc' = "opened"
    /\ UNCHANGED <<addrVars, failed, named, port, boot, btpw, idx, stack, socketFailed, bounds, twice>>

-----------------------------------------------------------------------------
\* FW_CFG, when the stack was told that the ports are open.
FwCfg ==
    /\ pc = "opened" /\ stack # NoPort
    /\ GetAddr
    /\ UNCHANGED <<opVars, bounds, twice>>

\* USERIAL_CLOSE: the boot device, the ports, and btpw_fp, which keeps its number.
Close ==
    /\ pc = "opened"
    /\ pc' = "up"
    /\ boot' = FALSE
    /\ port' = [p \in Port |-> "closed"]
    /\ stack' = NoPort
    /\ twice' = (twice \/ btpw = "stale")
    /\ btpw' = IF btpw = "none" THEN "none" ELSE "stale"
    /\ UNCHANGED <<addrVars, failed, transtype, named, idx, socketFailed, bounds>>

Cleanup ==
    /\ pc = "up"
    /\ pc' = "down" /\ transtype' = {}
    /\ UNCHANGED <<addrVars, failed, named, port, boot, btpw, idx, stack, socketFailed, bounds, twice>>

\* The process dies and is started again.
Crash ==
    /\ crashes < MaxCrashes
    /\ crashes' = crashes + 1
    /\ AddrRestart
    /\ pc' = "down" /\ transtype' = {} /\ named' = {}
    /\ port' = [p \in Port |-> "closed"]
    /\ boot' = FALSE /\ btpw' = "none"
    /\ idx' = 0 /\ stack' = NoPort /\ socketFailed' = FALSE
    /\ UNCHANGED <<conf, opens, twice>>

Next ==
    \/ InitCall \/ InitAddr
    \/ OpenBoot \/ OpenUart \/ OpenPort \/ OpenEnd
    \/ FwCfg \/ Close \/ Cleanup \/ Crash

Spec == Init /\ [][Next]_vars

-----------------------------------------------------------------------------
(* Properties *)

HciType == {"command", "acl", "sco", "iso"}

\* The port to which scomm_vendor_recv_rawdata sends a packet of the host.
Route(t) ==
    IF "SDIO" \notin transtype THEN CMDEVT
    ELSE CASE t = "acl" -> ACL [] t = "sco" -> AUDIO [] t = "iso" -> ISO [] OTHER -> CMDEVT

\* When the stack was told that the ports are open, every packet goes to a running port,
\* unless the port has no node, a socket failed, SDIO lost a port behind the second, or the
\* transport was found to be USB after it had been SDIO.
RoutesRun ==
    pc = "opened" /\ stack # NoPort =>
        \A t \in HciType :
            \/ port[Route(t)] = "running"
            \/ Route(t) \notin named
            \/ socketFailed
            \/ idx \in {AUDIO, ISO} /\ Route(t) >= idx
            \/ {"USB", "SDIO"} \subseteq transtype

\* The stack talks to the socket of the first port, the only one that is read, unless that
\* socket failed.
StackGetsFirstPort == stack # NoPort => stack = CMDEVT \/ socketFailed

\* btpw_fp, which is not reset when it is closed, is closed a second time (when its number
\* may be another file's) only if the boot device failed to open in between.
BtpwClosedOnce == twice => "boot" \in failed
=============================================================================
